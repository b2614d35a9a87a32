--------------------------- MODULE SymbolsProofs ---------------------------
(***************************************************************************)
(* The stack of the measured labels is ordered by level whatever a program *)
(* opens and closes in whatever order, so a boundary that stops at the     *)
(* first label of an outer level has closed all it should, and the end of  *)
(* the file closes the rest.                                               *)
(*                                                                         *)
(* A last pass that reports nothing about temporary labels has gone        *)
(* through the list of the pass before, label by label: its own list is a  *)
(* prefix of it, and as long as the number of definitions it passed.  So a *)
(* search forward in the old list finds what the pass itself defines.      *)
(***************************************************************************)
EXTENDS Symbols, FiniteSetTheorems, SequenceTheorems, WellFoundedInduction, TLAPS

-----------------------------------------------------------------------------
(* Choosing the least and the greatest index *)

\* A set of natural numbers that is not empty has a least element.
LEMMA LeastExists ==
  ASSUME NEW S \in SUBSET Nat, S # {}
  PROVE  \E x \in S : \A y \in S : x <= y
<1>1. PICK x \in S : \A y \in S : ~(<<y, x>> \in OpToRel(<, Nat))
  BY NatLessThanWellFounded, WFMin
<1>2. \A y \in S : ~(y < x)
  BY <1>1 DEF OpToRel
<1> QED
  BY <1>2

\* A bounded one has a greatest element.
LEMMA GreatestExists ==
  ASSUME NEW n \in Nat, NEW S \in SUBSET (1 .. n), S # {}
  PROVE  \E x \in S : \A y \in S : x >= y
<1> DEFINE D == {d \in 0 .. n : n - d \in S}
<1>1. D \in SUBSET Nat
  OBVIOUS
<1>2. D # {}
  <2>1. PICK x \in S : TRUE
    OBVIOUS
  <2>2. n - (n - x) = x /\ n - x \in 0 .. n
    BY <2>1
  <2> QED
    BY <2>1, <2>2
<1>3. PICK d \in D : \A e \in D : d <= e
  BY <1>1, <1>2, LeastExists
<1>4. ASSUME NEW y \in S PROVE n - d >= y
  <2>1. n - y \in 0 .. n /\ n - (n - y) = y
    BY <1>4
  <2>2. n - y \in D
    BY <1>4, <2>1
  <2>3. d <= n - y /\ d \in 0 .. n
    BY <2>2, <1>3
  <2> QED
    BY <2>1, <2>3
<1> QED
  BY <1>3, <1>4

-----------------------------------------------------------------------------
(* SIZEOF: the stack of the measured labels.                               *)

\* A stack of measured labels, innermost last, none deeper than top.
Stack(s) == /\ s \in Seq(Range(s))
            /\ \A k \in DOMAIN s : s[k].srcLevel \in Int
Ordered(s) == \A i, j \in DOMAIN s : i < j => s[i].srcLevel <= s[j].srcLevel
Below(s, top) == \A k \in DOMAIN s : s[k].srcLevel <= top
Above(s, bottom) == \A k \in DOMAIN s : bottom <= s[k].srcLevel

\* The boundaries that close labels of all levels.
Hard(kind) == kind \in {"all", "flow"}

\* What a boundary closes is the end of the stack: what stays is the beginning,
\* and all of it belongs to outer levels.
LEMMA ClosedIsSuffix ==
  ASSUME NEW s, Stack(s), Ordered(s), NEW my \in Int, NEW kind
  PROVE  \E m \in 0 .. Len(s) :
            /\ Len(s) - Cardinality(Closed(s, my, Hard(kind))) = m
            /\ Hard(kind) => m = 0
            /\ \A k \in 1 .. m : s[k].srcLevel < my
            /\ \A k \in m + 1 .. Len(s) : Hard(kind) \/ my <= s[k].srcLevel
<1> DEFINE low == {k \in 1 .. Len(s) : ~Hard(kind) /\ s[k].srcLevel < my}
<1>0. Len(s) \in Nat /\ DOMAIN s = 1 .. Len(s)
  BY LenProperties DEF Stack
<1>1. PICK m \in 0 .. Len(s) : low = 1 .. m
  <2>1. CASE low = {}
    <3>1. low = 1 .. 0
      BY <2>1
    <3> QED BY <3>1, <1>0
  <2>2. CASE low # {}
    <3>1. low \in SUBSET (1 .. Len(s))
      BY <1>0
    <3>3. PICK m \in low : \A k \in low : m >= k
      BY <3>1, <2>2, <1>0, GreatestExists
    <3>4. ASSUME NEW k \in 1 .. m PROVE k \in low
      <4>1. k \in DOMAIN s /\ m \in DOMAIN s /\ m \in 1 .. Len(s)
        BY <1>0, <3>3
      <4>2. s[k].srcLevel \in Int /\ s[m].srcLevel \in Int
        BY <4>1 DEF Stack
      <4>3. s[k].srcLevel <= s[m].srcLevel
        <5>1. CASE k = m
          BY <5>1, <4>2
        <5>2. CASE k < m
          BY <5>2, <4>1 DEF Ordered
        <5> QED BY <5>1, <5>2, <4>1
      <4> QED BY <4>1, <4>2, <4>3, <3>3, <1>0
    <3>5. low = 1 .. m
      BY <3>1, <3>3, <3>4, <1>0
    <3> QED BY <3>5, <3>3, <1>0
  <2> QED BY <2>1, <2>2
<1>2. Closed(s, my, Hard(kind)) = m + 1 .. Len(s)
  <2>1. ASSUME NEW k \in 1 .. Len(s)
        PROVE  k \in Closed(s, my, Hard(kind)) <=> m < k
    <3>1. \A j \in 1 .. Len(s) : s[j].srcLevel \in Int
      BY <1>0 DEF Stack
    <3>2. CASE Hard(kind)
      <4>1. low = {}
        BY <3>2
      <4>2. m = 0
        BY <4>1, <1>1, <1>0
      <4> QED BY <3>2, <4>2, <1>0 DEF Closed
    <3>3. CASE ~Hard(kind) /\ m < k
      <4>1. ASSUME NEW j \in k .. Len(s) PROVE my <= s[j].srcLevel
        <5>1. j \in 1 .. Len(s) /\ j \notin low
          BY <3>3, <1>1, <1>0
        <5> QED BY <5>1, <3>1, <3>3
      <4> QED BY <4>1, <3>3, <1>0 DEF Closed
    <3>4. CASE ~Hard(kind) /\ k <= m
      <4>1. k \in low /\ k \in k .. Len(s)
        BY <3>4, <1>1, <1>0
      <4> QED BY <4>1, <3>1, <3>4, <1>0 DEF Closed
    <3> QED BY <3>2, <3>3, <3>4, <1>0
  <2>2. Closed(s, my, Hard(kind)) \subseteq 1 .. Len(s)
    BY <1>0 DEF Closed
  <2>3. \A k : k \in m + 1 .. Len(s) <=> k \in 1 .. Len(s) /\ m < k
    BY <1>0
  <2> HIDE DEF low
  <2> QED BY <2>1, <2>2, <2>3
<1>3. Len(s) - Cardinality(Closed(s, my, Hard(kind))) = m
  <2>1. m \in Int /\ m + 1 \in Int /\ Len(s) \in Int /\ m <= Len(s)
    BY <1>0
  <2>2. Cardinality(m + 1 .. Len(s)) = IF m + 1 > Len(s) THEN 0 ELSE Len(s) - (m + 1) + 1
    BY <2>1, FS_Interval
  <2> QED BY <2>1, <2>2, <1>2
<1>4. \A k \in 1 .. m : s[k].srcLevel < my
  BY <1>1
<1>5. Hard(kind) => m = 0
  <2>1. SUFFICES ASSUME Hard(kind) PROVE m = 0
    OBVIOUS
  <2>2. 1 .. m = {}
    BY <2>1, <1>1
  <2> QED BY <2>2, <1>0
<1>6. \A k \in m + 1 .. Len(s) : Hard(kind) \/ my <= s[k].srcLevel
  <2>1. \A j \in 1 .. Len(s) : s[j].srcLevel \in Int
    BY <1>0 DEF Stack
  <2> QED BY <2>1, <1>0, <1>1
<1> QED BY <1>3, <1>4, <1>5, <1>6

\* The rest of a stack that a boundary cut: all of it belongs to outer levels.
LEMMA BoundaryCuts ==
  ASSUME NEW s, Stack(s), Ordered(s), NEW bottom \in Int, Above(s, bottom),
         NEW my \in Int, NEW kind,
         NEW t, t = SubSeq(s, 1, Len(s) - Cardinality(Closed(s, my, Hard(kind))))
  PROVE  /\ Stack(t) /\ Ordered(t) /\ Above(t, bottom) /\ Below(t, my - 1)
         /\ Hard(kind) => t = <<>>
         /\ bottom >= my => t = <<>>
<1>0. Len(s) \in Nat /\ DOMAIN s = 1 .. Len(s)
  BY LenProperties DEF Stack
<1>1. PICK m \in 0 .. Len(s) :
         /\ Len(s) - Cardinality(Closed(s, my, Hard(kind))) = m
         /\ Hard(kind) => m = 0
         /\ \A k \in 1 .. m : s[k].srcLevel < my
         /\ \A k \in m + 1 .. Len(s) : Hard(kind) \/ my <= s[k].srcLevel
  BY ClosedIsSuffix
<1>2. t = SubSeq(s, 1, m) /\ m \in Int /\ m >= 0 /\ m <= Len(s)
  BY <1>0, <1>1
<1>3. \A i \in 1 .. m : s[i] \in Range(s)
  BY <1>0, <1>2 DEF Range
<1>4. /\ t \in Seq(Range(s))
      /\ Len(t) = m
      /\ \A i \in 1 .. m : t[i] = s[i]
  <2>1. /\ SubSeq(s, 1, m) \in Seq(Range(s))
        /\ Len(SubSeq(s, 1, m)) = IF 1 <= m THEN m - 1 + 1 ELSE 0
        /\ \A i \in 1 .. m - 1 + 1 : SubSeq(s, 1, m)[i] = s[1 + i - 1]
    BY <1>2, <1>3, SubSeqProperties
  <2>2. Len(t) = m
    <3>1. Len(t) = IF 1 <= m THEN m - 1 + 1 ELSE 0
      BY <2>1, <1>2, Zenon
    <3>2. (IF 1 <= m THEN m - 1 + 1 ELSE 0) = m
      BY <1>2
    <3> QED BY <3>1, <3>2, Zenon
  <2>3. ASSUME NEW i \in 1 .. m PROVE t[i] = s[i]
    <3>1. i \in 1 .. m - 1 + 1 /\ 1 + i - 1 = i
      BY <1>2
    <3> QED BY <2>1, <3>1, <1>2
  <2> QED BY <2>1, <2>2, <2>3, <1>2
<1>5. t \in Seq(Range(t)) /\ DOMAIN t = 1 .. m
  BY <1>4, SeqOfRange, LenProperties
<1>6. \A i \in 1 .. m : i \in DOMAIN s /\ s[i].srcLevel \in Int
  BY <1>0, <1>2 DEF Stack
<1>7. Stack(t)
  BY <1>4, <1>5, <1>6 DEF Stack
<1>8. Ordered(t)
  BY <1>4, <1>5, <1>6 DEF Ordered
<1>9. Above(t, bottom)
  BY <1>4, <1>5, <1>6 DEF Above
<1>10. Below(t, my - 1)
  <2>1. ASSUME NEW i \in 1 .. m PROVE t[i].srcLevel <= my - 1
    <3>1. s[i].srcLevel < my /\ t[i] = s[i]
      BY <1>1, <1>4, Zenon
    <3>2. s[i].srcLevel \in Int
      BY <1>6
    <3>3. s[i].srcLevel <= my - 1
      BY <3>1, <3>2
    <3> QED BY <3>1, <3>3, Zenon
  <2> QED BY <2>1, <1>5 DEF Below
<1>11. m = 0 => t = <<>>
  BY <1>2, SubSeqEmpty
<1>12. ASSUME bottom >= my PROVE m = 0
  <2>1. SUFFICES ASSUME m # 0 PROVE FALSE
    OBVIOUS
  <2>2. 1 \in 1 .. m /\ 1 \in DOMAIN s
    BY <2>1, <1>0, <1>2
  <2>3. s[1].srcLevel < my /\ bottom <= s[1].srcLevel /\ s[1].srcLevel \in Int
    BY <2>2, <1>1, <1>6 DEF Above
  <2> QED BY <2>3, <1>12
<1> QED BY <1>1, <1>7, <1>8, <1>9, <1>10, <1>11, <1>12

\* A label that is measured from now on, at the level of its boundary or deeper.
LEMMA AppendKeepsStack ==
  ASSUME NEW s, Stack(s), Ordered(s), NEW bottom \in Int, Above(s, bottom),
         NEW e, e.srcLevel \in Int, Below(s, e.srcLevel), bottom <= e.srcLevel
  PROVE  /\ Stack(Append(s, e)) /\ Ordered(Append(s, e))
         /\ Above(Append(s, e), bottom) /\ Below(Append(s, e), e.srcLevel)
<1> DEFINE S == Range(s) \cup {e}
           t == Append(s, e)
<1>0. Len(s) \in Nat /\ DOMAIN s = 1 .. Len(s) /\ s \in Seq(S)
  <2>1. s \in Seq(Range(s)) /\ Range(s) \subseteq S
    BY DEF Stack
  <2>2. s \in Seq(S)
    BY <2>1, SeqMonotonic
  <2> HIDE DEF S
  <2> QED BY <2>1, <2>2, LenProperties
<1>1. /\ t \in Seq(S)
      /\ Len(t) = Len(s) + 1
      /\ \A i \in 1 .. Len(s) : t[i] = s[i]
      /\ t[Len(s) + 1] = e
  <2>1. e \in S
    OBVIOUS
  <2> HIDE DEF S
  <2> QED BY <2>1, <1>0, AppendProperties
<1>2. t \in Seq(Range(t)) /\ DOMAIN t = 1 .. Len(s) + 1
  <2> HIDE DEF S, t
  <2> QED BY <1>1, SeqOfRange, LenProperties
<1> HIDE DEF S, t
<1>3. ASSUME NEW i \in 1 .. Len(s) + 1
      PROVE  /\ t[i].srcLevel \in Int /\ bottom <= t[i].srcLevel
             /\ t[i].srcLevel <= e.srcLevel
             /\ i = Len(s) + 1 => t[i].srcLevel = e.srcLevel
             /\ i # Len(s) + 1 => i \in DOMAIN s /\ t[i].srcLevel = s[i].srcLevel
  <2>1. CASE i = Len(s) + 1
    BY <2>1, <1>1
  <2>2. CASE i # Len(s) + 1
    <3>1. i \in 1 .. Len(s)
      BY <2>2, <1>0
    <3>2. t[i] = s[i] /\ i \in DOMAIN s
      BY <3>1, <1>0, <1>1
    <3> QED BY <2>2, <3>2 DEF Stack, Above, Below
  <2> QED BY <2>1, <2>2
<1>4. Stack(t)
  BY <1>2, <1>3 DEF Stack
<1>5. Ordered(t)
  <2>1. ASSUME NEW i \in 1 .. Len(s) + 1, NEW j \in 1 .. Len(s) + 1, i < j
        PROVE  t[i].srcLevel <= t[j].srcLevel
    <3>1. CASE j = Len(s) + 1
      BY <3>1, <1>3
    <3>2. CASE j # Len(s) + 1
      <4>1. i # Len(s) + 1
        BY <3>2, <2>1, <1>0
      <4> QED BY <4>1, <3>2, <2>1, <1>3 DEF Ordered
    <3> QED BY <3>1, <3>2
  <2> QED BY <2>1, <1>2 DEF Ordered
<1>6. Above(t, bottom) /\ Below(t, e.srcLevel)
  BY <1>2, <1>3 DEF Above, Below
<1> QED BY <1>4, <1>5, <1>6 DEF t

Wrap == "sizeof across wrap-around"
Kinds == {"local", "main", "all", "flow"}

\* The level a boundary closes from.
Depth(kind) == level + (IF kind = "local" THEN 1 ELSE 0)

\* What the items keep: the stack is ordered, between the level the source is at
\* and the outermost one it can close down to.
Tracking ==
  /\ level \in Int /\ blocks \in Seq({"macro", "include"})
  /\ Stack(sizeofStack) /\ Ordered(sizeofStack)
  /\ Above(sizeofStack, level - 2 * Len(blocks)) /\ Below(sizeofStack, level + 1)

LEMMA BoundaryFacts ==
  ASSUME Tracking, NEW table, NEW kind \in Kinds,
         NEW b, b = Boundary(table, sizeofStack, kind)
  PROVE  /\ Stack(b.stack) /\ Ordered(b.stack)
         /\ Above(b.stack, level - 2 * Len(blocks)) /\ Below(b.stack, Depth(kind) - 1)
         /\ Hard(kind) => b.stack = <<>>
         /\ level - 2 * Len(blocks) >= Depth(kind) => b.stack = <<>>
         /\ Wrap \in b.msgs => kind = "flow" /\ sizeofStack # <<>>
<1> DEFINE bottom == level - 2 * Len(blocks)
<1>1. b.stack = SubSeq(sizeofStack, 1,
                  Len(sizeofStack) - Cardinality(Closed(sizeofStack, Depth(kind), Hard(kind))))
  BY DEF Boundary, Depth, Hard
<1>2. Len(blocks) \in Nat /\ level \in Int
  BY LenProperties DEF Tracking
<1>3. Depth(kind) \in Int /\ bottom \in Int
  BY <1>2 DEF Depth
<1>4. Stack(sizeofStack) /\ Ordered(sizeofStack) /\ Above(sizeofStack, bottom)
  BY DEF Tracking
<1>5. Wrap \in b.msgs => kind = "flow" /\ sizeofStack # <<>>
  BY DEF Boundary, Wrap
<1> HIDE DEF bottom
<1>6. /\ Stack(b.stack) /\ Ordered(b.stack)
      /\ Above(b.stack, bottom) /\ Below(b.stack, Depth(kind) - 1)
      /\ Hard(kind) => b.stack = <<>>
      /\ bottom >= Depth(kind) => b.stack = <<>>
  BY <1>1, <1>3, <1>4, BoundaryCuts
<1> QED BY <1>5, <1>6, Zenon DEF bottom

\* Closing leaves room below the level the labels of the boundary have.
LEMMA BelowIsMonotonic ==
  ASSUME NEW s, Stack(s), NEW a \in Int, NEW b \in Int, a <= b, Below(s, a)
  PROVE  Below(s, b)
<1>1. ASSUME NEW k \in DOMAIN s PROVE s[k].srcLevel <= b
  BY DEF Stack, Below
<1> QED BY <1>1 DEF Below

LEMMA AboveIsMonotonic ==
  ASSUME NEW s, Stack(s), NEW a \in Int, NEW b \in Int, b <= a, Above(s, a)
  PROVE  Above(s, b)
<1>1. ASSUME NEW k \in DOMAIN s PROVE b <= s[k].srcLevel
  BY DEF Stack, Above
<1> QED BY <1>1 DEF Above

LEMMA EmptyStack ==
  ASSUME NEW a
  PROVE  Stack(<<>>) /\ Ordered(<<>>) /\ Above(<<>>, a) /\ Below(<<>>, a)
<1>1. <<>> \in Seq(Range(<<>>)) /\ DOMAIN <<>> = {}
  OBVIOUS
<1> QED BY <1>1 DEF Stack, Ordered, Above, Below

\* A boundary at the level the source stays at.
LEMMA SizeBoundaryKeeps ==
  ASSUME Tracking, NEW kind \in Kinds \ {"flow"}, SizeBoundary(kind),
         UNCHANGED <<level, blocks>>
  PROVE  Tracking' /\ (Wrap \in msgs' => Wrap \in msgs)
<1> DEFINE b == Boundary(symbols, sizeofStack, kind)
<1>1. sizeofStack' = b.stack /\ msgs' = msgs \cup b.msgs
  BY DEF SizeBoundary
<1> HIDE DEF b
<1>2. /\ Stack(b.stack) /\ Ordered(b.stack)
      /\ Above(b.stack, level - 2 * Len(blocks)) /\ Below(b.stack, Depth(kind) - 1)
      /\ Wrap \in b.msgs => kind = "flow"
  BY BoundaryFacts DEF b
<1>3. level \in Int /\ blocks \in Seq({"macro", "include"})
  BY DEF Tracking
<1>4. Below(b.stack, level + 1)
  BY <1>2, <1>3, BelowIsMonotonic DEF Depth
<1> QED BY <1>1, <1>2, <1>3, <1>4 DEF Tracking

\* A definition, and the label it starts to measure.
LEMMA DefineAndTrackKeeps ==
  ASSUME Tracking, NEW table, NEW name, NEW local \in BOOLEAN, NEW reported, Wrap \notin reported,
         DefineAndTrack(table, name, local, reported), UNCHANGED <<level, blocks>>
  PROVE  Tracking' /\ (Wrap \in msgs' => Wrap \in msgs)
<1> DEFINE kind == IF local THEN "local" ELSE "main"
           b == Boundary(table, sizeofStack, kind)
           e == b.table[name]
           new == [label |-> name, srcLevel |-> level + (IF e.local THEN 1 ELSE 0)]
<1>0. kind \in Kinds /\ kind \notin {"all", "flow"}
  BY DEF Kinds
<1>1. /\ sizeofStack' = b.stack \/ sizeofStack' = Append(b.stack, new)
      /\ msgs' \subseteq msgs \cup b.msgs \cup reported \cup {"sizeof of this type of label"}
  BY DEF DefineAndTrack
<1> HIDE DEF e
<1>2. new.srcLevel \in {level, level + 1}
  <2>1. new.srcLevel = level + (IF e.local THEN 1 ELSE 0)
    OBVIOUS
  <2>2. level + 0 = level
    BY DEF Tracking
  <2> QED BY <2>1, <2>2, Zenon
<1> HIDE DEF kind, b, new
<1>3. /\ Stack(b.stack) /\ Ordered(b.stack)
      /\ Above(b.stack, level - 2 * Len(blocks)) /\ Below(b.stack, Depth(kind) - 1)
      /\ Wrap \in b.msgs => kind = "flow"
  BY <1>0, BoundaryFacts DEF b
<1>4. level \in Int /\ blocks \in Seq({"macro", "include"}) /\ Len(blocks) \in Nat
  BY LenProperties DEF Tracking
<1>5. Below(b.stack, level)
  BY <1>3, <1>4, BelowIsMonotonic DEF Depth
<1>6. Below(b.stack, level + 1)
  BY <1>3, <1>4, <1>5, BelowIsMonotonic
<1>7. ASSUME sizeofStack' = b.stack PROVE Tracking'
  BY <1>7, <1>3, <1>4, <1>6 DEF Tracking
<1>8. ASSUME sizeofStack' = Append(b.stack, new) PROVE Tracking'
  <2>1. /\ new.srcLevel \in Int /\ level <= new.srcLevel /\ new.srcLevel <= level + 1
        /\ level - 2 * Len(blocks) \in Int /\ level - 2 * Len(blocks) <= new.srcLevel
    BY <1>2, <1>4
  <2>2. Below(b.stack, new.srcLevel)
    BY <1>2, <1>5, <1>6
  <2>3. /\ Stack(sizeofStack') /\ Ordered(sizeofStack')
        /\ Above(sizeofStack', level - 2 * Len(blocks)) /\ Below(sizeofStack', new.srcLevel)
    BY <1>3, <1>8, <2>1, <2>2, AppendKeepsStack
  <2>4. Below(sizeofStack', level + 1)
    BY <2>1, <2>3, <1>4, BelowIsMonotonic
  <2> QED BY <2>3, <2>4, <1>4 DEF Tracking
<1>9. Wrap \in msgs' => Wrap \in msgs
  BY <1>0, <1>1, <1>3 DEF Wrap
<1> QED BY <1>1, <1>7, <1>8, <1>9

\* The place in the program.
Placed == prog \in Seq(Items) /\ pc \in 1 .. Len(prog) + 2

\* The whole invariant of the SIZEOF tracking.
TrackingInv == Placed /\ Tracking /\ NothingLeftTracked

LEMMA NextItemPlace ==
  ASSUME Placed, pc <= Len(prog), NextItem
  PROVE  Placed' /\ pc' # Len(prog') + 2
BY LenProperties DEF Placed, NextItem

\* An item that stays at its level and takes nothing but boundaries to the stack.
LEMMA ItemKeeps ==
  ASSUME TrackingInv, pc <= Len(prog), NextItem,
         Tracking', Wrap \in msgs' => Wrap \in msgs
  PROVE  TrackingInv'
<1>1. Placed' /\ pc' # Len(prog') + 2
  BY NextItemPlace DEF TrackingInv
<1>2. Wrap \notin msgs'
  BY DEF TrackingInv, NothingLeftTracked, Wrap
<1> QED BY <1>1, <1>2 DEF TrackingInv, NothingLeftTracked, Wrap

LEMMA UntouchedKeeps ==
  ASSUME TrackingInv, pc <= Len(prog), NextItem, UNCHANGED <<level, blocks, sizeofStack>>,
         Wrap \in msgs' => Wrap \in msgs
  PROVE  TrackingInv'
<1>1. Tracking'
  BY DEF TrackingInv, Tracking
<1> QED BY <1>1, ItemKeeps

LEMMA BoundaryItemKeeps ==
  ASSUME TrackingInv, pc <= Len(prog), NextItem, UNCHANGED <<level, blocks>>,
         NEW kind \in Kinds \ {"flow"}, SizeBoundary(kind)
  PROVE  TrackingInv'
<1>1. Tracking' /\ (Wrap \in msgs' => Wrap \in msgs)
  BY SizeBoundaryKeeps DEF TrackingInv
<1> QED BY <1>1, ItemKeeps

LEMMA LabelKeepsTracking ==
  ASSUME TrackingInv, Label
  PROVE  TrackingInv'
<1>1. pc <= Len(prog) /\ NextItem /\ UNCHANGED <<level, blocks>>
  BY DEF Label, Live
<1> DEFINE w == CurrentItem.w
           name == ValidateLabel(w, TRUE)
<1>2. \/ UNCHANGED sizeofStack /\ \E m \in {"invalid label", "label not found"} : msgs' = msgs \cup {m}
      \/ \E table : DefineAndTrack(table, name, IsLocal(w),
                      IF pass = 1 THEN {"duplicate label"} ELSE {})
      \/ \E table : DefineAndTrack(table, name, IsLocal(w), {})
      \/ \E table : DefineAndTrack(table, name, IsLocal(w), {"different value in pass 3"})
  BY DEF Label
<1>3. CASE UNCHANGED sizeofStack /\ \E m \in {"invalid label", "label not found"} : msgs' = msgs \cup {m}
  BY <1>1, <1>3, UntouchedKeeps DEF Wrap
<1>4. ASSUME NEW table, NEW reported, Wrap \notin reported,
             DefineAndTrack(table, name, IsLocal(w), reported)
      PROVE  TrackingInv'
  <2>1. IsLocal(w) \in BOOLEAN
    BY DEF IsLocal
  <2>2. Tracking' /\ (Wrap \in msgs' => Wrap \in msgs)
    BY <1>1, <1>4, <2>1, DefineAndTrackKeeps DEF TrackingInv
  <2> QED BY <1>1, <2>2, ItemKeeps
<1> QED BY <1>2, <1>3, <1>4 DEF Wrap

\* The stack a boundary left, under a new level and new blocks.
LEMMA Relevelled ==
  ASSUME TrackingInv, pc <= Len(prog), NextItem,
         level' \in Int, blocks' \in Seq({"macro", "include"}),
         Stack(sizeofStack') /\ Ordered(sizeofStack'),
         Above(sizeofStack', level' - 2 * Len(blocks')), Below(sizeofStack', level' + 1),
         Wrap \in msgs' => Wrap \in msgs
  PROVE  TrackingInv'
<1>1. Tracking'
  BY DEF Tracking
<1> QED BY <1>1, ItemKeeps

LEMMA OpenModuleKeeps == ASSUME TrackingInv, OpenModule PROVE TrackingInv'
<1>1. pc <= Len(prog) /\ NextItem /\ blocks' = blocks /\ level' = level + 2
  BY DEF OpenModule, Live
<1>2. sizeofStack' = <<>> /\ (Wrap \in msgs' => Wrap \in msgs)
  <2>1. "all" \in Kinds /\ Hard("all") /\ SizeBoundary("all") /\ Tracking
    BY DEF Kinds, Hard, OpenModule, TrackingInv
  <2> DEFINE b == Boundary(symbols, sizeofStack, "all")
  <2>2. sizeofStack' = b.stack /\ msgs' = msgs \cup b.msgs
    BY <2>1 DEF SizeBoundary
  <2> HIDE DEF b
  <2>3. b.stack = <<>> /\ Wrap \notin b.msgs
    BY <2>1, BoundaryFacts DEF b
  <2> QED BY <2>2, <2>3
<1>3. level \in Int /\ blocks \in Seq({"macro", "include"})
  BY DEF TrackingInv, Tracking
<1> QED BY <1>1, <1>2, <1>3, EmptyStack, Relevelled

\* Leaving a module or a block: nothing that is left is deeper than the new level.
LEMMA LevelEnds ==
  ASSUME TrackingInv, SizeBoundary("main")
  PROVE  /\ Stack(sizeofStack') /\ Ordered(sizeofStack')
         /\ Above(sizeofStack', level - 2 * Len(blocks)) /\ Below(sizeofStack', level - 1)
         /\ 2 * Len(blocks) <= 0 => sizeofStack' = <<>>
         /\ Wrap \in msgs' => Wrap \in msgs
<1>1. "main" \in Kinds /\ Depth("main") = level /\ Tracking /\ level \in Int
  BY DEF Kinds, Depth, TrackingInv, Tracking
<1> DEFINE b == Boundary(symbols, sizeofStack, "main")
<1>2. sizeofStack' = b.stack /\ msgs' = msgs \cup b.msgs
  BY DEF SizeBoundary
<1> HIDE DEF b
<1>3. /\ Stack(b.stack) /\ Ordered(b.stack)
      /\ Above(b.stack, level - 2 * Len(blocks)) /\ Below(b.stack, level - 1)
      /\ level - 2 * Len(blocks) >= level => b.stack = <<>>
      /\ Wrap \notin b.msgs
  BY <1>1, BoundaryFacts DEF b
<1>4. Len(blocks) \in Nat
  BY LenProperties DEF TrackingInv, Tracking
<1> QED BY <1>1, <1>2, <1>3, <1>4

LEMMA CloseModuleKeeps == ASSUME TrackingInv, CloseModule PROVE TrackingInv'
<1>1. pc <= Len(prog) /\ NextItem
  BY DEF CloseModule, Live
<1>2. CASE modules = <<>>
  <2>0. UNCHANGED scope /\ UNCHANGED sizeofStack /\ msgs' = msgs \cup {"ENDMODULE without MODULE"}
    BY <1>2 DEF CloseModule
  <2>1. UNCHANGED <<level, blocks, sizeofStack>> /\ (Wrap \in msgs' => Wrap \in msgs)
    BY <2>0 DEF scope, Wrap
  <2> QED BY <1>1, <2>1, UntouchedKeeps
<1>3. CASE modules # <<>>
  <2>1. SizeBoundary("main") /\ level' = level - 2 /\ blocks' = blocks
    BY <1>3 DEF CloseModule
  <2>2. level \in Int /\ blocks \in Seq({"macro", "include"}) /\ Len(blocks) \in Nat
    BY LenProperties DEF TrackingInv, Tracking
  <2>3. /\ Stack(sizeofStack') /\ Ordered(sizeofStack')
        /\ Above(sizeofStack', level - 2 * Len(blocks)) /\ Below(sizeofStack', level - 1)
        /\ Wrap \in msgs' => Wrap \in msgs
    BY <2>1, LevelEnds
  <2>4. Above(sizeofStack', level' - 2 * Len(blocks'))
    BY <2>1, <2>2, <2>3, AboveIsMonotonic
  <2>5. level' + 1 = level - 1
    BY <2>1, <2>2
  <2>6. Below(sizeofStack', level' + 1)
    BY <2>3, <2>5
  <2> QED BY <1>1, <2>1, <2>2, <2>3, <2>4, <2>6, Relevelled
<1> QED BY <1>2, <1>3

LEMMA OpenKeeps == ASSUME TrackingInv, Open PROVE TrackingInv'
<1>1. /\ pc <= Len(prog) /\ NextItem
      /\ level' = level + 2 /\ blocks' = Append(blocks, CurrentItem.op)
      /\ CurrentItem.op \in {"macro", "include"} /\ UNCHANGED <<sizeofStack, msgs>>
  BY DEF Open, Live
<1>2. /\ level \in Int /\ blocks \in Seq({"macro", "include"}) /\ Len(blocks) \in Nat
      /\ Stack(sizeofStack) /\ Ordered(sizeofStack)
      /\ Above(sizeofStack, level - 2 * Len(blocks)) /\ Below(sizeofStack, level + 1)
  BY LenProperties DEF TrackingInv, Tracking
<1>3. blocks' \in Seq({"macro", "include"}) /\ Len(blocks') = Len(blocks) + 1
  BY <1>1, <1>2, AppendProperties
<1>4. level' - 2 * Len(blocks') = level - 2 * Len(blocks)
  BY <1>1, <1>2, <1>3
<1>5. Below(sizeofStack, level' + 1)
  BY <1>1, <1>2, BelowIsMonotonic
<1> QED BY <1>1, <1>2, <1>3, <1>4, <1>5, Relevelled

LEMMA CloseKeeps == ASSUME TrackingInv, Close PROVE TrackingInv'
<1>1. /\ pc <= Len(prog) /\ NextItem /\ SizeBoundary("main")
      /\ level' = level - 2 /\ blocks' = SubSeq(blocks, 1, Len(blocks) - 1) /\ blocks # <<>>
  BY DEF Close, Live, Front
<1>2. level \in Int /\ blocks \in Seq({"macro", "include"}) /\ Len(blocks) \in Nat \ {0}
  BY <1>1, EmptySeq, LenProperties DEF TrackingInv, Tracking
<1>3. blocks' \in Seq({"macro", "include"}) /\ Len(blocks') = Len(blocks) - 1
  <2>1. \A i \in 1 .. Len(blocks) - 1 : blocks[i] \in {"macro", "include"}
    BY <1>2, ElementOfSeq
  <2>2. 1 \in Int /\ Len(blocks) - 1 \in Int
    BY <1>2
  <2>3. /\ SubSeq(blocks, 1, Len(blocks) - 1) \in Seq({"macro", "include"})
        /\ Len(SubSeq(blocks, 1, Len(blocks) - 1))
             = IF 1 <= Len(blocks) - 1 THEN Len(blocks) - 1 - 1 + 1 ELSE 0
    BY <2>1, <2>2, SubSeqProperties
  <2>4. (IF 1 <= Len(blocks) - 1 THEN Len(blocks) - 1 - 1 + 1 ELSE 0) = Len(blocks) - 1
    BY <1>2
  <2> QED BY <1>1, <2>3, <2>4, Zenon
<1>4. /\ Stack(sizeofStack') /\ Ordered(sizeofStack')
      /\ Above(sizeofStack', level - 2 * Len(blocks)) /\ Below(sizeofStack', level - 1)
      /\ Wrap \in msgs' => Wrap \in msgs
  BY <1>1, LevelEnds
<1>5. level' - 2 * Len(blocks') = level - 2 * Len(blocks) /\ level' + 1 = level - 1
  BY <1>1, <1>2, <1>3
<1>6. Above(sizeofStack', level' - 2 * Len(blocks')) /\ Below(sizeofStack', level' + 1)
  BY <1>4, <1>5
<1> QED BY <1>1, <1>2, <1>3, <1>4, <1>6, Relevelled

LEMMA StructFailsKeeps == ASSUME TrackingInv, StructFails PROVE TrackingInv'
<1>1. /\ pc' = Len(prog) + 2 /\ prog' = prog /\ sizeofStack' = <<>>
      /\ UNCHANGED <<level, blocks>> /\ msgs' = msgs \cup {"invalid label", "internal error"}
  BY DEF StructFails, scope
<1>2. Placed'
  <2>1. prog \in Seq(Items) /\ Len(prog) \in Nat
    BY LenProperties DEF TrackingInv, Placed
  <2>2. Len(prog) + 2 \in 1 .. Len(prog) + 2
    BY <2>1
  <2> QED BY <1>1, <2>1, <2>2, Zenon DEF Placed
<1>3. Tracking'
  <2>1. level \in Int /\ blocks \in Seq({"macro", "include"})
    BY DEF TrackingInv, Tracking
  <2>2. level' \in Int /\ blocks' \in Seq({"macro", "include"})
    BY <1>1, <2>1
  <2>3. sizeofStack' = <<>>
    BY <1>1
  <2> QED BY <2>2, <2>3, EmptyStack DEF Tracking
<1>4. NothingLeftTracked'
  BY <1>1 DEF TrackingInv, NothingLeftTracked
<1> QED BY <1>2, <1>3, <1>4 DEF TrackingInv

\* No block is open at the end of the file, so its boundary reaches all labels.
LEMMA EndOfFileKeeps == ASSUME TrackingInv, EndOfFile PROVE TrackingInv'
<1>1. /\ pc = Len(prog) + 1 /\ pc' = pc + 1 /\ prog' = prog /\ blocks = <<>> /\ blocks' = blocks
      /\ level' = level - 2 /\ SizeBoundary("main")
  BY DEF EndOfFile
<1>2. level \in Int /\ blocks \in Seq({"macro", "include"})
  BY DEF TrackingInv, Tracking
<1>3. 2 * Len(blocks) <= 0
  BY <1>1
<1>4. sizeofStack' = <<>> /\ (Wrap \in msgs' => Wrap \in msgs)
  BY <1>1, <1>3, LevelEnds
<1>5. Placed'
  BY <1>1, LenProperties DEF TrackingInv, Placed
<1>6. Tracking'
  <2>1. level' \in Int /\ blocks' \in Seq({"macro", "include"})
    BY <1>1, <1>2
  <2> QED BY <2>1, <1>4, EmptyStack DEF Tracking
<1>7. NothingLeftTracked'
  BY <1>4 DEF TrackingInv, NothingLeftTracked, Wrap
<1> QED BY <1>5, <1>6, <1>7 DEF TrackingInv

\* The reset in front of the source file finds nothing to report.
LEMMA SymbolsPassKeeps == ASSUME TrackingInv, SymbolsPass PROVE TrackingInv'
<1>1. /\ pc = Len(prog) + 2 /\ pc' = 1 /\ prog' = prog
      /\ blocks' = <<>> /\ level' = 0 /\ SizeBoundary("flow")
  BY DEF SymbolsPass
<1>2. sizeofStack = <<>> /\ Wrap \notin msgs
  BY <1>1 DEF TrackingInv, NothingLeftTracked, Wrap
<1>3. sizeofStack' = <<>> /\ Wrap \notin msgs'
  <2>1. "flow" \in Kinds /\ Hard("flow") /\ Tracking
    BY DEF Kinds, Hard, TrackingInv
  <2> DEFINE b == Boundary(symbols, sizeofStack, "flow")
  <2>2. sizeofStack' = b.stack /\ msgs' = msgs \cup b.msgs
    BY <1>1 DEF SizeBoundary
  <2> HIDE DEF b
  <2>3. b.stack = <<>> /\ Wrap \notin b.msgs
    BY <1>2, <2>1, BoundaryFacts DEF b
  <2> QED BY <1>2, <2>2, <2>3
<1>4. Placed' /\ pc' # Len(prog') + 2
  BY <1>1, LenProperties DEF TrackingInv, Placed
<1>5. Tracking'
  BY <1>1, <1>3, EmptyStack DEF Tracking
<1>6. NothingLeftTracked'
  BY <1>3, <1>4 DEF NothingLeftTracked, Wrap
<1> QED BY <1>4, <1>5, <1>6 DEF TrackingInv

\* SizeBoundary (tables.cpp) walks its stack from the top and stops at the first
\* label of an outer level; main() resets the state before each pass and says
\* that this "should NEVER report anything".  Whatever modules, macros and
\* includes a program opens and closes, in any order: the stack is ordered by
\* level, within the levels of the source, and empty when the pass has ended.
THEOREM SymbolsSizeofInv == SymbolsSpec => []SizeofInv
<1>1. ASSUME SymbolsInit PROVE TrackingInv
  <2>1. prog \in Seq(Items)
    BY <1>1, ProgramsAssumption DEF SymbolsInit
  <2>2. Len(prog) \in Nat
    BY <2>1, LenProperties
  <2>3. Placed /\ pc # Len(prog) + 2
    BY <1>1, <2>1, <2>2 DEF SymbolsInit, Placed
  <2>4. sizeofStack = <<>> /\ msgs = {} /\ level = 0 /\ blocks = <<>>
    BY <1>1 DEF SymbolsInit
  <2>5. Tracking
    BY <2>4, EmptyStack DEF Tracking
  <2> QED BY <2>3, <2>4, <2>5 DEF TrackingInv, NothingLeftTracked
<1>2. ASSUME TrackingInv, [SymbolsNext]_symbolVars PROVE TrackingInv'
  <2>1. CASE SkipItem
    BY <2>1, <1>2, UntouchedKeeps DEF SkipItem, scope
  <2>2. CASE EmitBytes
    BY <2>2, <1>2, UntouchedKeeps DEF EmitBytes, Live, scope
  <2>3. CASE dirORG
    <3>1. pc <= Len(prog) /\ NextItem /\ UNCHANGED <<level, blocks>>
      BY <2>3 DEF dirORG, Live, scope
    <3>2. "all" \in Kinds \ {"flow"}
      BY DEF Kinds
    <3>3. CASE displaced
      BY <2>3, <3>1, <3>3, <1>2, UntouchedKeeps DEF dirORG
    <3>4. CASE ~displaced
      BY <2>3, <3>1, <3>2, <3>4, <1>2, BoundaryItemKeeps DEF dirORG
    <3> QED BY <3>3, <3>4
  <2>4. CASE dirDISP
    BY <2>4, <1>2, UntouchedKeeps DEF dirDISP, Live, scope
  <2>5. CASE dirENT
    BY <2>5, <1>2, UntouchedKeeps DEF dirENT, Live, scope
  <2>6. CASE Label
    BY <2>6, <1>2, LabelKeepsTracking
  <2>7. CASE Read
    <3>1. pc <= Len(prog) /\ NextItem /\ UNCHANGED scope /\ UNCHANGED sizeofStack
      BY <2>7 DEF Read, Live
    <3>2. msgs' \subseteq msgs \cup {"invalid label", "label not found"}
      <4>1. CASE ~ValidName(CurrentItem.w, FALSE)
        <5>1. msgs' = msgs \cup {"invalid label"}
          BY <2>7, <4>1, Zenon DEF Read
        <5> QED BY <5>1
      <4>2. CASE ValidName(CurrentItem.w, FALSE)
        <5>1. msgs' = msgs \cup (IF Found(CurrentItem.w) THEN {} ELSE {"label not found"})
          BY <2>7, <4>2, Zenon DEF Read
        <5>2. CASE Found(CurrentItem.w)
          BY <5>1, <5>2
        <5>3. CASE ~Found(CurrentItem.w)
          BY <5>1, <5>3
        <5> QED BY <5>2, <5>3
      <4> QED BY <4>1, <4>2
    <3>3. Wrap \in msgs' => Wrap \in msgs
      BY <3>2 DEF Wrap
    <3> QED BY <3>1, <3>3, <1>2, UntouchedKeeps DEF scope
  <2>8. CASE Tag
    <3>1. /\ pc <= Len(prog) /\ NextItem /\ UNCHANGED scope
          /\ SizeBoundary(IF CurrentItem.op = "tag" THEN "main" ELSE "local")
      BY <2>8 DEF Tag, Live
    <3>2. (IF CurrentItem.op = "tag" THEN "main" ELSE "local") \in Kinds \ {"flow"}
      BY DEF Kinds
    <3> QED BY <3>1, <3>2, <1>2, BoundaryItemKeeps DEF scope
  <2>9. CASE OpenModule
    BY <2>9, <1>2, OpenModuleKeeps
  <2>10. CASE CloseModule
    BY <2>10, <1>2, CloseModuleKeeps
  <2>11. CASE Open
    BY <2>11, <1>2, OpenKeeps
  <2>12. CASE Close
    BY <2>12, <1>2, CloseKeeps
  <2>13. CASE EmitStruct
    <3>1. pc <= Len(prog) /\ NextItem /\ UNCHANGED <<level, blocks, sizeofStack>>
      BY <2>13 DEF EmitStruct, Live
    <3>2. msgs' \subseteq msgs \cup {"invalid label", "duplicate label", "different value in pass 2"}
      BY <2>13 DEF EmitStruct
    <3>3. Wrap \in msgs' => Wrap \in msgs
      BY <3>2 DEF Wrap
    <3> QED BY <3>1, <3>3, <1>2, UntouchedKeeps
  <2>14. CASE StructFails
    BY <2>14, <1>2, StructFailsKeeps
  <2>15. CASE Temp
    <3>1. /\ pc <= Len(prog) /\ NextItem /\ UNCHANGED scope /\ UNCHANGED sizeofStack
          /\ Wrap \in msgs' => Wrap \in msgs
      BY <2>15 DEF Temp, Live, Wrap
    <3> QED BY <3>1, <1>2, UntouchedKeeps DEF scope
  <2>16. CASE GetTemporaryLabelValue
    <3>1. /\ pc <= Len(prog) /\ NextItem /\ UNCHANGED scope /\ UNCHANGED sizeofStack
          /\ Wrap \in msgs' => Wrap \in msgs
      BY <2>16 DEF GetTemporaryLabelValue, Live, Wrap
    <3> QED BY <3>1, <1>2, UntouchedKeeps DEF scope
  <2>17. CASE EndOfFile
    BY <2>17, <1>2, EndOfFileKeeps
  <2>18. CASE SymbolsPass
    BY <2>18, <1>2, SymbolsPassKeeps
  <2>19. CASE UNCHANGED symbolVars
    <3>1. UNCHANGED <<prog, pc, level, blocks, sizeofStack, msgs>>
      BY <2>19 DEF symbolVars, scope
    <3> QED BY <3>1, <1>2 DEF TrackingInv, Placed, Tracking, NothingLeftTracked
  <2> QED BY <1>2, <2>1, <2>2, <2>3, <2>4, <2>5, <2>6, <2>7, <2>8, <2>9, <2>10, <2>11, <2>12,
             <2>13, <2>14, <2>15, <2>16, <2>17, <2>18, <2>19 DEF SymbolsNext, AllPassesDone
<1>3. ASSUME TrackingInv PROVE SizeofInv
  <2>1. StackOrdered
    BY <1>3 DEF TrackingInv, Tracking, Ordered, StackOrdered
  <2>2. LevelsBound
    <3>1. level \in Int /\ Len(blocks) \in Nat
      BY <1>3, LenProperties DEF TrackingInv, Tracking
    <3>2. ASSUME NEW k \in DOMAIN sizeofStack
          PROVE  sizeofStack[k].srcLevel \in level - 2 * Len(blocks) .. level + 1
      <4>1. /\ sizeofStack[k].srcLevel \in Int
            /\ level - 2 * Len(blocks) <= sizeofStack[k].srcLevel
            /\ sizeofStack[k].srcLevel <= level + 1
        BY <1>3 DEF TrackingInv, Tracking, Stack, Above, Below
      <4> QED BY <3>1, <4>1
    <3> QED BY <3>2 DEF LevelsBound
  <2> QED BY <1>3, <2>1, <2>2 DEF TrackingInv, SizeofInv
<1> QED BY <1>1, <1>2, <1>3, PTL DEF SymbolsSpec

-----------------------------------------------------------------------------
(* Temporary labels.                                                       *)

TempLabels == [nummer : Int, value : Int]
IsTemp(item) == item.op = "temp" /\ LASTPASS \in item.in
Refers(item) == item.op \in {"back", "forward"}

\* The definitions of the last pass in front of an item of a program.
Temps(p, i) == {j \in 1 .. i - 1 : IsTemp(p[j])}
Count(p, i) == Cardinality(Temps(p, i))

\* The value a reference found in a list, nearest to the end or to the begin of
\* a range of it.
NearestBack(list, c, n, val) ==
  \E k \in 1 .. c : /\ list[k].nummer = n /\ val = list[k].value
                    /\ \A j \in 1 .. c : list[j].nummer = n => j <= k
NearestForward(list, c, n, val) ==
  \E k \in c + 1 .. Len(list) : /\ list[k].nummer = n /\ val = list[k].value
                                /\ \A j \in c + 1 .. Len(list) : list[j].nummer = n => k <= j

TempTypes ==
  /\ Placed /\ pass \in 1 .. LASTPASS /\ adr \in Int /\ phys \in Int
  /\ labels \in Seq(TempLabels) /\ nextPassLabels \in Seq(TempLabels)

\* The last pass, as long as it says nothing about temporary labels.
Quiet == pass = LASTPASS /\ msgs \cap TempMessages = {}

SameAsBefore ==
  /\ Len(nextPassLabels) <= Len(labels)
  /\ \A k \in 1 .. Len(nextPassLabels) : /\ nextPassLabels[k].nummer = labels[k].nummer
                                         /\ nextPassLabels[k].value = labels[k].value
Counted == pc <= Len(prog) + 1 => Len(nextPassLabels) = Count(prog, pc)
ReadWell(r) ==
  /\ r.at \in 1 .. Len(prog)
  /\ Refers(prog[r.at]) =>
       /\ Count(prog, r.at) <= Len(nextPassLabels)
       /\ prog[r.at].op = "back" =>
            NearestBack(nextPassLabels, Count(prog, r.at), prog[r.at].n, r.val)
       /\ prog[r.at].op = "forward" =>
            NearestForward(labels, Count(prog, r.at), prog[r.at].n, r.val)

\* The invariant of the references to temporary labels.
TempInv == TempTypes /\ (Quiet => SameAsBefore /\ Counted /\ \A r \in reads : ReadWell(r))

LEMMA CountStep ==
  ASSUME NEW p, NEW i \in Nat \ {0}
  PROVE  /\ Count(p, i) \in Nat
         /\ IsTemp(p[i]) => Count(p, i + 1) = Count(p, i) + 1
         /\ ~IsTemp(p[i]) => Count(p, i + 1) = Count(p, i)
<1>1. IsFiniteSet(Temps(p, i))
  <2>1. IsFiniteSet(1 .. i - 1) /\ Temps(p, i) \in SUBSET (1 .. i - 1)
    BY FS_Interval DEF Temps
  <2> QED BY <2>1, FS_Subset
<1>2. Count(p, i) \in Nat
  BY <1>1, FS_CardinalityType DEF Count
<1>3. ASSUME NEW j PROVE j \in 1 .. (i + 1) - 1 <=> j \in 1 .. i - 1 \/ j = i
  OBVIOUS
<1>4. i \notin Temps(p, i)
  BY DEF Temps
<1>5. ASSUME IsTemp(p[i]) PROVE Count(p, i + 1) = Count(p, i) + 1
  <2>1. Temps(p, i + 1) = Temps(p, i) \cup {i}
    BY <1>3, <1>5 DEF Temps
  <2> QED BY <1>1, <1>4, <2>1, FS_AddElement DEF Count
<1>6. ASSUME ~IsTemp(p[i]) PROVE Count(p, i + 1) = Count(p, i)
  <2>1. Temps(p, i + 1) = Temps(p, i)
    BY <1>3, <1>6 DEF Temps
  <2> QED BY <2>1 DEF Count
<1> QED BY <1>2, <1>5, <1>6

\* A list that grows keeps what was found in its beginning.
LEMMA NearestBackKept ==
  ASSUME NEW list \in Seq(TempLabels), NEW e \in TempLabels,
         NEW c \in 0 .. Len(list), NEW n, NEW val, NearestBack(list, c, n, val)
  PROVE  NearestBack(Append(list, e), c, n, val)
<1>1. Len(list) \in Nat
  BY LenProperties
<1>2. \A k \in 1 .. c : Append(list, e)[k] = list[k]
  BY <1>1, AppendProperties
<1> HIDE DEF TempLabels
<1> QED BY <1>2 DEF NearestBack

\* An item that is no temporary label and refers to none.
LEMMA OtherItemKeeps ==
  ASSUME TempInv, TempTypes', pc <= Len(prog), NextItem, ~IsTemp(prog[pc]), UNCHANGED temps,
         msgs \subseteq msgs',
         \A r \in reads' : r \in reads \/ (r.at = pc /\ ~Refers(prog[pc]))
  PROVE  TempInv'
<1>1. /\ pc' = pc + 1 /\ prog' = prog /\ pass' = pass
      /\ labels' = labels /\ nextPassLabels' = nextPassLabels
  BY DEF NextItem, temps
<1>2. prog \in Seq(Items) /\ Len(prog) \in Nat /\ pc \in Nat \ {0} /\ pc \in 1 .. Len(prog)
  BY LenProperties DEF TempInv, TempTypes, Placed
<1>3. ASSUME Quiet' PROVE (SameAsBefore /\ Counted /\ \A r \in reads : ReadWell(r))'
  <2>1. Quiet
    BY <1>1, <1>3 DEF Quiet
  <2>2. SameAsBefore /\ Counted /\ \A r \in reads : ReadWell(r)
    BY <2>1 DEF TempInv
  <2>3. SameAsBefore'
    BY <1>1, <2>2 DEF SameAsBefore
  <2>4. Counted'
    <3>1. Len(nextPassLabels) = Count(prog, pc)
      BY <1>2, <2>2 DEF Counted
    <3>2. Count(prog, pc + 1) = Count(prog, pc)
      BY <1>2, CountStep
    <3> QED BY <1>1, <3>1, <3>2 DEF Counted
  <2>5. ASSUME NEW r \in reads' PROVE ReadWell(r)'
    <3>1. CASE r \in reads
      BY <1>1, <2>2, <3>1 DEF ReadWell
    <3>2. CASE r.at = pc /\ ~Refers(prog[pc])
      BY <1>1, <1>2, <3>2 DEF ReadWell
    <3> QED BY <3>1, <3>2
  <2> QED BY <2>3, <2>4, <2>5
<1> QED BY <1>3 DEF TempInv

LEMMA ItemIsTyped ==
  ASSUME Placed, pc <= Len(prog)
  PROVE  CurrentItem.n \in Int /\ pc \in 1 .. Len(prog) /\ prog[pc] = CurrentItem
<1>1. pc \in 1 .. Len(prog)
  BY LenProperties DEF Placed
<1>2. CurrentItem \in Items
  BY <1>1, ElementOfSeq DEF Placed, CurrentItem
<1>3. CurrentItem.n \in Int
  BY <1>2 DEF Items
<1> QED BY <1>1, <1>3 DEF CurrentItem

\* An item leaves the types alone.
LEMMA ItemKeepsTypes ==
  ASSUME TempTypes, pc <= Len(prog), NextItem, adr' \in Int, phys' \in Int, UNCHANGED temps
  PROVE  TempTypes'
<1>1. Placed'
  BY NextItemPlace DEF TempTypes
<1> QED BY <1>1 DEF TempTypes, NextItem, temps

\* InsertRefresh: what the last pass adds silently is the next label of the old list.
LEMMA TempKeeps == ASSUME TempInv, Temp PROVE TempInv'
<1> DEFINE e == [nummer |-> CurrentItem.n, value |-> adr]
           k == Len(nextPassLabels) + 1
           same == k <= Len(labels) /\ labels[k].nummer = CurrentItem.n
<1>1. /\ pc <= Len(prog) /\ NextItem /\ CurrentItem.op = "temp" /\ pass \in CurrentItem.in
      /\ nextPassLabels' = Append(nextPassLabels, e) /\ labels' = labels
      /\ adr' = adr /\ phys' = phys /\ reads' = reads
  BY DEF Temp, Live, place
<1>2. /\ TempTypes /\ Placed /\ pass \in 1 .. LASTPASS /\ adr \in Int /\ phys \in Int
      /\ labels \in Seq(TempLabels) /\ nextPassLabels \in Seq(TempLabels)
      /\ Len(labels) \in Nat /\ Len(nextPassLabels) \in Nat
  BY LenProperties DEF TempInv, TempTypes
<1>3. CurrentItem.n \in Int /\ pc \in 1 .. Len(prog) /\ prog[pc] = CurrentItem
  BY <1>1, <1>2, ItemIsTyped
<1>4. e \in TempLabels
  BY <1>2, <1>3 DEF TempLabels
<1>5. /\ nextPassLabels' \in Seq(TempLabels) /\ Len(nextPassLabels') = k
      /\ \A j \in 1 .. Len(nextPassLabels) : nextPassLabels'[j] = nextPassLabels[j]
      /\ nextPassLabels'[k] = e
  <2> HIDE DEF e, TempLabels
  <2> QED BY <1>1, <1>2, <1>4, AppendProperties
<1>6. Placed' /\ pc' = pc + 1 /\ prog' = prog /\ pass' = pass
  BY <1>1, <1>2, NextItemPlace DEF NextItem
<1>7. TempTypes'
  BY <1>1, <1>2, <1>5, <1>6 DEF TempTypes
<1>8. /\ pass = LASTPASS /\ ~same => "temporary labels flow differs" \in msgs'
      /\ pass = LASTPASS /\ same /\ labels[k].value # adr
           => "temporary label has different address" \in msgs'
      /\ msgs \subseteq msgs'
  BY DEF Temp
<1>9. ASSUME Quiet' PROVE (SameAsBefore /\ Counted /\ \A r \in reads : ReadWell(r))'
  <2>1. Quiet /\ same /\ labels[k].value = adr
    BY <1>6, <1>8, <1>9 DEF Quiet, TempMessages
  <2>2. SameAsBefore /\ Counted /\ \A r \in reads : ReadWell(r)
    BY <2>1 DEF TempInv
  <2>3. SameAsBefore'
    <3>1. e.nummer = labels[k].nummer /\ e.value = labels[k].value /\ k <= Len(labels)
      BY <2>1
    <3> HIDE DEF e
    <3>2. ASSUME NEW j \in 1 .. k
          PROVE  nextPassLabels'[j].nummer = labels[j].nummer /\ nextPassLabels'[j].value = labels[j].value
      <4>1. CASE j = k
        BY <4>1, <3>1, <1>5
      <4>2. CASE j # k
        <5>1. j \in 1 .. Len(nextPassLabels)
          BY <4>2, <1>2
        <5> QED BY <5>1, <1>5, <2>2 DEF SameAsBefore
      <4> QED BY <4>1, <4>2
    <3> HIDE DEF k
    <3> QED BY <3>1, <3>2, <1>1, <1>5 DEF SameAsBefore
  <2>4. Counted'
    <3>1. IsTemp(prog[pc])
      BY <1>1, <1>3, <1>6, <1>9 DEF IsTemp, Quiet
    <3>2. pc <= Len(prog) + 1 /\ pc \in Nat \ {0}
      BY <1>3, <1>2, LenProperties DEF Placed
    <3>3. Len(nextPassLabels) = Count(prog, pc) /\ Count(prog, pc + 1) = Count(prog, pc) + 1
      BY <3>1, <3>2, <2>2, CountStep DEF Counted
    <3> QED BY <3>3, <1>5, <1>6 DEF Counted
  <2>5. ASSUME NEW r \in reads PROVE ReadWell(r)'
    <3>1. ReadWell(r) /\ r.at \in Nat \ {0}
      BY <2>2, <1>2, LenProperties DEF ReadWell, Placed
    <3>2. ASSUME Refers(prog[r.at])
          PROVE  /\ Count(prog, r.at) <= Len(nextPassLabels')
                 /\ prog[r.at].op = "back" =>
                      NearestBack(nextPassLabels', Count(prog, r.at), prog[r.at].n, r.val)
                 /\ prog[r.at].op = "forward" =>
                      NearestForward(labels', Count(prog, r.at), prog[r.at].n, r.val)
      <4>1. Count(prog, r.at) \in Nat /\ Count(prog, r.at) <= Len(nextPassLabels)
        BY <3>1, <3>2, CountStep DEF ReadWell
      <4>2. Count(prog, r.at) \in 0 .. Len(nextPassLabels)
        BY <4>1, <1>2
      <4>3. Count(prog, r.at) <= Len(nextPassLabels')
        BY <4>1, <1>2, <1>5
      <4>4. prog[r.at].op = "back" =>
              NearestBack(Append(nextPassLabels, e), Count(prog, r.at), prog[r.at].n, r.val)
        <5> HIDE DEF e
        <5> QED BY <3>1, <3>2, <4>2, <1>2, <1>4, NearestBackKept DEF ReadWell
      <4> QED BY <3>1, <3>2, <4>3, <4>4, <1>1 DEF ReadWell
    <3> QED BY <3>1, <3>2, <1>6 DEF ReadWell
  <2> QED BY <2>3, <2>4, <2>5, <1>1
<1> QED BY <1>7, <1>9 DEF TempInv

\* GetTemporaryLabelValue: a silent search finds the nearest label of its list.
LEMMA GetTemporaryKeeps == ASSUME TempInv, GetTemporaryLabelValue PROVE TempInv'
<1>1. /\ pc <= Len(prog) /\ NextItem /\ CurrentItem.op \in {"back", "forward"} /\ UNCHANGED temps
      /\ adr' = adr /\ phys' = phys
  BY DEF GetTemporaryLabelValue, Live, place
<1>2. /\ TempTypes /\ Placed /\ adr \in Int /\ phys \in Int
      /\ labels \in Seq(TempLabels) /\ nextPassLabels \in Seq(TempLabels)
      /\ Len(labels) \in Nat /\ Len(nextPassLabels) \in Nat
      /\ DOMAIN nextPassLabels = 1 .. Len(nextPassLabels)
  BY LenProperties DEF TempInv, TempTypes
<1>3. CurrentItem.n \in Int /\ pc \in 1 .. Len(prog) /\ prog[pc] = CurrentItem
  BY <1>1, <1>2, ItemIsTyped
<1>4. TempTypes'
  BY <1>1, <1>2, ItemKeepsTypes
<1>5. /\ pc' = pc + 1 /\ prog' = prog /\ pass' = pass
      /\ labels' = labels /\ nextPassLabels' = nextPassLabels
  BY <1>1 DEF NextItem, temps
<1> DEFINE n == CurrentItem.n
           ks == IF CurrentItem.op = "back" THEN SeekBack(n) ELSE SeekForward(n)
           val == IF ks = {} THEN 0
                  ELSE IF CurrentItem.op = "back"
                    THEN nextPassLabels[CHOOSE k \in ks : \A j \in ks : j <= k].value
                  ELSE labels[CHOOSE k \in ks : \A j \in ks : k <= j].value
<1>6. /\ \A r \in reads' : r \in reads \/ (r.at = pc /\ r.val = val)
      /\ msgs \subseteq msgs'
      /\ ks = {} /\ pass = LASTPASS => "temporary label not found" \in msgs'
  <2>1. PICK f : reads' = reads \cup {[at |-> pc, val |-> val, found |-> f]}
    BY DEF GetTemporaryLabelValue
  <2>2. /\ msgs \subseteq msgs'
        /\ ks = {} /\ pass = LASTPASS => "temporary label not found" \in msgs'
    BY DEF GetTemporaryLabelValue
  <2> HIDE DEF val
  <2>3. ASSUME NEW r \in reads', r \notin reads PROVE r.at = pc /\ r.val = val
    <3>1. r = [at |-> pc, val |-> val, found |-> f]
      BY <2>1, <2>3
    <3> QED BY <3>1
  <2> QED BY <2>2, <2>3
<1>7. ASSUME Quiet' PROVE (SameAsBefore /\ Counted /\ \A r \in reads : ReadWell(r))'
  <2>1. Quiet /\ ks # {}
    BY <1>5, <1>6, <1>7 DEF Quiet, TempMessages
  <2>2. SameAsBefore /\ Counted /\ \A r \in reads : ReadWell(r)
    BY <2>1 DEF TempInv
  <2>3. SameAsBefore'
    BY <1>5, <2>2 DEF SameAsBefore
  <2>4. ~IsTemp(prog[pc]) /\ Refers(prog[pc])
    BY <1>1, <1>3 DEF IsTemp, Refers
  <2>5. pc \in Nat \ {0} /\ pc <= Len(prog) + 1
    BY <1>3, <1>2, LenProperties DEF Placed
  <2>6. Len(nextPassLabels) = Count(prog, pc) /\ Count(prog, pc + 1) = Count(prog, pc)
    BY <2>2, <2>4, <2>5, CountStep DEF Counted
  <2>7. Counted'
    BY <2>6, <1>5 DEF Counted
  <2>8. CASE CurrentItem.op = "back"
    <3>1. ks = {k \in 1 .. Len(nextPassLabels) : nextPassLabels[k].nummer = n}
      BY <2>8, <1>2 DEF SeekBack
    <3>2. ks \in SUBSET (1 .. Len(nextPassLabels))
      BY <3>1
    <3>3. \E k \in ks : \A j \in ks : k >= j
      <4> HIDE DEF ks
      <4> QED BY <2>1, <3>2, <1>2, GreatestExists
    <3>4. \E k \in ks : \A j \in ks : j <= k
      <4> HIDE DEF ks
      <4> QED BY <3>2, <3>3, <1>2
    <3> DEFINE m == CHOOSE k \in ks : \A j \in ks : j <= k
    <3>5. m \in ks /\ \A j \in ks : j <= m
      <4> HIDE DEF ks
      <4> QED BY <3>4
    <3>6. val = nextPassLabels[m].value
      BY <2>1, <2>8
    <3> HIDE DEF ks, m, val
    <3>7. NearestBack(nextPassLabels, Len(nextPassLabels), n, val)
      BY <3>1, <3>5, <3>6 DEF NearestBack
    <3>8. ASSUME NEW r \in reads' PROVE ReadWell(r)'
      <4>1. CASE r \in reads
        BY <1>5, <2>2, <4>1 DEF ReadWell
      <4>2. CASE r.at = pc /\ r.val = val
        <5>1. r.at \in 1 .. Len(prog) /\ prog[r.at].op = "back" /\ prog[r.at].n = n
          BY <1>3, <2>8, <4>2
        <5>2. Count(prog, r.at) = Len(nextPassLabels) /\ Len(nextPassLabels) \in Nat
          BY <2>6, <1>2, <4>2
        <5>3. NearestBack(nextPassLabels, Count(prog, r.at), prog[r.at].n, r.val)
          BY <5>1, <5>2, <4>2, <3>7
        <5> HIDE DEF n
        <5> QED BY <5>1, <5>2, <5>3, <1>5 DEF ReadWell
      <4> QED BY <4>1, <4>2, <1>6
    <3> QED BY <2>3, <2>7, <3>8
  <2>9. CASE CurrentItem.op = "forward"
    <3>1. ks = {k \in Len(nextPassLabels) + 1 .. Len(labels) : labels[k].nummer = n}
      BY <2>9 DEF SeekForward
    <3>2. ks \in SUBSET Nat
      BY <3>1, <1>2
    <3>3. \E k \in ks : \A j \in ks : k <= j
      <4> HIDE DEF ks
      <4> QED BY <2>1, <3>2, LeastExists
    <3> DEFINE m == CHOOSE k \in ks : \A j \in ks : k <= j
    <3>4. m \in ks /\ \A j \in ks : m <= j
      <4> HIDE DEF ks
      <4> QED BY <3>3
    <3>5. val = labels[m].value
      BY <2>1, <2>9
    <3> HIDE DEF ks, m, val
    <3>6. NearestForward(labels, Len(nextPassLabels), n, val)
      BY <3>1, <3>4, <3>5 DEF NearestForward
    <3>7. ASSUME NEW r \in reads' PROVE ReadWell(r)'
      <4>1. CASE r \in reads
        BY <1>5, <2>2, <4>1 DEF ReadWell
      <4>2. CASE r.at = pc /\ r.val = val
        <5>1. r.at \in 1 .. Len(prog) /\ prog[r.at].op = "forward" /\ prog[r.at].n = n
          BY <1>3, <2>9, <4>2
        <5>2. Count(prog, r.at) = Len(nextPassLabels) /\ Len(nextPassLabels) \in Nat
          BY <2>6, <1>2, <4>2
        <5>3. NearestForward(labels, Count(prog, r.at), prog[r.at].n, r.val)
          BY <5>1, <5>2, <4>2, <3>6
        <5> HIDE DEF n
        <5> QED BY <5>1, <5>2, <5>3, <1>5 DEF ReadWell
      <4> QED BY <4>1, <4>2, <1>6
    <3> QED BY <2>3, <2>7, <3>7
  <2> QED BY <1>1, <2>8, <2>9
<1> QED BY <1>4, <1>7 DEF TempInv

\* The items whose addresses are not touched, or change by their number.
LEMMA PlainItemKeeps ==
  ASSUME TempInv, pc <= Len(prog), NextItem, CurrentItem.op # "temp", UNCHANGED temps,
         msgs \subseteq msgs', adr' \in Int, phys' \in Int,
         \A r \in reads' : r \in reads \/ (r.at = pc /\ ~Refers(CurrentItem))
  PROVE  TempInv'
<1>1. TempTypes /\ Placed
  BY DEF TempInv, TempTypes
<1>2. prog[pc] = CurrentItem
  BY DEF CurrentItem
<1>3. ~IsTemp(prog[pc])
  BY <1>2 DEF IsTemp
<1>4. TempTypes'
  BY <1>1, ItemKeepsTypes
<1> QED BY <1>2, <1>3, <1>4, OtherItemKeeps

\* A boundary only adds messages.
LEMMA BoundaryAdds ==
  ASSUME NEW kind, SizeBoundary(kind)
  PROVE  msgs \subseteq msgs'
BY DEF SizeBoundary

\* The end of the source, or of the assembly.
LEMMA EndKeeps ==
  ASSUME TempInv, pc' = Len(prog) + 2, prog' = prog, pass' = pass, UNCHANGED temps,
         adr' = adr, phys' = phys, reads' = reads, msgs \subseteq msgs'
  PROVE  TempInv'
<1>1. /\ prog \in Seq(Items) /\ Len(prog) \in Nat
      /\ labels' = labels /\ nextPassLabels' = nextPassLabels
  BY LenProperties DEF TempInv, TempTypes, Placed, temps
<1>2. Placed'
  BY <1>1 DEF Placed
<1>3. TempTypes'
  BY <1>1, <1>2 DEF TempInv, TempTypes
<1>4. Quiet' => Quiet
  BY DEF Quiet
<1>5. ASSUME Quiet PROVE SameAsBefore' /\ Counted' /\ \A r \in reads : ReadWell(r)'
  <2>1. SameAsBefore /\ \A r \in reads : ReadWell(r)
    BY <1>5 DEF TempInv
  <2>2. ~(Len(prog) + 2 <= Len(prog) + 1)
    BY <1>1
  <2> QED BY <1>1, <2>1, <2>2 DEF SameAsBefore, Counted, ReadWell
<1> QED BY <1>3, <1>4, <1>5 DEF TempInv

\* A new pass starts with an empty list.
LEMMA PassKeepsTemps == ASSUME TempInv, SymbolsPass PROVE TempInv'
<1>1. /\ pass' = pass + 1 /\ pc' = 1 /\ prog' = prog /\ adr' = 0 /\ phys' = 0
      /\ labels' = nextPassLabels /\ nextPassLabels' = <<>> /\ reads' = {} /\ pass < LASTPASS
  BY DEF SymbolsPass
<1>2. /\ prog \in Seq(Items) /\ Len(prog) \in Nat /\ nextPassLabels \in Seq(TempLabels)
      /\ Len(nextPassLabels) \in Nat /\ pass \in 1 .. LASTPASS
  BY LenProperties DEF TempInv, TempTypes, Placed
<1>3. TempTypes'
  <2>1. Placed'
    BY <1>1, <1>2 DEF Placed
  <2>2. pass' \in 1 .. LASTPASS
    BY <1>1, <1>2, ProgramsAssumption
  <2>3. <<>> \in Seq(TempLabels)
    BY EmptySeq
  <2> QED BY <1>1, <1>2, <2>1, <2>2, <2>3 DEF TempTypes
<1>4. SameAsBefore'
  BY <1>1, <1>2 DEF SameAsBefore
<1>5. Count(prog, 1) = 0
  <2>1. Temps(prog, 1) = {}
    BY DEF Temps
  <2> QED BY <2>1, FS_EmptySet DEF Count
<1>6. Counted'
  BY <1>1, <1>5 DEF Counted
<1> QED BY <1>1, <1>3, <1>4, <1>6 DEF TempInv

\* At the end the two lists are equally long, so the old one is the new one.
LEMMA SilentReadsAgree == ASSUME TempInv PROVE TempRefsAgree
<1>1. SUFFICES ASSUME PassesEnded, msgs \cap TempMessages = {}, Len(nextPassLabels) >= Len(labels),
                      NEW r \in TempReads
               PROVE  TempReadIsNearest(r)
  BY DEF TempRefsAgree
<1>2. Quiet
  BY <1>1 DEF Quiet, PassesEnded
<1>3. /\ Len(labels) \in Nat /\ Len(nextPassLabels) \in Nat
      /\ DOMAIN nextPassLabels = 1 .. Len(nextPassLabels)
      /\ Len(prog) \in Nat
  BY LenProperties DEF TempInv, TempTypes, Placed
<1>4. SameAsBefore /\ ReadWell(r) /\ Refers(prog[r.at])
  BY <1>2 DEF TempInv, TempReads, Refers
<1>5. Len(nextPassLabels) = Len(labels)
  BY <1>1, <1>3, <1>4 DEF SameAsBefore
<1> DEFINE n  == prog[r.at].n
           c  == Count(prog, r.at)
           ks == {k \in DOMAIN nextPassLabels : nextPassLabels[k].nummer = n /\
                    (IF prog[r.at].op = "back" THEN k <= c ELSE k > c)}
<1>6. c \in Nat /\ c <= Len(nextPassLabels)
  <2>1. r.at \in Nat \ {0}
    BY <1>3, <1>4 DEF ReadWell
  <2> QED BY <1>4, <2>1, CountStep DEF ReadWell
<1>7. TempsBefore(r.at) = c
  BY DEF TempsBefore, Count, Temps, IsTemp
<1> HIDE DEF c, n
<1>8. \E k \in ks : /\ r.val = nextPassLabels[k].value
                    /\ \A j \in ks : IF prog[r.at].op = "back" THEN j <= k ELSE k <= j
  <2>1. CASE prog[r.at].op = "back"
    <3>1. NearestBack(nextPassLabels, c, n, r.val)
      BY <1>4, <2>1 DEF ReadWell, c, n
    <3>2. PICK k \in 1 .. c : /\ nextPassLabels[k].nummer = n /\ r.val = nextPassLabels[k].value
                              /\ \A j \in 1 .. c : nextPassLabels[j].nummer = n => j <= k
      BY <3>1 DEF NearestBack
    <3>3. ks = {j \in 1 .. c : nextPassLabels[j].nummer = n}
      BY <1>3, <1>6, <2>1
    <3> HIDE DEF ks
    <3> QED BY <3>2, <3>3, <2>1
  <2>2. CASE prog[r.at].op = "forward"
    <3>1. NearestForward(labels, c, n, r.val)
      BY <1>4, <2>2 DEF ReadWell, c, n
    <3>2. PICK k \in c + 1 .. Len(labels) :
             /\ labels[k].nummer = n /\ r.val = labels[k].value
             /\ \A j \in c + 1 .. Len(labels) : labels[j].nummer = n => k <= j
      BY <3>1 DEF NearestForward
    <3>3. \A j \in c + 1 .. Len(labels) : /\ nextPassLabels[j].nummer = labels[j].nummer
                                          /\ nextPassLabels[j].value = labels[j].value
      BY <1>3, <1>4, <1>5, <1>6 DEF SameAsBefore
    <3>4. ks = {j \in c + 1 .. Len(labels) : nextPassLabels[j].nummer = n}
      BY <1>3, <1>5, <1>6, <2>2
    <3> HIDE DEF ks
    <3>5. k \in ks /\ r.val = nextPassLabels[k].value
      BY <3>2, <3>3, <3>4
    <3>6. \A j \in ks : k <= j
      BY <3>2, <3>3, <3>4
    <3> QED BY <3>5, <3>6, <2>2
  <2> QED BY <1>4, <2>1, <2>2 DEF Refers
<1> QED BY <1>7, <1>8 DEF TempReadIsNearest, n, c

LEMMA LabelAdds == ASSUME Label PROVE msgs \subseteq msgs'
<1> DEFINE w == CurrentItem.w
           name == ValidateLabel(w, TRUE)
<1>1. \/ \E m \in {"invalid label", "label not found"} : msgs' = msgs \cup {m}
      \/ \E table, reported : DefineAndTrack(table, name, IsLocal(w), reported)
  BY DEF Label
<1>2. ASSUME NEW table, NEW reported, DefineAndTrack(table, name, IsLocal(w), reported)
      PROVE  msgs \subseteq msgs'
  BY <1>2 DEF DefineAndTrack
<1> QED BY <1>1, <1>2

\* seekForward (tables.cpp) searches the list of the pass before; InsertRefresh
\* compares the two lists as the last pass adds to its own.  For every program
\* and every choice of the items a pass keeps: when the last pass reports nothing
\* about temporary labels and has as many of them, every reference is the nearest
\* label of the last pass itself.
THEOREM SymbolsTempRefsAgree == SymbolsSpec => []TempRefsAgree
<1>1. ASSUME SymbolsInit PROVE TempInv
  <2>1. prog \in Seq(Items) /\ Len(prog) \in Nat /\ 1 \in 1 .. LASTPASS
    BY <1>1, ProgramsAssumption, LenProperties DEF SymbolsInit
  <2>2. <<>> \in Seq(TempLabels)
    BY EmptySeq
  <2>3. TempTypes
    BY <1>1, <2>1, <2>2 DEF SymbolsInit, TempTypes, Placed
  <2>4. Count(prog, 1) = 0
    <3>1. Temps(prog, 1) = {}
      BY DEF Temps
    <3> QED BY <3>1, FS_EmptySet DEF Count
  <2> QED BY <1>1, <2>3, <2>4 DEF SymbolsInit, TempInv, SameAsBefore, Counted
<1>2. ASSUME TempInv, [SymbolsNext]_symbolVars PROVE TempInv'
  <2>0. /\ Placed /\ adr \in Int /\ phys \in Int
        /\ pc <= Len(prog) => CurrentItem.n \in Int
    BY <1>2, ItemIsTyped DEF TempInv, TempTypes
  <2>1. CASE SkipItem
    <3>1. /\ pc <= Len(prog) /\ NextItem /\ UNCHANGED temps /\ UNCHANGED place
          /\ msgs' = msgs /\ reads' = reads /\ pass \notin CurrentItem.in
      BY <2>1 DEF SkipItem
    <3>2. adr' = adr /\ phys' = phys
      BY <3>1 DEF place
    <3>3. TempTypes'
      BY <1>2, <2>0, <3>1, <3>2, ItemKeepsTypes DEF TempInv
    <3>4. CASE pass = LASTPASS
      <4>1. ~IsTemp(prog[pc])
        BY <3>1, <3>4 DEF IsTemp, CurrentItem
      <4> QED BY <1>2, <3>1, <3>3, <4>1, OtherItemKeeps
    <3>5. CASE pass # LASTPASS
      BY <3>1, <3>3, <3>5 DEF TempInv, Quiet, NextItem
    <3> QED BY <3>4, <3>5
  <2>2. CASE EmitBytes
    <3>1. /\ pc <= Len(prog) /\ NextItem /\ UNCHANGED temps /\ CurrentItem.op # "temp"
          /\ msgs' = msgs /\ reads' = reads
          /\ adr' = adr + CurrentItem.n /\ phys' = phys + CurrentItem.n
      BY <2>2 DEF EmitBytes, Live
    <3> QED BY <1>2, <2>0, <3>1, PlainItemKeeps
  <2>3. CASE dirORG
    <3>1. /\ pc <= Len(prog) /\ NextItem /\ UNCHANGED temps /\ CurrentItem.op # "temp"
          /\ reads' = reads /\ adr' = CurrentItem.n
      BY <2>3 DEF dirORG, Live
    <3>2. phys' \in {phys, CurrentItem.n} /\ msgs \subseteq msgs'
      BY <2>3, BoundaryAdds DEF dirORG
    <3> QED BY <1>2, <2>0, <3>1, <3>2, PlainItemKeeps
  <2>4. CASE dirDISP
    <3>1. /\ pc <= Len(prog) /\ NextItem /\ UNCHANGED temps /\ CurrentItem.op # "temp"
          /\ msgs' = msgs /\ reads' = reads /\ adr' = CurrentItem.n /\ phys' = phys
      BY <2>4 DEF dirDISP, Live
    <3> QED BY <1>2, <2>0, <3>1, PlainItemKeeps
  <2>5. CASE dirENT
    <3>1. /\ pc <= Len(prog) /\ NextItem /\ UNCHANGED temps /\ CurrentItem.op # "temp"
          /\ msgs' = msgs /\ reads' = reads /\ adr' = phys /\ phys' = phys
      BY <2>5 DEF dirENT, Live
    <3> QED BY <1>2, <2>0, <3>1, PlainItemKeeps
  <2>6. CASE Label
    <3>1. /\ pc <= Len(prog) /\ NextItem /\ UNCHANGED temps /\ CurrentItem.op # "temp"
          /\ reads' = reads /\ UNCHANGED place
      BY <2>6 DEF Label, Live
    <3>2. msgs \subseteq msgs' /\ adr' = adr /\ phys' = phys
      BY <2>6, <3>1, LabelAdds DEF place
    <3> QED BY <1>2, <2>0, <3>1, <3>2, PlainItemKeeps
  <2>7. CASE Read
    <3>1. /\ pc <= Len(prog) /\ NextItem /\ UNCHANGED temps /\ UNCHANGED place
          /\ CurrentItem.op \in {"ref", "sizeof"}
      BY <2>7 DEF Read, Live
    <3>2. msgs \subseteq msgs' /\ adr' = adr /\ phys' = phys
      BY <2>7, <3>1 DEF Read, place
    <3>3. CurrentItem.op # "temp" /\ ~Refers(CurrentItem)
      BY <3>1 DEF Refers
    <3>4. reads' = reads \/ \E r : r.at = pc /\ reads' = reads \cup {r}
      <4>1. CASE ~ValidName(CurrentItem.w, FALSE)
        BY <2>7, <4>1, Zenon DEF Read
      <4>2. CASE ValidName(CurrentItem.w, FALSE)
        <5>1. \E f, v : reads' = reads \cup {[at |-> pc, found |-> f, val |-> v]}
          BY <2>7, <4>2, Zenon DEF Read
        <5> QED BY <5>1
      <4> QED BY <4>1, <4>2
    <3>5. \A r \in reads' : r \in reads \/ (r.at = pc /\ ~Refers(CurrentItem))
      BY <3>3, <3>4
    <3> QED BY <1>2, <2>0, <3>1, <3>2, <3>3, <3>5, PlainItemKeeps
  <2>8. CASE Tag
    <3>1. /\ pc <= Len(prog) /\ NextItem /\ UNCHANGED temps /\ CurrentItem.op # "temp"
          /\ reads' = reads /\ UNCHANGED place /\ msgs \subseteq msgs'
      BY <2>8, BoundaryAdds DEF Tag, Live
    <3> QED BY <1>2, <2>0, <3>1, PlainItemKeeps DEF place
  <2>9. CASE OpenModule
    <3>1. /\ pc <= Len(prog) /\ NextItem /\ UNCHANGED temps /\ CurrentItem.op # "temp"
          /\ reads' = reads /\ UNCHANGED place /\ msgs \subseteq msgs'
      BY <2>9, BoundaryAdds DEF OpenModule, Live
    <3> QED BY <1>2, <2>0, <3>1, PlainItemKeeps DEF place
  <2>10. CASE CloseModule
    <3>1. /\ pc <= Len(prog) /\ NextItem /\ UNCHANGED temps /\ CurrentItem.op # "temp"
          /\ reads' = reads /\ UNCHANGED place
      BY <2>10 DEF CloseModule, Live
    <3>2. msgs \subseteq msgs'
      BY <2>10, BoundaryAdds DEF CloseModule
    <3> QED BY <1>2, <2>0, <3>1, <3>2, PlainItemKeeps DEF place
  <2>11. CASE Open
    <3>1. /\ pc <= Len(prog) /\ NextItem /\ UNCHANGED temps /\ CurrentItem.op # "temp"
          /\ reads' = reads /\ UNCHANGED place /\ msgs' = msgs
      BY <2>11 DEF Open, Live
    <3> QED BY <1>2, <2>0, <3>1, PlainItemKeeps DEF place
  <2>12. CASE Close
    <3>1. /\ pc <= Len(prog) /\ NextItem /\ UNCHANGED temps /\ CurrentItem.op # "temp"
          /\ reads' = reads /\ UNCHANGED place /\ msgs \subseteq msgs'
      BY <2>12, BoundaryAdds DEF Close, Live
    <3> QED BY <1>2, <2>0, <3>1, PlainItemKeeps DEF place
  <2>13. CASE EmitStruct
    <3>1. /\ pc <= Len(prog) /\ NextItem /\ UNCHANGED temps /\ CurrentItem.op # "temp"
          /\ reads' = reads /\ adr' = adr + CurrentItem.n /\ phys' = phys + CurrentItem.n
      BY <2>13 DEF EmitStruct, Live
    <3>2. msgs \subseteq msgs'
      BY <2>13 DEF EmitStruct
    <3> QED BY <1>2, <2>0, <3>1, <3>2, PlainItemKeeps
  <2>14. CASE StructFails
    <3>1. /\ pc' = Len(prog) + 2 /\ prog' = prog /\ pass' = pass /\ UNCHANGED temps
          /\ UNCHANGED place /\ reads' = reads /\ msgs \subseteq msgs'
      BY <2>14 DEF StructFails
    <3> QED BY <1>2, <3>1, EndKeeps DEF place
  <2>15. CASE Temp
    BY <2>15, <1>2, TempKeeps
  <2>16. CASE GetTemporaryLabelValue
    BY <2>16, <1>2, GetTemporaryKeeps
  <2>17. CASE EndOfFile
    <3>1. /\ pc = Len(prog) + 1 /\ pc' = pc + 1 /\ prog' = prog /\ pass' = pass /\ UNCHANGED temps
          /\ UNCHANGED place /\ reads' = reads /\ msgs \subseteq msgs'
      BY <2>17, BoundaryAdds DEF EndOfFile
    <3>2. pc' = Len(prog) + 2
      BY <2>0, <3>1, LenProperties DEF Placed
    <3> QED BY <1>2, <3>1, <3>2, EndKeeps DEF place
  <2>18. CASE SymbolsPass
    BY <2>18, <1>2, PassKeepsTemps
  <2>19. CASE UNCHANGED symbolVars
    <3>1. UNCHANGED <<prog, pass, pc, adr, phys, labels, nextPassLabels, reads, msgs>>
      BY <2>19 DEF symbolVars, place, temps
    <3> QED BY <1>2, <3>1 DEF TempInv, TempTypes, Placed, Quiet, SameAsBefore, Counted, ReadWell
  <2> QED BY <1>2, <2>1, <2>2, <2>3, <2>4, <2>5, <2>6, <2>7, <2>8, <2>9, <2>10, <2>11, <2>12,
             <2>13, <2>14, <2>15, <2>16, <2>17, <2>18, <2>19 DEF SymbolsNext, AllPassesDone
<1>3. ASSUME TempInv PROVE TempRefsAgree
  BY <1>3, SilentReadsAgree
<1> QED BY <1>1, <1>2, <1>3, PTL DEF SymbolsSpec

=============================================================================
