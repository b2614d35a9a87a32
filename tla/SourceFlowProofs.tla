-------------------------- MODULE SourceFlowProofs --------------------------
(***************************************************************************)
(* However badly the blocks of a source are nested, the reading loops keep *)
(* their books: IInv is an invariant of SourceFlow, and END, WHILE and the *)
(* guardian of WHILE stop in time, for every set of programs.              *)
(***************************************************************************)
EXTENDS SourceFlow, FiniteSetTheorems, SequenceTheorems, WellFoundedInduction, TLAPS

----------------------------------------------------------------------------
(* Choosing the least and the greatest index *)

\* A set of natural numbers that is not empty has a least element.
LEMMA LeastExists ==
  ASSUME NEW S \in SUBSET Nat, S # {}
  PROVE  \E x \in S : \A y \in S : x <= y
<1>1. PICK x \in S : \A y \in S : ~(<<y, x>> \in OpToRel(<, Nat))
  BY NatLessThanWellFounded, WFMin
<1>2. \A y \in S : ~(y < x)
  BY <1>1 DEF OpToRel
<1> QED
  BY <1>2

\* A bounded one has a greatest element.
LEMMA GreatestExists ==
  ASSUME NEW n \in Nat, NEW S \in SUBSET (1 .. n), S # {}
  PROVE  \E x \in S : \A y \in S : x >= y
<1> DEFINE D == {d \in 0 .. n : n - d \in S}
<1>1. D \in SUBSET Nat
  OBVIOUS
<1>2. D # {}
  <2>1. PICK x \in S : TRUE
    OBVIOUS
  <2>2. n - (n - x) = x /\ n - x \in 0 .. n
    BY <2>1
  <2> QED
    BY <2>1, <2>2
<1>3. PICK d \in D : \A e \in D : d <= e
  BY <1>1, <1>2, LeastExists
<1>4. ASSUME NEW y \in S PROVE n - d >= y
  <2>1. n - y \in 0 .. n /\ n - (n - y) = y
    BY <1>4
  <2>2. n - y \in D
    BY <1>4, <2>1
  <2>3. d <= n - y /\ d \in 0 .. n
    BY <2>2, <1>3
  <2> QED
    BY <2>1, <2>3
<1> QED
  BY <1>3, <1>4

\* Find is zero or the place of the first line with the keyword.
LEMMA FindType ==
  ASSUME NEW s \in Seq(Lines), NEW op
  PROVE  Find(s, op) \in 0 .. Len(s)
<1> DEFINE I == {i \in 1 .. Len(s) : s[i].op = op}
<1>1. Find(s, op) = IF I # {} THEN Min(I) ELSE 0
  BY DEF Find, SelectInSeq
<1>2. I \in SUBSET Nat
  OBVIOUS
<1>3. I # {} => Min(I) \in I
  BY <1>2, LeastExists DEF Min
<1> QED
  BY <1>1, <1>3

LEMMA BeforeAfterType ==
  ASSUME NEW s \in Seq(Lines), NEW op
  PROVE  After(s, op) \in Seq(Lines) /\ Before(s, op) \in Seq(Lines)
BY FindType DEF After, Before

\* The loop that reads a file is the innermost one.
LEMMA FileFrameType ==
  ASSUME stack \in Seq(Frames), stack # << >>, stack[1].k = "file"
  PROVE  /\ FileFrame \in 1 .. Len(stack) /\ stack[FileFrame] \in FileFrames
<1> DEFINE I == {i \in 1 .. Len(stack) : stack[i].k = "file"}
<1>1. FileFrame = IF I # {} THEN Max(I) ELSE 0
  BY DEF FileFrame, SelectLastInSeq
<1>2. 1 \in I
  OBVIOUS
<1>3. \E x \in I : \A y \in I : x >= y
  <2>1. Len(stack) \in Nat /\ I \in SUBSET (1 .. Len(stack)) /\ I # {}
    BY <1>2
  <2> HIDE DEF I
  <2> QED
    BY <2>1, GreatestExists
<1>4. Max(I) \in I
  BY <1>3 DEF Max
<1> QED
  BY <1>1, <1>2, <1>4 DEF Frames, IfFrames, DupFrames, MacroFrames


----------------------------------------------------------------------------
(* What pushing and popping does to the stack *)

LEMMA PopFacts ==
  ASSUME NEW T, NEW s \in Seq(T), s # << >>
  PROVE  /\ Pop(s) \in Seq(T) /\ Len(Pop(s)) = Len(s) - 1
         /\ \A i \in 1 .. Len(s) - 1 : Pop(s)[i] = s[i]
         /\ Len(s) \in Nat \ {0}
<1>1. Len(s) \in Nat \ {0}
  BY EmptySeq
<1> DEFINE n == Len(s) - 1
<1>2. n \in Int /\ 1 \in Int /\ \A i \in 1 .. n : s[i] \in T
  BY <1>1
<1>3. /\ SubSeq(s, 1, n) \in Seq(T)
      /\ Len(SubSeq(s, 1, n)) = IF 1 <= n THEN n - 1 + 1 ELSE 0
      /\ \A i \in 1 .. n - 1 + 1 : SubSeq(s, 1, n)[i] = s[1 + i - 1]
  <2> HIDE DEF n
  <2> QED
    BY <1>2, SubSeqProperties
<1>4. ASSUME NEW i \in 1 .. n PROVE SubSeq(s, 1, n)[i] = s[i]
  <2>1. i \in 1 .. n - 1 + 1 /\ 1 + i - 1 = i
    BY <1>1
  <2> QED
    BY <1>3, <2>1
<1>5. Len(SubSeq(s, 1, n)) = n
  <2>1. n \in Nat
    BY <1>1
  <2> HIDE DEF n
  <2> QED
    BY <1>3, <2>1
<1> QED
  BY <1>1, <1>3, <1>4, <1>5 DEF Pop

LEMMA ReplaceFacts ==
  ASSUME NEW T, NEW s \in Seq(T), NEW i \in 1 .. Len(s), NEW e \in T,
         NEW t, t = [s EXCEPT ![i] = e]
  PROVE  /\ t \in Seq(T) /\ Len(t) = Len(s)
         /\ t[i] = e /\ \A j \in 1 .. Len(s) : j # i => t[j] = s[j]
BY ExceptSeq

\* The frames that read from lijstp are finitely many.
LEMMA EmittersFinite ==
  ASSUME NEW s \in Seq(Frames)
  PROVE  IsFiniteSet(Emitters(s)) /\ Cardinality(Emitters(s)) \in Nat
<1>1. Emitters(s) \in SUBSET (1 .. Len(s)) /\ IsFiniteSet(1 .. Len(s))
  BY FS_Interval DEF Emitters
<1>2. IsFiniteSet(Emitters(s))
  BY <1>1, FS_Subset
<1> QED
  BY <1>2, FS_CardinalityType

IsEmitter(f) == f.k \in {"dup", "macro"}

LEMMA EmittersPush ==
  ASSUME NEW s \in Seq(Frames), NEW f \in Frames
  PROVE  Cardinality(Emitters(Append(s, f))) =
           Cardinality(Emitters(s)) + (IF IsEmitter(f) THEN 1 ELSE 0)
<1>1. Emitters(Append(s, f)) = IF IsEmitter(f) THEN Emitters(s) \cup {Len(s) + 1} ELSE Emitters(s)
  BY DEF Emitters, IsEmitter
<1>2. Len(s) + 1 \notin Emitters(s)
  BY DEF Emitters
<1>3. IsFiniteSet(Emitters(s)) /\ Cardinality(Emitters(s)) \in Nat
  BY EmittersFinite
<1>4. Cardinality(Emitters(s) \cup {Len(s) + 1}) = Cardinality(Emitters(s)) + 1
  BY <1>2, <1>3, FS_AddElement
<1> QED
  BY <1>1, <1>3, <1>4

LEMMA EmittersPop ==
  ASSUME NEW s \in Seq(Frames), s # << >>
  PROVE  Cardinality(Emitters(Pop(s))) =
           Cardinality(Emitters(s)) - (IF IsEmitter(Last(s)) THEN 1 ELSE 0)
<1>1. Emitters(Pop(s)) = Emitters(s) \ {Len(s)}
  BY PopFacts DEF Emitters
<1>2. Len(s) \in Emitters(s) <=> IsEmitter(Last(s))
  BY PopFacts DEF Emitters, IsEmitter, Last
<1>3. IsFiniteSet(Emitters(s)) /\ Cardinality(Emitters(s)) \in Nat
  BY EmittersFinite
<1>4. Cardinality(Emitters(s) \ {Len(s)}) =
        IF Len(s) \in Emitters(s) THEN Cardinality(Emitters(s)) - 1 ELSE Cardinality(Emitters(s))
  BY <1>3, FS_RemoveElement
<1> QED
  BY <1>1, <1>2, <1>3, <1>4

\* Positions and conditions of frames change, their kinds do not.
Alike(s, t) ==
  /\ Len(t) = Len(s)
  /\ \A i \in 1 .. Len(s) : t[i].k = s[i].k /\ (s[i].k = "dup" => t[i].entry = s[i].entry)

LEMMA EmittersAlike ==
  ASSUME NEW s \in Seq(Frames), NEW t \in Seq(Frames), Alike(s, t)
  PROVE  Emitters(t) = Emitters(s)
BY DEF Emitters, Alike

----------------------------------------------------------------------------
(* Steps *)

\* A line that was read belongs to the source and to a loop that reads.
LEMMA LineFacts ==
  ASSUME IInv, line # None
  PROVE  /\ line \in Lines /\ line.op \in Ops
         /\ stack # << >> /\ stack[1].k = "file" /\ Len(stack) \in Nat \ {0}
BY FlowAssumption DEF IInv, TypeOK, FileBelow

LEMMA TopFacts ==
  ASSUME TypeOK, stack # << >>
  PROVE  /\ Len(stack) \in Nat \ {0} /\ Top = stack[Len(stack)] /\ Top \in Frames
         /\ Top.k = "file" => Top \in FileFrames
         /\ Top.k = "if" => Top \in IfFrames
         /\ Top.k = "dup" => Top \in DupFrames
         /\ Top.k = "macro" => Top \in MacroFrames
BY DEF TypeOK, Top, Last, Frames, FileFrames, IfFrames, DupFrames, MacroFrames

\* Repeated blocks are at work as before.
SameRepeats ==
  /\ Len(RepeatStack') = Len(RepeatStack)
  /\ \A i \in 1 .. Len(RepeatStack) : RepeatStack[i].IsInWork => RepeatStack'[i].IsInWork

\* A step that leaves the kinds of the frames alone keeps the books.
LEMMA AlikeKeepsBooks ==
  ASSUME IInv, TypeOK', Alike(stack, stack'), lijst' = lijst, SameRepeats
  PROVE  DupFramesLive' /\ OnlyTopCollects' /\ LijstIsBalanced'
<1> USE DEF IInv, TypeOK, Alike, SameRepeats
<1>1. DupFramesLive'
  <2> SUFFICES ASSUME NEW i \in 1 .. Len(stack'), stack'[i].k = "dup"
               PROVE  /\ stack'[i].entry \in 1 .. Len(RepeatStack')
                      /\ RepeatStack'[stack'[i].entry].IsInWork
                      /\ \A j \in 1 .. i - 1 : stack'[j].k = "dup" => stack'[j].entry < stack'[i].entry
    BY DEF DupFramesLive
  <2>1. i \in 1 .. Len(stack) /\ stack[i].k = "dup" /\ stack'[i].entry = stack[i].entry
    OBVIOUS
  <2>2. stack[i].entry \in 1 .. Len(RepeatStack) /\ RepeatStack[stack[i].entry].IsInWork
    BY <2>1 DEF DupFramesLive
  <2>3. ASSUME NEW j \in 1 .. i - 1, stack'[j].k = "dup" PROVE stack'[j].entry < stack'[i].entry
    <3>1. j \in 1 .. Len(stack)
      BY <2>1
    <3>2. stack[j].k = "dup" /\ stack'[j].entry = stack[j].entry
      BY <2>3, <3>1
    <3> QED
      BY <2>1, <3>2 DEF DupFramesLive
  <2> QED
    BY <2>1, <2>2, <2>3
<1>2. OnlyTopCollects'
  BY DEF OnlyTopCollects
<1>3. LijstIsBalanced'
  BY EmittersAlike DEF LijstIsBalanced
<1> QED
  BY <1>1, <1>2, <1>3

\* A frame that comes on top and is no DUP keeps the books.
LEMMA PushKeepsBooks ==
  ASSUME IInv, NEW f \in Frames, stack' = Append(stack, f), f.k # "dup",
         lijst' = lijst + (IF IsEmitter(f) THEN 1 ELSE 0), RepeatStack' = RepeatStack
  PROVE  DupFramesLive' /\ OnlyTopCollects' /\ LijstIsBalanced'
<1> USE DEF IInv, TypeOK
<1>1. DupFramesLive'
  BY DEF DupFramesLive
<1>2. OnlyTopCollects'
  BY DEF OnlyTopCollects
<1>3. LijstIsBalanced'
  BY EmittersPush DEF LijstIsBalanced
<1> QED
  BY <1>1, <1>2, <1>3

\* So does a frame that is left, unless it is the one of a DUP.
LEMMA PopKeepsBooks ==
  ASSUME IInv, stack # << >>, stack' = Pop(stack),
         lijst' = lijst - (IF IsEmitter(Top) THEN 1 ELSE 0), RepeatStack' = RepeatStack
  PROVE  DupFramesLive' /\ OnlyTopCollects' /\ LijstIsBalanced'
<1> USE DEF IInv, TypeOK
<1>1. DupFramesLive'
  <2>1. Len(stack') = Len(stack) - 1 /\ \A i \in 1 .. Len(stack) - 1 : stack'[i] = stack[i]
    BY PopFacts
  <2>2. \A i \in 1 .. Len(stack') : i \in 1 .. Len(stack) /\ stack'[i] = stack[i]
    BY <2>1
  <2>3. \A i \in 1 .. Len(stack') : \A j \in 1 .. i - 1 : j \in 1 .. Len(stack')
    BY <2>1
  <2> QED
    BY <2>2, <2>3 DEF DupFramesLive
<1>2. OnlyTopCollects'
  BY DEF OnlyTopCollects
<1>3. LijstIsBalanced'
  BY EmittersPop DEF LijstIsBalanced, Top
<1> QED
  BY <1>1, <1>2, <1>3

\* Errors are never taken back, so counted iterations stay counted.
LEMMA SameIterations ==
  ASSUME IInv, RepeatStack' = RepeatStack, errors \subseteq errors'
  PROVE  IterationsAreCounted' /\ SameRepeats
BY DEF IInv, TypeOK, IterationsAreCounted, SameRepeats

\* The next line comes from a loop that is there and may go on.
NextLineIsDue == line' # None => stack # << >> /\ (IsRunning' \/ InMacro)

LEMMA AlikeStep ==
  ASSUME IInv, TypeOK', Alike(stack, stack'), lijst' = lijst, SameRepeats,
         BranchTaken', IterationsAreCounted', NextLineIsDue
  PROVE  IInv'
<1>1. DupFramesLive' /\ OnlyTopCollects' /\ LijstIsBalanced'
  BY AlikeKeepsBooks
<1>2. FileBelow'
  <2>1. CASE stack = << >>
    <3>1. stack' = << >>
      BY <2>1, EmptySeq DEF IInv, TypeOK, Alike
    <3> QED
      BY <2>1, <3>1 DEF NextLineIsDue, FileBelow
  <2>2. CASE stack # << >>
    <3>1. stack[1].k = "file" /\ Len(stack) \in Nat \ {0}
      BY <2>2, EmptySeq DEF IInv, TypeOK, FileBelow
    <3>2. stack'[1].k = "file" /\ stack' # << >>
      BY <3>1 DEF Alike
    <3> QED
      BY <3>2 DEF FileBelow
  <2> QED
    BY <2>1, <2>2
<1>3. OnlyMacrosReadOn'
  BY DEF OnlyMacrosReadOn, NextLineIsDue, InMacro, Alike
<1> QED
  BY <1>1, <1>2, <1>3 DEF IInv

LEMMA PushStep ==
  ASSUME IInv, TypeOK', NEW f \in Frames, stack # << >>, stack' = Append(stack, f),
         f.k # "dup", f.k = "if" /\ f.val => f.orVal,
         lijst' = lijst + (IF IsEmitter(f) THEN 1 ELSE 0),
         RepeatStack' = RepeatStack, errors \subseteq errors', line' = None
  PROVE  IInv'
<1>1. DupFramesLive' /\ OnlyTopCollects' /\ LijstIsBalanced'
  BY PushKeepsBooks
<1>2. FileBelow'
  <2>1. stack[1].k = "file" /\ Len(stack) \in Nat \ {0}
    BY EmptySeq DEF IInv, TypeOK, FileBelow
  <2> QED
    BY <2>1 DEF FileBelow, IInv, TypeOK
<1>3. BranchTaken'
  BY DEF IInv, TypeOK, BranchTaken
<1>4. IterationsAreCounted' /\ OnlyMacrosReadOn'
  BY SameIterations DEF OnlyMacrosReadOn
<1> QED
  BY <1>1, <1>2, <1>3, <1>4 DEF IInv

\* Leaving a frame whose line has been dealt with.
LEMMA PopRest ==
  ASSUME IInv, stack # << >>, stack' = Pop(stack), line' = None
  PROVE  stack' \in Seq(Frames) /\ FileBelow' /\ BranchTaken' /\ OnlyMacrosReadOn'
<1>1. /\ stack' \in Seq(Frames) /\ Len(stack') = Len(stack) - 1
      /\ \A i \in 1 .. Len(stack) - 1 : stack'[i] = stack[i]
      /\ Len(stack) \in Nat \ {0}
  BY PopFacts DEF IInv, TypeOK
<1>2. FileBelow'
  <2>1. CASE stack' = << >>
    BY <2>1 DEF FileBelow
  <2>2. CASE stack' # << >>
    <3>1. Len(stack') \in Nat \ {0}
      BY <1>1, <2>2, EmptySeq
    <3> QED
      BY <1>1, <3>1, <2>2 DEF FileBelow, IInv
  <2> QED
    BY <2>1, <2>2
<1>3. \A i \in 1 .. Len(stack') : i \in 1 .. Len(stack) /\ stack'[i] = stack[i]
  BY <1>1
<1> QED
  BY <1>1, <1>2, <1>3 DEF IInv, BranchTaken, OnlyMacrosReadOn

LEMMA PopStep ==
  ASSUME IInv, TypeOK', stack # << >>, stack' = Pop(stack),
         lijst' = lijst - (IF IsEmitter(Top) THEN 1 ELSE 0),
         RepeatStack' = RepeatStack, errors \subseteq errors', line' = None
  PROVE  IInv'
BY PopKeepsBooks, PopRest, SameIterations DEF IInv

----------------------------------------------------------------------------
(* Positions *)

\* Conditional blocks are left alone.
IfsKept(s, t) == \A i \in 1 .. Len(s) : s[i].k = "if" => t[i] = s[i]

LEMMA MoveFileFrame ==
  ASSUME TypeOK, NEW i \in 1 .. Len(stack), stack[i] \in FileFrames, NEW r \in Seq(Lines),
         NEW t, t = [stack EXCEPT ![i].rest = r]
  PROVE  t \in Seq(Frames) /\ Alike(stack, t) /\ IfsKept(stack, t)
<1> DEFINE f == [stack[i] EXCEPT !.rest = r]
<1>1. f \in FileFrames /\ f.k = "file" /\ stack[i].k = "file"
  BY DEF FileFrames
<1>2. f \in Frames /\ stack \in Seq(Frames) /\ t = [stack EXCEPT ![i] = f]
  BY <1>1 DEF Frames, TypeOK
<1>3. /\ t \in Seq(Frames) /\ Len(t) = Len(stack)
      /\ \A j \in 1 .. Len(stack) : t[j] = IF j = i THEN f ELSE stack[j]
  <2> HIDE DEF f
  <2> QED
    BY <1>2, ExceptSeq, SMTT(30)
<1> QED
  BY <1>1, <1>3 DEF Alike, IfsKept

LEMMA SourceType ==
  ASSUME IInv, stack # << >>
  PROVE  /\ Source \in Seq(Lines)
         /\ Source # << >> => IsRunning
         /\ FileFrame \in 1 .. Len(stack) /\ stack[FileFrame] \in FileFrames
<1>1. stack[1].k = "file" /\ stack \in Seq(Frames)
  BY DEF IInv, FileBelow, TypeOK
<1>2. FileFrame \in 1 .. Len(stack) /\ stack[FileFrame] \in FileFrames
  BY <1>1, FileFrameType
<1> QED
  BY <1>2 DEF Source, FileFrames, IInv, TypeOK

LEMMA MoveSourceFacts ==
  ASSUME IInv, stack # << >>, NEW r \in Seq(Lines), MoveSource(r)
  PROVE  /\ stack' \in Seq(Frames) /\ lijstp' \in Seq(Lines)
         /\ Alike(stack, stack') /\ IfsKept(stack, stack')
<1>1. CASE lijst > 0
  BY <1>1 DEF MoveSource, Alike, IfsKept, IInv, TypeOK
<1>2. CASE ~(lijst > 0)
  <2>1. stack' = [stack EXCEPT ![FileFrame].rest = r] /\ lijstp' = lijstp
    BY <1>2 DEF MoveSource
  <2>2. TypeOK
    BY DEF IInv
  <2> QED
    BY <2>1, <2>2, SourceType, MoveFileFrame DEF TypeOK
<1> QED
  BY <1>1, <1>2

LEMMA IfsKeptBranch ==
  ASSUME IInv, TypeOK', Alike(stack, stack'), IfsKept(stack, stack')
  PROVE  BranchTaken'
BY DEF IInv, TypeOK, Alike, IfsKept, BranchTaken

\* A step that only moves a reading position or adds to the errors.
LEMMA MoveStep ==
  ASSUME IInv, TypeOK', Alike(stack, stack'), IfsKept(stack, stack'), lijst' = lijst,
         RepeatStack' = RepeatStack, errors \subseteq errors', NextLineIsDue
  PROVE  IInv'
BY IfsKeptBranch, SameIterations, AlikeStep

LEMMA SameStackFacts ==
  ASSUME TypeOK, stack' = stack
  PROVE  Alike(stack, stack') /\ IfsKept(stack, stack')
BY DEF TypeOK, Alike, IfsKept

----------------------------------------------------------------------------
(* The loops *)

LEMMA ReadBufLineStep == ASSUME IInv, ReadBufLine PROVE IInv'
<1>1. stack # << >> /\ Top.k = "file" /\ line = None
  BY DEF ReadBufLine, TopIs
<1>2. Top \in FileFrames /\ Top = stack[Len(stack)] /\ Len(stack) \in Nat \ {0}
  BY <1>1, TopFacts DEF IInv
<1>3. CASE IsRunning /\ Top.rest # << >>
  <2>1. Top.rest \in Seq(Lines)
    BY <1>2 DEF FileFrames
  <2>2. Head(Top.rest) \in Lines /\ Tail(Top.rest) \in Seq(Lines)
    BY <1>3, <2>1, HeadTailProperties
  <2>3. stack' = [stack EXCEPT ![Len(stack)].rest = Tail(Top.rest)] /\ line' = Head(Top.rest)
    BY <1>2, <1>3 DEF ReadBufLine
  <2>4. stack' \in Seq(Frames) /\ Alike(stack, stack') /\ IfsKept(stack, stack')
    <3>1. Len(stack) \in 1 .. Len(stack) /\ stack[Len(stack)] \in FileFrames /\ TypeOK
      BY <1>2 DEF IInv
    <3> QED
      BY <2>2, <2>3, <3>1, MoveFileFrame
  <2>5. TypeOK'
    BY <2>2, <2>3, <2>4 DEF ReadBufLine, IInv, TypeOK
  <2>6. NextLineIsDue
    BY <1>1, <1>3 DEF NextLineIsDue, ReadBufLine
  <2> QED
    BY <2>4, <2>5, <2>6, MoveStep DEF ReadBufLine
<1>4. CASE ~(IsRunning /\ Top.rest # << >>)
  <2>1. stack' = Pop(stack) /\ line' = None
    BY <1>1, <1>4 DEF ReadBufLine
  <2>2. TypeOK'
    BY <1>1, <2>1, PopRest DEF ReadBufLine, IInv, TypeOK
  <2>3. lijst' = lijst - (IF IsEmitter(Top) THEN 1 ELSE 0)
    BY <1>1 DEF IsEmitter, ReadBufLine, IInv, TypeOK
  <2> QED
    BY <1>1, <2>1, <2>2, <2>3, PopStep DEF ReadBufLine
<1> QED
  BY <1>3, <1>4

LEMMA ReadLineStep == ASSUME IInv, ReadLine PROVE IInv'
<1>1. stack # << >> /\ Top.k = "if" /\ line = None
  BY DEF ReadLine, TopIs
<1>2. CASE Source # << >>
  <2>1. Source \in Seq(Lines) /\ IsRunning
    BY <1>1, <1>2, SourceType
  <2>2. Head(Source) \in Lines /\ Tail(Source) \in Seq(Lines)
    BY <1>2, <2>1, HeadTailProperties
  <2>3. MoveSource(Tail(Source)) /\ line' = Head(Source)
    BY <1>2 DEF ReadLine
  <2>4. /\ stack' \in Seq(Frames) /\ lijstp' \in Seq(Lines)
        /\ Alike(stack, stack') /\ IfsKept(stack, stack')
    BY <1>1, <2>2, <2>3, MoveSourceFacts
  <2>5. TypeOK'
    BY <2>2, <2>3, <2>4 DEF ReadLine, IInv, TypeOK
  <2>6. NextLineIsDue
    BY <1>1, <2>1 DEF NextLineIsDue, ReadLine
  <2> QED
    BY <1>2, <2>4, <2>5, <2>6, MoveStep DEF ReadLine
<1>3. CASE Source = << >>
  <2>1. stack' = Pop(stack) /\ line' = None /\ errors \subseteq errors' /\ lijstp' = lijstp
    BY <1>1, <1>3 DEF ReadLine, Show
  <2>2. TypeOK'
    BY <1>1, <2>1, PopRest DEF ReadLine, IInv, TypeOK
  <2>3. lijst' = lijst - (IF IsEmitter(Top) THEN 1 ELSE 0)
    <3>1. lijst' = lijst /\ lijst \in Nat
      BY DEF ReadLine, IInv, TypeOK
    <3> QED
      BY <1>1, <3>1 DEF IsEmitter
  <2> QED
    BY <1>1, <2>1, <2>2, <2>3, PopStep DEF ReadLine
<1> QED
  BY <1>2, <1>3

\* Leaving dirEDUP takes the innermost entry, which is its own one or one above.
LEMMA EndRepeatStep ==
  ASSUME IInv, TopIs("dup"), line = None, NEW kinds, EndRepeat(kinds),
         UNCHANGED <<macros, IsRunning, phase, out, prog>>
  PROVE  IInv'
<1>1. stack # << >> /\ Top.k = "dup" /\ Top \in DupFrames /\ Top = stack[Len(stack)]
  BY TopFacts DEF TopIs, IInv
<1> DEFINE n == Len(stack)
<1>2. n \in Nat \ {0} /\ Top.entry \in 1 .. Len(RepeatStack)
  BY <1>1, EmptySeq DEF IInv, TypeOK, DupFramesLive
<1>3. RepeatStack # << >> /\ Len(RepeatStack) \in Nat
  BY <1>2 DEF IInv, TypeOK
<1>4. /\ RepeatStack' \in Seq(Entries) /\ Len(RepeatStack') = Len(RepeatStack) - 1
      /\ \A i \in 1 .. Len(RepeatStack) - 1 : RepeatStack'[i] = RepeatStack[i]
  BY <1>3, PopFacts DEF EndRepeat, IInv, TypeOK
<1>5. /\ stack' = Pop(stack) /\ lijstp' = Top.saved /\ lijst' = lijst - 1 /\ line' = None
      /\ errors \subseteq errors'
  BY DEF EndRepeat, Show
<1>6. stack' \in Seq(Frames) /\ FileBelow' /\ BranchTaken' /\ OnlyMacrosReadOn'
  BY <1>1, <1>5, PopRest
<1>7. LijstIsBalanced' /\ lijst' \in Nat
  <2>1. Cardinality(Emitters(stack')) = Cardinality(Emitters(stack)) - 1
    BY <1>1, <1>5, EmittersPop DEF IInv, TypeOK, IsEmitter, Top
  <2>2. Cardinality(Emitters(stack')) \in Nat
    BY <1>6, EmittersFinite
  <2> QED
    BY <1>5, <2>1, <2>2 DEF LijstIsBalanced, IInv
<1>8. TypeOK'
  BY <1>1, <1>4, <1>5, <1>6, <1>7 DEF IInv, TypeOK, DupFrames
<1>9. DupFramesLive'
  <2>1. Len(stack') = n - 1 /\ \A i \in 1 .. n - 1 : stack'[i] = stack[i]
    BY <1>1, <1>5, PopFacts DEF IInv, TypeOK
  <2> SUFFICES ASSUME NEW i \in 1 .. n - 1, stack[i].k = "dup"
               PROVE  /\ stack[i].entry \in 1 .. Len(RepeatStack')
                      /\ RepeatStack'[stack[i].entry].IsInWork
                      /\ \A j \in 1 .. i - 1 : stack[j].k = "dup" => stack[j].entry < stack[i].entry
    <3>1. \A i \in 1 .. n - 1 : \A j \in 1 .. i - 1 : j \in 1 .. n - 1
      BY <1>2
    <3> QED
      BY <2>1, <3>1 DEF DupFramesLive
  <2>2. i \in 1 .. n /\ n \in 1 .. n /\ i \in 1 .. n - 1
    BY <1>2
  <2>3. stack[i].entry \in 1 .. Len(RepeatStack) /\ stack[i].entry < Top.entry
    BY <1>1, <2>2 DEF IInv, DupFramesLive
  <2>4. stack[i].entry \in 1 .. Len(RepeatStack) - 1
    BY <2>3, <1>2, <1>3
  <2> QED
    BY <1>4, <2>2, <2>4 DEF IInv, DupFramesLive
<1>10. OnlyTopCollects'
  BY <1>3, <1>4 DEF IInv, OnlyTopCollects
<1>11. IterationsAreCounted'
  <2>1. \A i \in 1 .. Len(RepeatStack') : i \in 1 .. Len(RepeatStack) /\ RepeatStack'[i] = RepeatStack[i]
    BY <1>3, <1>4
  <2>2. IterationsAreCounted
    BY DEF IInv
  <2> QED
    BY <1>5, <2>1, <2>2 DEF IterationsAreCounted
<1> QED
  BY <1>6, <1>7, <1>8, <1>9, <1>10, <1>11 DEF IInv

\* A step that changes one entry of RepeatStack and no frame.
LEMMA EntryStep ==
  ASSUME IInv, TypeOK', stack' = stack, lijst' = lijst, NextLineIsDue,
         NEW i \in 1 .. Len(RepeatStack), NEW e \in Entries,
         RepeatStack' = [RepeatStack EXCEPT ![i] = e],
         RepeatStack[i].IsInWork => e.IsInWork, errors \subseteq errors',
         e.runs + e.RepeatCount <= e.limit,
         e.runs + e.RepeatCount = e.limit \/ "not nested completely" \in errors'
  PROVE  IInv'
<1>1. /\ Len(RepeatStack') = Len(RepeatStack) /\ RepeatStack'[i] = e
      /\ \A j \in 1 .. Len(RepeatStack) : j # i => RepeatStack'[j] = RepeatStack[j]
  <2>1. RepeatStack \in Seq(Entries)
    BY DEF IInv, TypeOK
  <2> QED
    BY ONLY <2>1, i \in 1 .. Len(RepeatStack), e \in Entries,
       RepeatStack' = [RepeatStack EXCEPT ![i] = e], ReplaceFacts
<1>2. SameRepeats
  BY <1>1 DEF SameRepeats
<1>3. IterationsAreCounted'
  BY <1>1 DEF IInv, IterationsAreCounted
<1>4. Alike(stack, stack') /\ IfsKept(stack, stack')
  BY SameStackFacts DEF IInv
<1>5. BranchTaken'
  BY <1>4, IfsKeptBranch
<1> QED
  BY <1>2, <1>3, <1>4, <1>5, AlikeStep

\* lijstp gives the next line of a macro or a repeated block.
LEMMA NextLineStep ==
  ASSUME IInv, NextLine, stack # << >>, lijstp # << >>, IsRunning \/ InMacro,
         UNCHANGED <<macros, IsRunning, phase, out, prog>>
  PROVE  IInv'
<1>1. Head(lijstp) \in Lines /\ Tail(lijstp) \in Seq(Lines)
  BY HeadTailProperties DEF IInv, TypeOK
<1>2. TypeOK'
  BY <1>1 DEF NextLine, IInv, TypeOK
<1>3. NextLineIsDue
  BY DEF NextLineIsDue
<1> QED
  BY <1>2, <1>3, SameStackFacts, MoveStep DEF NextLine, IInv

LEMMA RepeatStep ==
  ASSUME IInv, TopIs("dup"), Repeat, line = None, dup.RepeatCount > 0,
         UNCHANGED <<macros, IsRunning, phase, out, prog>>
  PROVE  IInv'
<1>1. stack # << >> /\ Top.k = "dup" /\ Top \in DupFrames /\ Top = stack[Len(stack)]
  BY TopFacts DEF TopIs, IInv
<1>2. Len(stack) \in Nat \ {0} /\ Top.entry \in 1 .. Len(RepeatStack)
  BY <1>1, EmptySeq DEF IInv, TypeOK, DupFramesLive
<1> DEFINE e == [dup EXCEPT !.RepeatCount = @ - 1, !.runs = @ + 1]
<1>3. dup \in Entries
  BY <1>2 DEF IInv, TypeOK, dup
<1>4. /\ e \in Entries /\ e.runs = dup.runs + 1 /\ e.RepeatCount = dup.RepeatCount - 1
      /\ e.limit = dup.limit /\ e.IsInWork = dup.IsInWork
  <2>1. dup.RepeatCount \in Nat /\ dup.runs \in Nat
    BY <1>3 DEF Entries
  <2>2. dup.RepeatCount - 1 \in Nat /\ dup.runs + 1 \in Nat
    BY <2>1
  <2> QED
    BY ONLY <1>3, <2>2 DEF Entries
<1>5. RepeatStack' = [RepeatStack EXCEPT ![Top.entry] = e]
  BY DEF Repeat, dup
<1>6. RepeatStack' \in Seq(Entries)
  BY <1>2, <1>4, <1>5, ExceptSeq DEF IInv, TypeOK
<1>7. TypeOK'
  BY <1>3, <1>6 DEF Repeat, IInv, TypeOK, Entries
<1>8. dup.runs + dup.RepeatCount = e.runs + e.RepeatCount
  <2>1. dup.runs \in Nat /\ dup.RepeatCount \in Nat
    BY <1>3 DEF Entries
  <2> HIDE DEF e
  <2> QED
    BY <1>4, <2>1
<1>9. /\ dup.runs + dup.RepeatCount <= dup.limit
      /\ dup.runs + dup.RepeatCount = dup.limit \/ "not nested completely" \in errors
  BY <1>2 DEF IInv, IterationsAreCounted, dup
<1>10. NextLineIsDue
  BY DEF NextLineIsDue, Repeat
<1> HIDE DEF e
<1> QED
  BY <1>2, <1>4, <1>5, <1>7, <1>8, <1>9, <1>10, EntryStep DEF Repeat, dup

LEMMA EmitDupStep == ASSUME IInv, EmitDup PROVE IInv'
<1>1. stack # << >> /\ line = None /\ TopIs("dup")
  BY DEF EmitDup, TopIs
<1>2. ASSUME lijstp # << >>, IsRunning, NextLine PROVE IInv'
  BY <1>1, <1>2, NextLineStep DEF EmitDup
<1>3. ASSUME shouldRepeat PROVE IInv'
  <2>1. ASSUME NEW kinds, EndRepeat(kinds) PROVE IInv'
    BY <1>1, <2>1, EndRepeatStep DEF EmitDup
  <2>2. ASSUME Repeat, ~(dup.RepeatCount <= 0) PROVE IInv'
    <3>1. dup.RepeatCount > 0
      <4>1. Top.entry \in 1 .. Len(RepeatStack)
        BY <1>1, TopFacts DEF TopIs, IInv, DupFramesLive
      <4>2. dup \in Entries
        BY <4>1 DEF dup, IInv, TypeOK
      <4>3. dup.RepeatCount \in Nat
        BY <4>2 DEF Entries
      <4> QED
        BY <2>2, <4>3
    <3> QED
      BY <1>1, <2>2, <3>1, RepeatStep DEF EmitDup
  <2> QED
    BY <1>3, <2>1, <2>2 DEF shouldRepeat
<1>4. ASSUME EndRepeat({}) PROVE IInv'
  BY <1>1, <1>4, EndRepeatStep DEF EmitDup
<1> QED
  BY <1>2, <1>3, <1>4 DEF EmitDup

LEMMA EmitMacroStep == ASSUME IInv, EmitMacro PROVE IInv'
<1>1. stack # << >> /\ Top.k = "macro" /\ Top \in MacroFrames /\ line = None
  BY TopFacts DEF EmitMacro, TopIs, IInv
<1>2. CASE lijstp # << >>
  <2>1. InMacro
    BY <1>1, TopFacts DEF InMacro, IInv
  <2> QED
    BY <1>1, <1>2, <2>1, NextLineStep DEF EmitMacro
<1>3. CASE lijstp = << >>
  <2>1. /\ stack' = Pop(stack) /\ lijstp' = Top.saved /\ lijst' = lijst - 1
        /\ RepeatStack' = RepeatStack /\ line' = None /\ errors' = errors
    BY <1>1, <1>3 DEF EmitMacro
  <2>2. lijst' \in Nat
    <3>1. Cardinality(Emitters(stack')) = Cardinality(Emitters(stack)) - 1
      BY <1>1, <2>1, EmittersPop DEF IInv, TypeOK, IsEmitter, Top
    <3>2. Cardinality(Emitters(stack')) \in Nat
      BY <1>1, <2>1, PopRest, EmittersFinite
    <3> QED
      BY <2>1, <3>1, <3>2 DEF LijstIsBalanced, IInv
  <2>3. TypeOK'
    BY <1>1, <2>1, <2>2, PopRest DEF EmitMacro, IInv, TypeOK, MacroFrames
  <2>4. lijst' = lijst - (IF IsEmitter(Top) THEN 1 ELSE 0)
    BY <1>1, <2>1 DEF IsEmitter
  <2> QED
    BY <1>1, <2>1, <2>3, <2>4, PopStep
<1> QED
  BY <1>2, <1>3

----------------------------------------------------------------------------
(* Conditional blocks *)

\* The innermost conditional block gets another state.
LEMMA SetIfStep ==
  ASSUME IInv, TopIs("if"), NEW f \in IfFrames, f.val => f.orVal,
         stack' = [stack EXCEPT ![Len(stack)] = f], errors \subseteq errors', line' = None,
         UNCHANGED <<lijst, lijstp, RepeatStack, macros, IsRunning, phase, out, prog>>
  PROVE  IInv'
<1>1. /\ Len(stack) \in 1 .. Len(stack) /\ Len(stack) \in Nat /\ stack[Len(stack)].k = "if"
      /\ stack \in Seq(Frames)
  BY TopFacts DEF TopIs, IInv, TypeOK
<1>2. f \in Frames /\ f.k = "if"
  BY DEF Frames, IfFrames
<1>3. /\ stack' \in Seq(Frames) /\ Len(stack') = Len(stack) /\ stack'[Len(stack)] = f
      /\ \A j \in 1 .. Len(stack) : j # Len(stack) => stack'[j] = stack[j]
  BY ONLY <1>1, <1>2, stack' = [stack EXCEPT ![Len(stack)] = f], ReplaceFacts
<1>4. TypeOK'
  BY <1>3 DEF IInv, TypeOK
<1>5. Alike(stack, stack')
  BY <1>1, <1>2, <1>3 DEF Alike
<1>6. BranchTaken'
  BY <1>1, <1>3 DEF IInv, BranchTaken
<1>7. NextLineIsDue
  BY DEF NextLineIsDue
<1> QED
  BY <1>4, <1>5, <1>6, <1>7, SameIterations, AlikeStep

LEMMA PopIfStep ==
  ASSUME IInv, TopIs("if"), stack' = Pop(stack), errors \subseteq errors', line' = None,
         UNCHANGED <<lijst, lijstp, RepeatStack, macros, IsRunning, phase, out, prog>>
  PROVE  IInv'
<1>1. stack # << >> /\ Top.k = "if"
  BY DEF TopIs
<1>2. TypeOK'
  BY <1>1, PopRest DEF IInv, TypeOK
<1>3. lijst' = lijst - (IF IsEmitter(Top) THEN 1 ELSE 0)
  <2>1. lijst' = lijst /\ lijst \in Nat
    BY DEF IInv, TypeOK
  <2> QED
    BY <1>1, <2>1 DEF IsEmitter
<1> QED
  BY <1>1, <1>2, <1>3, PopStep

LEMMA EndOfBranchStep ==
  ASSUME IInv, TopIs("if"), EndOfBranch, line.op \in IfKeyword, line' = None,
         UNCHANGED <<lijst, lijstp, RepeatStack, macros, IsRunning, phase, out, prog>>
  PROVE  IInv'
<1>1. Top.val \in BOOLEAN /\ Top.orVal \in BOOLEAN /\ Top.seenElse \in BOOLEAN
  BY TopFacts DEF TopIs, IInv, IfFrames
<1>2. ASSUME NEW v \in BOOLEAN, NEW o \in BOOLEAN, NEW e \in BOOLEAN, SetIf(v, o, e),
             errors \subseteq errors'
      PROVE  IInv'
  <2> DEFINE f == [k |-> "if", val |-> v, orVal |-> o \/ v, seenElse |-> e, iflevel |-> 0]
  <2>1. f \in IfFrames /\ (f.val => f.orVal)
    BY DEF IfFrames
  <2>2. stack' = [stack EXCEPT ![Len(stack)] = f]
    BY <1>2 DEF SetIf
  <2> HIDE DEF f
  <2> QED
    BY <1>2, <2>1, <2>2, SetIfStep
<1>3. CASE line.op = "ENDIF"
  <2>1. stack' = Pop(stack) /\ errors' = errors
    BY <1>3 DEF EndOfBranch
  <2> QED
    BY <2>1, PopIfStep
<1>4. CASE line.op = "ELSE"
  <2>1. SetIf(~Top.val /\ ~Top.orVal, Top.orVal, TRUE) /\ errors \subseteq errors'
    BY <1>4 DEF EndOfBranch, Show
  <2> QED
    BY <1>1, <1>2, <2>1
<1>5. CASE line.op = "ELSEIF"
  <2> DEFINE free == ~Top.val /\ ~Top.orVal
  <2>1. /\ SetIf(free /\ line.cond = "yes", Top.orVal \/ (free /\ line.cond = "bad"), Top.seenElse)
        /\ errors \subseteq errors'
    BY <1>5 DEF EndOfBranch, Show
  <2>2. (free /\ line.cond = "yes") \in BOOLEAN /\ (Top.orVal \/ (free /\ line.cond = "bad")) \in BOOLEAN
    BY <1>1
  <2> QED
    BY <1>1, <1>2, <2>1, <2>2
<1> QED
  BY <1>3, <1>4, <1>5 DEF IfKeyword

LEMMA IfBranchStep == ASSUME IInv, IfBranch PROVE IInv'
BY EndOfBranchStep DEF IfBranch

\* A line that changes no block: at most a reading position and the errors.
LEMMA MovingStep ==
  ASSUME IInv, line # None, NEW r \in Seq(Lines), MoveSource(r), errors \subseteq errors', line' = None,
         UNCHANGED <<lijst, RepeatStack, macros, IsRunning, phase, prog>>
  PROVE  IInv'
<1>1. stack # << >>
  BY LineFacts
<1>2. /\ stack' \in Seq(Frames) /\ lijstp' \in Seq(Lines)
      /\ Alike(stack, stack') /\ IfsKept(stack, stack')
  BY <1>1, MoveSourceFacts
<1>3. TypeOK'
  BY <1>2 DEF IInv, TypeOK
<1>4. NextLineIsDue
  BY DEF NextLineIsDue
<1> QED
  BY <1>2, <1>3, <1>4, MoveStep

LEMMA QuietStep ==
  ASSUME IInv, errors \subseteq errors', line' = None,
         UNCHANGED <<stack, lijst, lijstp, RepeatStack, macros, prog>>,
         IsRunning' \in BOOLEAN, phase' \in {"work", "exit", "crash"}
  PROVE  IInv'
<1>1. TypeOK'
  BY DEF IInv, TypeOK
<1>2. NextLineIsDue
  BY DEF NextLineIsDue
<1> QED
  BY <1>1, <1>2, SameStackFacts, MoveStep DEF IInv

LEMMA SkipFileStep == ASSUME IInv, SkipFile PROVE IInv'
<1>1. /\ TopIs("if") /\ line # None /\ line' = None
      /\ UNCHANGED <<lijst, RepeatStack, macros, IsRunning, phase, out, prog>>
  BY DEF SkipFile
<1>2. Top \in IfFrames /\ Top = stack[Len(stack)] /\ stack # << >>
  BY <1>1, TopFacts DEF TopIs, IInv
<1>3. /\ Top.val \in BOOLEAN /\ Top.orVal \in BOOLEAN /\ Top.seenElse \in BOOLEAN /\ Top.iflevel \in Nat
      /\ Top.val => Top.orVal
  BY <1>2, TopFacts DEF IfFrames, IInv, BranchTaken
<1>4. ASSUME NEW n \in Nat,
             stack' = [stack EXCEPT ![Len(stack)].iflevel = n], UNCHANGED <<lijstp, errors>>
      PROVE  IInv'
  <2> DEFINE f == [Top EXCEPT !.iflevel = n]
  <2>1. f \in IfFrames /\ (f.val => f.orVal)
    BY <1>2, <1>3, <1>4 DEF IfFrames
  <2>2. stack' = [stack EXCEPT ![Len(stack)] = f]
    BY <1>2, <1>4
  <2> HIDE DEF f
  <2> QED
    BY <1>1, <1>4, <2>1, <2>2, SetIfStep
<1>5. CASE line.op = "IF"
  <2>1. stack' = [stack EXCEPT ![Len(stack)].iflevel = Top.iflevel + 1] /\ UNCHANGED <<lijstp, errors>>
    BY <1>2, <1>5 DEF SkipFile
  <2>2. Top.iflevel + 1 \in Nat
    BY <1>3
  <2> QED
    BY <1>4, <2>1, <2>2
<1>6. CASE line.op = "ENDIF" /\ Top.iflevel > 0
  <2>1. stack' = [stack EXCEPT ![Len(stack)].iflevel = Top.iflevel + (-1)] /\ UNCHANGED <<lijstp, errors>>
    BY <1>2, <1>6 DEF SkipFile
  <2>2. Top.iflevel + (-1) \in Nat
    BY <1>3, <1>6
  <2> QED
    BY <1>4, <2>1, <2>2
<1>7. CASE line.op \in IfKeyword /\ Top.iflevel = 0
  <2>1. EndOfBranch /\ UNCHANGED lijstp
    BY <1>7 DEF SkipFile, IfKeyword
  <2> QED
    BY <1>1, <1>7, <2>1, EndOfBranchStep
<1>8. CASE line.op = "LUA"
  <2>1. MoveSource(After(Source, "ENDLUA")) /\ UNCHANGED errors
    BY <1>8 DEF SkipFile, IfKeyword
  <2>2. After(Source, "ENDLUA") \in Seq(Lines)
    BY <1>2, SourceType, BeforeAfterType
  <2> QED
    BY <1>1, <2>1, <2>2, MovingStep
<1>9. CASE /\ line.op # "IF" /\ ~(line.op = "ENDIF" /\ Top.iflevel > 0)
           /\ ~(line.op \in IfKeyword /\ Top.iflevel = 0) /\ line.op # "LUA"
  <2>1. UNCHANGED <<stack, lijstp, errors>>
    BY <1>9 DEF SkipFile
  <2>2. IsRunning' \in BOOLEAN /\ phase' \in {"work", "exit", "crash"}
    BY <1>1 DEF IInv, TypeOK
  <2> QED
    BY <1>1, <2>1, <2>2, QuietStep
<1> QED
  BY <1>5, <1>6, <1>7, <1>8, <1>9

----------------------------------------------------------------------------
(* Parsing *)

LEMMA CollectStep == ASSUME IInv, Collect PROVE IInv'
<1> DEFINE n == Len(RepeatStack)
           entry == RepeatStack[n]
           Opens == line.op \in {"DUP", "WHILE"}
           Closes == line.op \in {"EDUP", "ENDM"}
<1>1. /\ line \in Lines /\ stack # << >> /\ Len(stack) \in Nat \ {0} /\ line' = None
      /\ UNCHANGED <<macros, IsRunning, phase, errors, out, prog>>
  BY LineFacts DEF Collect
<1>2. n \in Nat \ {0} /\ n \in 1 .. n /\ entry \in Entries /\ ~entry.IsInWork /\ RepeatStack \in Seq(Entries)
  <2>1. RepeatStack # << >> /\ ~Last(RepeatStack).IsInWork /\ RepeatStack \in Seq(Entries)
    BY DEF Collect, Collecting, IInv, TypeOK
  <2>2. n \in Nat \ {0}
    BY <2>1, EmptySeq
  <2> QED
    BY <2>1, <2>2 DEF Last
<1>3. /\ entry.Level \in Nat /\ entry.Lines \in Seq(Lines)
      /\ entry.runs + entry.RepeatCount <= entry.limit
      /\ entry.runs + entry.RepeatCount = entry.limit \/ "not nested completely" \in errors
  BY <1>2 DEF Entries, IInv, IterationsAreCounted
<1>4. CASE Closes /\ entry.Level = 0
  <2> DEFINE e == [entry EXCEPT !.IsInWork = TRUE]
             f == [k |-> "dup", saved |-> lijstp, entry |-> n]
  <2>1. /\ RepeatStack' = [RepeatStack EXCEPT ![n] = e] /\ stack' = Append(stack, f)
        /\ lijst' = lijst + 1 /\ lijstp' = << >>
    BY <1>4 DEF Collect, CollectLine, Last
  <2>2. /\ e \in Entries /\ e.IsInWork /\ e.runs = entry.runs
        /\ e.RepeatCount = entry.RepeatCount /\ e.limit = entry.limit
    BY <1>2 DEF Entries
  <2>3. f \in Frames /\ f.k = "dup" /\ f.entry = n
    BY <1>2 DEF Frames, DupFrames, IInv, TypeOK
  <2> HIDE DEF e, f
  <2>4. /\ RepeatStack' \in Seq(Entries) /\ Len(RepeatStack') = n /\ RepeatStack'[n] = e
        /\ \A j \in 1 .. n : j # n => RepeatStack'[j] = RepeatStack[j]
    BY ONLY <1>2, <2>1, <2>2, ReplaceFacts
  <2>5. /\ stack \in Seq(Frames) /\ stack' \in Seq(Frames) /\ Len(stack') = Len(stack) + 1
        /\ stack'[Len(stack) + 1] = f /\ \A i \in 1 .. Len(stack) : stack'[i] = stack[i]
    BY <2>1, <2>3 DEF IInv, TypeOK
  <2>6. TypeOK'
    BY <1>1, <2>1, <2>4, <2>5 DEF IInv, TypeOK
  <2>7. FileBelow'
    BY <1>1, <2>5 DEF IInv, FileBelow
  <2>8. BranchTaken'
    BY <2>3, <2>5 DEF IInv, BranchTaken
  <2>9. DupFramesLive'
    <3>1. \A i \in 1 .. Len(stack) : stack[i].k = "dup" => stack[i].entry \in 1 .. n /\ stack[i].entry # n
      BY <1>2 DEF IInv, DupFramesLive
    <3>2. \A i \in 1 .. Len(stack) : stack[i].k = "dup" =>
            RepeatStack'[stack[i].entry].IsInWork /\ stack[i].entry < n
      BY <1>2, <2>4, <3>1 DEF IInv, DupFramesLive
    <3> SUFFICES ASSUME NEW i \in 1 .. Len(stack) + 1, stack'[i].k = "dup"
                 PROVE  /\ stack'[i].entry \in 1 .. n /\ RepeatStack'[stack'[i].entry].IsInWork
                        /\ \A j \in 1 .. i - 1 : stack'[j].k = "dup" => stack'[j].entry < stack'[i].entry
      BY <2>4, <2>5 DEF DupFramesLive
    <3>3. CASE i = Len(stack) + 1
      <4>1. \A j \in 1 .. i - 1 : j \in 1 .. Len(stack) /\ stack'[j] = stack[j]
        BY <1>1, <2>5, <3>3
      <4> QED
        BY <1>2, <2>2, <2>3, <2>4, <2>5, <3>2, <3>3, <4>1
    <3>4. CASE i # Len(stack) + 1
      <4>1. i \in 1 .. Len(stack) /\ stack'[i] = stack[i]
        BY <1>1, <2>5, <3>4
      <4>2. \A j \in 1 .. i - 1 : j \in 1 .. Len(stack) /\ stack'[j] = stack[j]
        BY <1>1, <2>5, <4>1
      <4> QED
        BY <3>1, <3>2, <4>1, <4>2 DEF IInv, DupFramesLive
    <3> QED
      BY <3>3, <3>4
  <2>10. OnlyTopCollects'
    BY <1>2, <2>4 DEF IInv, OnlyTopCollects
  <2>11. LijstIsBalanced'
    <3>1. Cardinality(Emitters(stack')) = Cardinality(Emitters(stack)) + 1
      BY <2>1, <2>3, <2>5, EmittersPush DEF IsEmitter
    <3> QED
      BY <2>1, <3>1 DEF LijstIsBalanced, IInv
  <2>12. IterationsAreCounted'
    <3> HIDE DEF entry
    <3>1. IterationsAreCounted /\ errors' = errors
      BY <1>1 DEF IInv
    <3>2. ASSUME NEW i \in 1 .. n
          PROVE  /\ RepeatStack'[i].runs + RepeatStack'[i].RepeatCount <= RepeatStack'[i].limit
                 /\ \/ RepeatStack'[i].runs + RepeatStack'[i].RepeatCount = RepeatStack'[i].limit
                    \/ "not nested completely" \in errors
      <4>1. CASE i = n
        BY <1>3, <2>2, <2>4, <4>1
      <4>2. CASE i # n
        BY <2>4, <3>1, <4>2 DEF IterationsAreCounted
      <4> QED
        BY <4>1, <4>2
    <3> QED
      BY <2>4, <3>1, <3>2 DEF IterationsAreCounted
  <2>13. OnlyMacrosReadOn'
    BY <1>1 DEF OnlyMacrosReadOn
  <2> QED
    BY <2>6, <2>7, <2>8, <2>9, <2>10, <2>11, <2>12, <2>13 DEF IInv
<1>5. CASE ~(Closes /\ entry.Level = 0)
  <2> DEFINE level == IF Opens THEN entry.Level + 1 ELSE IF Closes THEN entry.Level - 1 ELSE entry.Level
             e == [entry EXCEPT !.Lines = Append(entry.Lines, line), !.Level = level]
  <2>1. /\ RepeatStack' = [RepeatStack EXCEPT ![n] = e]
        /\ UNCHANGED <<stack, lijst, lijstp>>
    BY <1>5 DEF Collect, CollectLine, Last
  <2>2. level \in Nat
    <3>1. entry.Level \in Nat /\ (Closes => entry.Level # 0)
      BY <1>3, <1>5
    <3> HIDE DEF Opens, Closes, entry
    <3> QED
      BY ONLY <3>1
  <2>3. Append(entry.Lines, line) \in Seq(Lines)
    <3>1. entry.Lines \in Seq(Lines)
      BY <1>3
    <3> HIDE DEF entry
    <3> QED
      BY ONLY <1>1, <3>1, AppendProperties
  <2>4. /\ e \in Entries /\ e.IsInWork = entry.IsInWork /\ e.runs = entry.runs
        /\ e.RepeatCount = entry.RepeatCount /\ e.limit = entry.limit
    <3> HIDE DEF level
    <3> QED
      BY <1>2, <2>2, <2>3 DEF Entries
  <2> HIDE DEF e
  <2>5. RepeatStack' \in Seq(Entries)
    BY ONLY <1>2, <2>1, <2>4, ReplaceFacts
  <2>6. TypeOK'
    BY <1>1, <2>1, <2>5 DEF IInv, TypeOK
  <2>7. NextLineIsDue
    BY <1>1 DEF NextLineIsDue
  <2> QED
    BY <1>1, <1>2, <1>3, <2>1, <2>4, <2>6, <2>7, EntryStep
<1> QED
  BY <1>4, <1>5

\* What is known of a line that is parsed.
LEMMA AssemblingFacts ==
  ASSUME IInv, NEW ops, Assembling(ops)
  PROVE  /\ line # None /\ line \in Lines /\ line.op \in ops /\ line' = None /\ phase = "work"
         /\ stack # << >> /\ IsRunning \in BOOLEAN
BY LineFacts DEF Assembling, IInv, TypeOK

LEMMA OrdinaryStep == ASSUME IInv, Ordinary PROVE IInv'
BY AssemblingFacts, QuietStep DEF Ordinary, blocks

LEMMA dirIFStep == ASSUME IInv, dirIF PROVE IInv'
<1>1. stack # << >> /\ line' = None /\ phase = "work" /\ IsRunning \in BOOLEAN
  BY AssemblingFacts DEF dirIF
<1>2. CASE line.cond = "bad"
  BY <1>1, <1>2, QuietStep DEF dirIF, Show
<1>3. CASE line.cond # "bad"
  <2> DEFINE f == IfFrame(line.cond = "yes")
  <2>1. f \in Frames /\ f.k = "if" /\ (f.val => f.orVal)
    BY DEF IfFrame, Frames, IfFrames
  <2>2. stack' = Append(stack, f) /\ errors' = errors
    BY <1>3 DEF dirIF
  <2> HIDE DEF f
  <2>3. TypeOK'
    <3>1. stack \in Seq(Frames)
      BY DEF IInv, TypeOK
    <3>2. stack' \in Seq(Frames)
      BY ONLY <2>1, <2>2, <3>1, AppendProperties
    <3>3. UNCHANGED <<lijst, lijstp, RepeatStack, macros, IsRunning, phase, prog>>
      BY DEF dirIF
    <3> QED
      BY <1>1, <3>2, <3>3 DEF IInv, TypeOK
  <2>4. lijst' = lijst + (IF IsEmitter(f) THEN 1 ELSE 0)
    <3>1. lijst' = lijst /\ lijst \in Nat
      BY DEF dirIF, IInv, TypeOK
    <3> QED
      BY <2>1, <3>1 DEF IsEmitter
  <2> QED
    BY <1>1, <2>1, <2>2, <2>3, <2>4, PushStep DEF dirIF
<1> QED
  BY <1>2, <1>3

LEMMA StrayKeywordStep == ASSUME IInv, StrayKeyword PROVE IInv'
<1>1. stack # << >> /\ line' = None /\ phase = "work" /\ IsRunning \in BOOLEAN
  BY AssemblingFacts DEF StrayKeyword
<1>2. CASE RepeatStack = << >>
  BY <1>1, <1>2, QuietStep DEF StrayKeyword, Show, blocks
<1>3. CASE RepeatStack # << >>
  <2> DEFINE n == Len(RepeatStack)
             e == [RepeatStack[n] EXCEPT !.RepeatCount = 0]
  <2>1. n \in 1 .. n /\ n \in Nat /\ RepeatStack[n] \in Entries /\ RepeatStack \in Seq(Entries)
    BY <1>3, EmptySeq DEF IInv, TypeOK
  <2>2. /\ RepeatStack' = [RepeatStack EXCEPT ![n] = e] /\ lijstp' = << >>
        /\ errors \subseteq errors' /\ "not nested completely" \in errors'
        /\ UNCHANGED <<stack, lijst, macros, IsRunning, phase, out, prog>>
    BY <1>3 DEF StrayKeyword, Show
  <2>3. /\ e \in Entries /\ e.IsInWork = RepeatStack[n].IsInWork
        /\ e.runs = RepeatStack[n].runs /\ e.limit = RepeatStack[n].limit /\ e.RepeatCount = 0
    BY <2>1 DEF Entries
  <2>4. e.runs + e.RepeatCount <= e.limit
    <3>1. /\ RepeatStack[n].runs \in Nat /\ RepeatStack[n].limit \in Nat
          /\ RepeatStack[n].RepeatCount \in Nat
      BY <2>1 DEF Entries
    <3>2. RepeatStack[n].runs + RepeatStack[n].RepeatCount <= RepeatStack[n].limit
      BY <2>1 DEF IInv, IterationsAreCounted
    <3> HIDE DEF e
    <3> QED
      BY <2>3, <3>1, <3>2
  <2> HIDE DEF e
  <2>5. RepeatStack' \in Seq(Entries)
    BY ONLY <2>1, <2>2, <2>3, ReplaceFacts
  <2>6. TypeOK'
    <3>1. lijstp' \in Seq(Lines)
      BY <2>2, EmptySeq
    <3>2. UNCHANGED <<stack, lijst, macros, IsRunning, phase, prog>>
      BY <2>2
    <3> QED
      BY ONLY <1>1, <2>5, <3>1, <3>2, IInv DEF IInv, TypeOK
  <2>7. NextLineIsDue
    BY <1>1 DEF NextLineIsDue
  <2> QED
    BY <2>1, <2>2, <2>3, <2>4, <2>6, <2>7, EntryStep
<1> QED
  BY <1>2, <1>3

\* A block that begins: its count or guardian is a natural number.
LEMMA GuardianIsNat == ASSUME NEW n \in Int PROVE GuardianOf(n) \in Nat
<1>1. IntWidth \in Nat /\ IntWidth > 0 /\ n + 1 \in Int
  BY FlowAssumption
<1>2. (n + 1) % IntWidth \in 0 .. IntWidth - 1
  BY <1>1
<1> QED
  BY <1>1, <1>2 DEF GuardianOf

LEMMA BlockBegins ==
  ASSUME IInv, dirDUP, ~(line.op = "DUP" /\ line.n < 0)
  PROVE  IInv'
<1>1. /\ stack # << >> /\ line' = None /\ line \in Lines /\ line.op \in {"DUP", "WHILE"}
      /\ ~Collecting
  BY AssemblingFacts DEF dirDUP, Assembling
<1>2. line.n \in Int
  BY <1>1, FlowAssumption
<1>3. PICK e \in Entries :
        RepeatStack' = Append(RepeatStack, e) /\ e.runs + e.RepeatCount = e.limit /\ e.limit \in Nat
  <2>1. ASSUME NEW c \in Nat, NEW w \in BOOLEAN
        PROVE  /\ Entry(c, w) \in Entries /\ Entry(c, w).runs + Entry(c, w).RepeatCount = Entry(c, w).limit
               /\ Entry(c, w).limit \in Nat
    BY DEF Entry, Entries
  <2>2. GuardianOf(line.n) \in Nat
    BY <1>2, GuardianIsNat
  <2>3. CASE line.op = "DUP"
    <3>1. RepeatStack' = Append(RepeatStack, Entry(line.n, FALSE)) /\ line.n >= 0
      BY <2>3 DEF dirDUP
    <3>2. line.n \in Nat
      BY <1>2, <3>1
    <3> QED
      BY <2>1, <3>1, <3>2
  <2>4. CASE line.op = "WHILE"
    <3>1. RepeatStack' = Append(RepeatStack, Entry(GuardianOf(line.n), TRUE))
      BY <2>4 DEF dirDUP
    <3> QED
      BY <2>1, <2>2, <3>1
  <2> QED
    BY <1>1, <2>3, <2>4
<1> DEFINE n == Len(RepeatStack)
<1>4. /\ RepeatStack \in Seq(Entries) /\ n \in Nat /\ RepeatStack' \in Seq(Entries)
      /\ Len(RepeatStack') = n + 1 /\ RepeatStack'[n + 1] = e
      /\ \A j \in 1 .. n : RepeatStack'[j] = RepeatStack[j]
  BY <1>3 DEF IInv, TypeOK
<1>5. UNCHANGED <<stack, lijst, lijstp, macros, IsRunning, phase, errors, out, prog>>
  <2>1. (line.op = "DUP" /\ line.n >= 0) \/ line.op = "WHILE"
    BY <1>1, <1>2
  <2> QED
    BY <2>1 DEF dirDUP
<1>6. TypeOK'
  BY <1>1, <1>4, <1>5 DEF IInv, TypeOK
<1>7. FileBelow' /\ BranchTaken' /\ LijstIsBalanced'
  BY <1>1, <1>5 DEF IInv, FileBelow, BranchTaken, LijstIsBalanced, Emitters
<1>8. OnlyMacrosReadOn'
  BY <1>1 DEF OnlyMacrosReadOn
<1>9. \A j \in 1 .. n : RepeatStack[j].IsInWork
  <2>1. n # 0 => RepeatStack[n].IsInWork
    BY <1>1, <1>4, EmptySeq DEF Collecting, Last
  <2> QED
    BY <1>4, <2>1 DEF IInv, OnlyTopCollects
<1>10. OnlyTopCollects'
  BY <1>4, <1>9 DEF OnlyTopCollects
<1>11. DupFramesLive'
  <2>1. \A j \in 1 .. n : j \in 1 .. n + 1 /\ RepeatStack'[j].IsInWork
    BY <1>4, <1>9
  <2> QED
    BY <1>4, <1>5, <2>1 DEF IInv, DupFramesLive
<1>12. IterationsAreCounted'
  <2>1. ASSUME NEW i \in 1 .. n + 1
        PROVE  /\ RepeatStack'[i].runs + RepeatStack'[i].RepeatCount <= RepeatStack'[i].limit
               /\ \/ RepeatStack'[i].runs + RepeatStack'[i].RepeatCount = RepeatStack'[i].limit
                  \/ "not nested completely" \in errors
    <3>1. CASE i = n + 1
      <4>1. RepeatStack'[i] = e
        BY <1>4, <3>1
      <4>2. e.runs + e.RepeatCount = e.limit /\ e.limit <= e.limit
        BY <1>3
      <4> QED
        BY ONLY <4>1, <4>2
    <3>2. CASE i # n + 1
      <4>1. i \in 1 .. n /\ RepeatStack'[i] = RepeatStack[i]
        BY <1>4, <3>2
      <4> QED
        BY <4>1 DEF IInv, IterationsAreCounted
    <3> QED
      BY <3>1, <3>2
  <2> QED
    BY <1>4, <1>5, <2>1 DEF IterationsAreCounted
<1> QED
  BY <1>6, <1>7, <1>8, <1>10, <1>11, <1>12 DEF IInv

LEMMA dirDUPStep == ASSUME IInv, dirDUP PROVE IInv'
<1>1. CASE line.op = "DUP" /\ line.n < 0
  <2>1. RepeatStack' = RepeatStack /\ errors \subseteq errors'
    <3>1. line \in Lines /\ line.op = "DUP"
      BY <1>1, AssemblingFacts DEF dirDUP
    <3>2. line.n \in Int
      BY <3>1, FlowAssumption
    <3>3. ~(line.n >= 0)
      BY <1>1, <3>2
    <3> QED
      BY <1>1, <3>3 DEF dirDUP, Show
  <2> QED
    BY <2>1, AssemblingFacts, QuietStep DEF dirDUP
<1>2. CASE ~(line.op = "DUP" /\ line.n < 0)
  BY <1>2, BlockBegins
<1> QED
  BY <1>1, <1>2

LEMMA StrayEndStep == ASSUME IInv, StrayEnd PROVE IInv'
BY AssemblingFacts, QuietStep DEF StrayEnd, blocks, Show

LEMMA dirMACROStep == ASSUME IInv, dirMACRO PROVE IInv'
<1>1. /\ stack # << >> /\ line' = None /\ phase = "work" /\ IsRunning \in BOOLEAN
      /\ line \in Lines /\ line.op = "MACRO"
  <2>1. Assembling({"MACRO"})
    BY DEF dirMACRO
  <2> QED
    BY <2>1, AssemblingFacts
<1>2. CASE lijst > 0 \/ line.name \in DOMAIN macros
  <2>1. errors \subseteq errors' /\ UNCHANGED <<stack, macros>>
    BY <1>2 DEF dirMACRO, AddMacro, Show
  <2> QED
    BY <1>1, <2>1, QuietStep DEF dirMACRO
<1>3. CASE ~(lijst > 0) /\ line.name \notin DOMAIN macros
  <2> DEFINE text == stack[FileFrame].rest
             M == [n \in DOMAIN macros \cup {line.name} |->
                     IF n = line.name THEN Before(text, "ENDM") ELSE macros[n]]
  <2>1. /\ macros' = M /\ stack' = [stack EXCEPT ![FileFrame].rest = After(text, "ENDM")]
        /\ errors \subseteq errors'
    BY <1>3 DEF dirMACRO, AddMacro, Show
  <2>2. text \in Seq(Lines) /\ FileFrame \in 1 .. Len(stack) /\ stack[FileFrame] \in FileFrames /\ TypeOK
    BY <1>1, SourceType DEF FileFrames, IInv
  <2>3. After(text, "ENDM") \in Seq(Lines) /\ Before(text, "ENDM") \in Seq(Lines)
    <3> HIDE DEF text
    <3> QED
      BY <2>2, BeforeAfterType
  <2>4. stack' \in Seq(Frames) /\ Alike(stack, stack') /\ IfsKept(stack, stack')
    BY <2>1, <2>2, <2>3, MoveFileFrame
  <2>5. DOMAIN macros' \subseteq Names /\ macros' \in [DOMAIN macros' -> Seq(Lines)]
    <3>1. line.name \in Names
      BY <1>1, FlowAssumption
    <3>2. DOMAIN macros \subseteq Names /\ \A n \in DOMAIN macros : macros[n] \in Seq(Lines)
      BY DEF IInv, TypeOK
    <3> HIDE DEF text
    <3>3. DOMAIN M = DOMAIN macros \cup {line.name} /\ M \in [DOMAIN macros \cup {line.name} -> Seq(Lines)]
      BY <2>3, <3>2
    <3> QED
      BY <2>1, <3>1, <3>2, <3>3
  <2>6. TypeOK'
    BY <1>1, <2>4, <2>5 DEF dirMACRO, IInv, TypeOK
  <2>7. NextLineIsDue
    BY <1>1 DEF NextLineIsDue
  <2> QED
    BY <2>1, <2>4, <2>6, <2>7, MoveStep DEF dirMACRO
<1> QED
  BY <1>2, <1>3

LEMMA CallMacroStep == ASSUME IInv, CallMacro PROVE IInv'
<1>1. /\ stack # << >> /\ line' = None /\ phase = "work" /\ IsRunning \in BOOLEAN
      /\ UNCHANGED <<RepeatStack, macros, IsRunning, out, prog>>
  BY AssemblingFacts DEF CallMacro
<1>2. ASSUME errors \subseteq errors', UNCHANGED <<stack, lijst, lijstp>>,
             phase' \in {"work", "exit", "crash"}
      PROVE  IInv'
  BY <1>1, <1>2, QuietStep
<1>3. ASSUME line.name \in DOMAIN macros,
             stack' = Append(stack, [k |-> "macro", saved |-> lijstp]),
             lijst' = lijst + 1, lijstp' = macros[line.name], UNCHANGED <<errors, phase>>
      PROVE  IInv'
  <2> DEFINE f == [k |-> "macro", saved |-> lijstp]
  <2>1. f \in Frames /\ f.k = "macro"
    BY DEF Frames, MacroFrames, IInv, TypeOK
  <2>2. stack' = Append(stack, f) /\ lijstp' \in Seq(Lines)
    BY <1>3 DEF IInv, TypeOK
  <2> HIDE DEF f
  <2>3. TypeOK'
    BY <1>1, <1>3, <2>1, <2>2 DEF IInv, TypeOK
  <2>4. lijst' = lijst + (IF IsEmitter(f) THEN 1 ELSE 0)
    BY <1>3, <2>1 DEF IsEmitter
  <2> QED
    BY <1>1, <1>3, <2>1, <2>2, <2>3, <2>4, PushStep
<1> QED
  BY <1>1, <1>2, <1>3 DEF CallMacro, Show

LEMMA dirINCLUDEStep == ASSUME IInv, dirINCLUDE PROVE IInv'
<1>1. stack # << >> /\ line' = None /\ phase = "work" /\ IsRunning \in BOOLEAN
  BY AssemblingFacts DEF dirINCLUDE
<1>2. CASE IncludeLevel + 1 > MaxIncludeLevel
  BY <1>1, <1>2, QuietStep DEF dirINCLUDE, Show
<1>3. CASE ~(IncludeLevel + 1 > MaxIncludeLevel)
  <2> DEFINE f == [k |-> "file", rest |-> prog.inc]
  <2>1. f \in Frames /\ f.k = "file"
    BY FlowAssumption DEF Frames, FileFrames, IInv, TypeOK
  <2>2. stack' = Append(stack, f) /\ errors' = errors
    BY <1>3 DEF dirINCLUDE
  <2> HIDE DEF f
  <2>3. TypeOK'
    <3>1. stack \in Seq(Frames)
      BY DEF IInv, TypeOK
    <3>2. stack' \in Seq(Frames)
      BY ONLY <2>1, <2>2, <3>1, AppendProperties
    <3>3. UNCHANGED <<lijst, lijstp, RepeatStack, macros, IsRunning, phase, prog>>
      BY DEF dirINCLUDE
    <3> QED
      BY <1>1, <3>2, <3>3 DEF IInv, TypeOK
  <2>4. lijst' = lijst + (IF IsEmitter(f) THEN 1 ELSE 0)
    <3>1. lijst' = lijst /\ lijst \in Nat
      BY DEF dirINCLUDE, IInv, TypeOK
    <3> QED
      BY <2>1, <3>1 DEF IsEmitter
  <2> QED
    BY <1>1, <2>1, <2>2, <2>3, <2>4, PushStep DEF dirINCLUDE
<1> QED
  BY <1>2, <1>3

LEMMA dirLUAStep == ASSUME IInv, dirLUA PROVE IInv'
<1>1. stack # << >> /\ line # None /\ line' = None
  BY AssemblingFacts DEF dirLUA
<1>2. After(Source, "ENDLUA") \in Seq(Lines)
  BY <1>1, SourceType, BeforeAfterType
<1>3. /\ MoveSource(After(Source, "ENDLUA")) /\ errors \subseteq errors'
      /\ UNCHANGED <<lijst, RepeatStack, macros, IsRunning, phase, prog>>
  BY DEF dirLUA, Show
<1> QED
  BY <1>1, <1>2, <1>3, MovingStep

LEMMA dirENDStep == ASSUME IInv, dirEND PROVE IInv'
BY AssemblingFacts, QuietStep DEF dirEND, blocks

LEMMA EndOfPassStep == ASSUME IInv, EndOfPass PROVE IInv'
<1>1. /\ stack = << >> /\ line = None /\ line' = None /\ RepeatStack' = << >> /\ errors \subseteq errors'
      /\ UNCHANGED <<stack, lijst, lijstp, macros, IsRunning, prog>> /\ phase' = "exit"
  BY DEF EndOfPass, Show, IInv, FileBelow
<1>2. TypeOK'
  BY <1>1 DEF IInv, TypeOK
<1>3. FileBelow' /\ BranchTaken' /\ LijstIsBalanced' /\ OnlyMacrosReadOn'
  BY <1>1 DEF IInv, FileBelow, BranchTaken, LijstIsBalanced, Emitters, OnlyMacrosReadOn
<1>4. DupFramesLive' /\ OnlyTopCollects' /\ IterationsAreCounted'
  <2>1. 1 .. Len(stack') = {} /\ 1 .. Len(RepeatStack') = {} /\ 1 .. Len(RepeatStack') - 1 = {}
    BY <1>1
  <2> QED
    BY <2>1 DEF DupFramesLive, OnlyTopCollects, IterationsAreCounted
<1> QED
  BY <1>2, <1>3, <1>4 DEF IInv

----------------------------------------------------------------------------
(* The invariant *)

LEMMA InitIInv == ASSUME Init PROVE IInv
<1> DEFINE f == [k |-> "file", rest |-> prog.main]
<1>1. f \in Frames /\ f.k = "file" /\ prog \in Programs
  BY FlowAssumption DEF Init, Frames, FileFrames
<1>2. stack = <<f>> /\ RepeatStack = << >> /\ line = None
  BY DEF Init
<1> HIDE DEF f
<1>3. /\ stack \in Seq(Frames) /\ Len(stack) = 1 /\ stack[1] = f /\ stack # << >>
      /\ 1 .. Len(RepeatStack) = {} /\ 1 .. Len(RepeatStack) - 1 = {}
  BY <1>1, <1>2
<1>4. TypeOK
  <2>1. macros = << >> /\ DOMAIN macros = {} /\ macros \in [DOMAIN macros -> Seq(Lines)]
    BY DEF Init
  <2> QED
    BY <1>1, <1>2, <1>3, <2>1 DEF Init, TypeOK
<1>5. FileBelow /\ BranchTaken /\ OnlyMacrosReadOn
  BY <1>1, <1>2, <1>3 DEF FileBelow, BranchTaken, OnlyMacrosReadOn
<1>6. DupFramesLive /\ OnlyTopCollects /\ IterationsAreCounted
  <2>1. \A i \in 1 .. Len(stack) : stack[i].k # "dup"
    BY <1>1, <1>3
  <2> QED
    BY <1>3, <2>1 DEF DupFramesLive, OnlyTopCollects, IterationsAreCounted
<1>7. LijstIsBalanced
  <2>1. Emitters(stack) = {}
    BY <1>1, <1>3 DEF Emitters
  <2> QED
    BY <2>1, FS_EmptySet DEF LijstIsBalanced, Init
<1> QED
  BY <1>4, <1>5, <1>6, <1>7 DEF IInv

LEMMA StutterIInv == ASSUME IInv, UNCHANGED vars PROVE IInv'
BY DEF IInv, vars, blocks, TypeOK, FileBelow, BranchTaken, DupFramesLive, OnlyTopCollects,
   LijstIsBalanced, Emitters, IterationsAreCounted, OnlyMacrosReadOn, InMacro

LEMMA NextIInv == ASSUME IInv, [Next]_vars PROVE IInv'
<1>1. CASE ParseLine
  BY <1>1, CollectStep, OrdinaryStep, dirIFStep, StrayKeywordStep, dirDUPStep, StrayEndStep,
     dirMACROStep, CallMacroStep, dirINCLUDEStep, dirLUAStep, dirENDStep DEF ParseLine
<1>2. CASE Work
  BY <1>1, <1>2, ReadBufLineStep, ReadLineStep, EmitDupStep, EmitMacroStep, IfBranchStep,
     SkipFileStep, EndOfPassStep DEF Work
<1>3. CASE UNCHANGED vars
  BY <1>3, StutterIInv
<1> QED
  BY <1>2, <1>3 DEF Next, Done

\* However a source nests its files, conditional blocks, macros and repeated
\* blocks, well or badly: whenever one of the reading loops runs, lijst counts
\* the loops that read from lijstp, every running dirEDUP has its entry of
\* RepeatStack, only the innermost entry collects lines, iterations are
\* counted, and behind END only CMacroTable::Emit reads.
THEOREM SourceFlowInvariant == Spec => []IInv
BY InitIInv, NextIInv, PTL DEF Spec

----------------------------------------------------------------------------
(* END and the guardian of WHILE *)

\* Without a macro around it no line is left behind END.
LEMMA EndStops == ASSUME IInv, Next, ~IsRunning, ~InMacro PROVE out' = out
<1>1. line = None
  BY DEF IInv, OnlyMacrosReadOn
<1>2. ~Ordinary /\ ~dirLUA
  BY <1>1 DEF Ordinary, dirLUA, Assembling
<1>3. ParseLine => out' = out
  BY <1>2 DEF ParseLine, Collect, dirIF, StrayKeyword, dirDUP, StrayEnd, dirMACRO, CallMacro,
     dirINCLUDE, dirEND
<1>4. Work => out' = out
  BY <1>3 DEF Work, ReadBufLine, ReadLine, EmitDup, EmitMacro, IfBranch, SkipFile, EndOfPass
<1> QED
  BY <1>4 DEF Next, Done, vars

LEMMA GuardianBounds == IInv => WhileIsBounded
<1> SUFFICES ASSUME IInv, NEW i \in 1 .. Len(RepeatStack)
             PROVE  RepeatStack[i].runs <= RepeatStack[i].limit
  BY DEF WhileIsBounded
<1>1. RepeatStack[i] \in Entries
  BY DEF IInv, TypeOK
<1>2. RepeatStack[i].runs \in Nat /\ RepeatStack[i].RepeatCount \in Nat /\ RepeatStack[i].limit \in Nat
  BY <1>1 DEF Entries
<1>3. RepeatStack[i].runs + RepeatStack[i].RepeatCount <= RepeatStack[i].limit
  BY DEF IInv, IterationsAreCounted
<1> QED
  BY <1>2, <1>3

Accused == "infinite loop" \in errors' \ errors

\* Only shouldRepeat accuses a WHILE, at its limit or after a misplaced keyword.
LEMMA GuardianAccuses ==
  ASSUME IInv, Next, Accused
  PROVE  dup.runs = dup.limit \/ "not nested completely" \in errors
<1>1. ASSUME NEW kinds, Show(kinds), "infinite loop" \notin kinds PROVE FALSE
  BY <1>1 DEF Show, Accused
<1>2. errors' # errors
  BY DEF Accused
<1>3. ~ParseLine
  <2>1. ~Collect /\ ~Ordinary /\ ~dirDUP /\ ~dirEND
    BY <1>1, <1>2 DEF Collect, Ordinary, dirDUP, dirEND
  <2>2. ~dirIF /\ ~StrayEnd /\ ~dirINCLUDE
    BY <1>1, <1>2 DEF dirIF, StrayEnd, dirINCLUDE
  <2>3. ~StrayKeyword /\ ~CallMacro /\ ~dirLUA
    BY <1>1, <1>2 DEF StrayKeyword, CallMacro, dirLUA
  <2>4. ~dirMACRO
    BY <1>1, <1>2 DEF dirMACRO, AddMacro
  <2> QED
    BY <2>1, <2>2, <2>3, <2>4 DEF ParseLine
<1>4. line.op \in IfKeyword => ~EndOfBranch
  <2>1. line.op \in {"ENDIF", "ELSE", "ELSEIF"} => ~EndOfBranch
    BY <1>1, <1>2 DEF EndOfBranch
  <2> QED
    BY <2>1 DEF IfKeyword
<1>5. ~IfBranch /\ ~SkipFile
  BY <1>2, <1>4 DEF IfBranch, SkipFile
<1>6. ~ReadBufLine /\ ~ReadLine /\ ~EmitMacro /\ ~EndOfPass
  BY <1>1, <1>2 DEF ReadBufLine, ReadLine, EmitMacro, NextLine, EndOfPass
<1>7. EmitDup
  BY <1>2, <1>3, <1>5, <1>6 DEF Next, Work, Done, vars
<1>8. dup.RepeatCount <= 0
  BY <1>1, <1>2, <1>7 DEF EmitDup, NextLine, shouldRepeat, Repeat, EndRepeat
<1>9. Top.entry \in 1 .. Len(RepeatStack)
  BY <1>7, TopFacts DEF EmitDup, TopIs, IInv, DupFramesLive
<1>10. dup \in Entries
  BY <1>9 DEF dup, IInv, TypeOK
<1>11. dup.RepeatCount \in Nat /\ dup.runs \in Nat
  BY <1>10 DEF Entries
<1>12. dup.runs + dup.RepeatCount = dup.limit \/ "not nested completely" \in errors
  BY <1>9 DEF dup, IInv, IterationsAreCounted
<1>13. dup.runs + dup.RepeatCount = dup.runs
  BY <1>8, <1>11
<1> QED
  BY <1>12, <1>13

\* END stops the assembly at once, except for the lines of the macros around
\* it; no WHILE runs more often than its guardian says and once more, where a
\* guardian below zero counts as an unsigned int; and "infinite loop?" accuses
\* only a WHILE that reached it, or one after a misplaced ELSE or ENDIF.
THEOREM SourceFlowStopsInTime == Spec => StopsInTime
<1>1. ASSUME IInv, WhileIsBounded', [Next]_vars
      PROVE  [ /\ ~IsRunning /\ ~InMacro => out' = out
               /\ WhileIsBounded'
               /\ "infinite loop" \in errors' \ errors =>
                    dup.runs = dup.limit \/ "not nested completely" \in errors ]_vars
  BY <1>1, EndStops, GuardianAccuses DEF Accused
<1> QED
  BY <1>1, InitIInv, NextIInv, GuardianBounds, PTL DEF Spec, StopsInTime

=============================================================================
