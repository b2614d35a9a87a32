---------------------------- MODULE Z80Reference ----------------------------
(***************************************************************************)
(* What the encoder is checked against: the instruction sets of the Z80,   *)
(* the Z80N, the R800 multiplications, the i8080 (with Z80 mnemonics) and  *)
(* the LR35902, as decoders from bytes to instructions written from the    *)
(* opcode maps of the processors (external: nothing here is taken from     *)
(* z80.cpp), and a machine on which the fakes are run.                     *)
(*                                                                         *)
(* A decoded instruction is [mn, ops, d, v, w]: operands named as in       *)
(* Z80Encoder, the displacement byte, the value and the width of the field *)
(* it was read from (256, 65536, or 0 where there is none).                *)
(***************************************************************************)
EXTENDS Integers, Sequences, SequencesExt, FiniteSetsExt, TLC

CONSTANT Here   \* the address of the instruction, for relative jumps

LOCAL I(mn, ops) == [mn |-> mn, ops |-> ops, d |-> 0, v |-> 0, w |-> 0]
LOCAL N8(i, n)   == [i EXCEPT !.v = n, !.w = 256]
LOCAL Signed(b)  == IF b > 127 THEN b - 256 ELSE b
Undefined == I("undefined", <<>>)

\* The opcode is followed by nothing, a byte, a word or a relative address.
LOCAL Op0(i, t) == IF t = <<>> THEN i ELSE Undefined
LOCAL Op1(i, t) == IF Len(t) = 1 THEN N8(i, t[1]) ELSE Undefined
LOCAL Op2(i, t) == IF Len(t) = 2 THEN [i EXCEPT !.v = t[1] + 256 * t[2], !.w = 65536] ELSE Undefined
LOCAL Rel(i, t) == IF Len(t) = 1 THEN [i EXCEPT !.v = Here + 2 + Signed(t[1]), !.w = 65536] ELSE Undefined

LOCAL r8  == <<"B", "C", "D", "E", "H", "L", "mHL", "A">>
LOCAL rp  == <<"BC", "DE", "HL", "SP">>
LOCAL rp2 == <<"BC", "DE", "HL", "AF">>
LOCAL cc  == <<"NZ", "Z", "NC", "C", "PO", "PE", "P", "M">>
LOCAL alu == <<"add", "adc", "sub", "sbc", "and", "xor", "or", "cp">>
LOCAL rot == <<"rlc", "rrc", "rl", "rr", "sla", "sra", "sll", "srl">>
LOCAL acc == <<"rlca", "rrca", "rla", "rra", "daa", "cpl", "scf", "ccf">>

LOCAL AluOps(y, r) == IF y \in {0, 1, 3} THEN <<"A", r>> ELSE <<r>>

\* The unprefixed opcodes, by the octal digits x, y, z and y = 2p + q.
Main(op, t) ==
  LET x == op \div 64  y == (op \div 8) % 8  z == op % 8
      p == y \div 2    q == y % 2
      R(n) == r8[n + 1]  P == rp[p + 1]
  IN CASE x = 0 /\ z = 0 -> IF y = 0 THEN Op0(I("nop", <<>>), t)
                            ELSE IF y = 1 THEN Op0(I("ex", <<"AF", "AF">>), t)
                            ELSE Rel(IF y = 2 THEN I("djnz", <<"n">>) ELSE
                                     I("jr", (IF y = 3 THEN <<>> ELSE <<cc[y - 3]>>) \o <<"n">>), t)
       [] x = 0 /\ z = 1 -> IF q = 0 THEN Op2(I("ld", <<P, "n">>), t) ELSE Op0(I("add", <<"HL", P>>), t)
       [] x = 0 /\ z = 2 ->
            LET mem == <<"mBC", "mDE", "m", "m">>[p + 1]
                reg == IF p = 2 THEN "HL" ELSE "A"
                i   == I("ld", IF q = 0 THEN <<mem, reg>> ELSE <<reg, mem>>)
            IN IF p < 2 THEN Op0(i, t) ELSE Op2(i, t)
       [] x = 0 /\ z = 3 -> Op0(I(IF q = 0 THEN "inc" ELSE "dec", <<P>>), t)
       [] x = 0 /\ z = 4 -> Op0(I("inc", <<R(y)>>), t)
       [] x = 0 /\ z = 5 -> Op0(I("dec", <<R(y)>>), t)
       [] x = 0 /\ z = 6 -> Op1(I("ld", <<R(y), "n">>), t)
       [] x = 0 /\ z = 7 -> Op0(I(acc[y + 1], <<>>), t)
       [] x = 1          -> Op0(IF y = 6 /\ z = 6 THEN I("halt", <<>>) ELSE I("ld", <<R(y), R(z)>>), t)
       [] x = 2          -> Op0(I(alu[y + 1], AluOps(y, R(z))), t)
       [] x = 3 /\ z = 0 -> Op0(I("ret", <<cc[y + 1]>>), t)
       [] x = 3 /\ z = 1 -> Op0(IF q = 0 THEN I("pop", <<rp2[p + 1]>>) ELSE
                                <<I("ret", <<>>), I("exx", <<>>), I("jp", <<"mHL">>), I("ld", <<"SP", "HL">>)>>[p + 1], t)
       [] x = 3 /\ z = 2 -> Op2(I("jp", <<cc[y + 1], "n">>), t)
       [] x = 3 /\ z = 3 ->
            CASE y = 0 -> Op2(I("jp", <<"n">>), t)
              [] y = 2 -> Op1(I("out", <<"m", "A">>), t)
              [] y = 3 -> Op1(I("in", <<"A", "m">>), t)
              [] y = 4 -> Op0(I("ex", <<"mSP", "HL">>), t)
              [] y = 5 -> Op0(I("ex", <<"DE", "HL">>), t)
              [] y = 6 -> Op0(I("di", <<>>), t)
              [] y = 7 -> Op0(I("ei", <<>>), t)
              [] OTHER -> Undefined
       [] x = 3 /\ z = 4 -> Op2(I("call", <<cc[y + 1], "n">>), t)
       [] x = 3 /\ z = 5 -> IF q = 0 THEN Op0(I("push", <<rp2[p + 1]>>), t)
                            ELSE IF p = 0 THEN Op2(I("call", <<"n">>), t) ELSE Undefined
       [] x = 3 /\ z = 6 -> Op1(I(alu[y + 1], AluOps(y, "n")), t)
       [] x = 3 /\ z = 7 -> Op0(N8(I("rst", <<"n">>), 8 * y), t)

\* The CB page.
Bits(op) ==
  LET x == op \div 64  y == (op \div 8) % 8  r == r8[(op % 8) + 1]
  IN IF x = 0 THEN I(rot[y + 1], <<r>>)
     ELSE N8(I(<<"bit", "res", "set">>[x], <<"n", r>>), y)

\* DD and FD: HL becomes IX or IY, (HL) becomes (IX+d), and H and L become the
\* halves where no memory operand is.  EX DE,HL and EXX know no prefix.
LOCAL NamesOf == [IX |-> [mHL |-> "mIX", HL |-> "IX", H |-> "IXH", L |-> "IXL"],
                  IY |-> [mHL |-> "mIY", HL |-> "IY", H |-> "IYH", L |-> "IYL"]]
LOCAL UsesMemHL(op) ==
  \/ op \in {52, 53, 54}
  \/ op \in 64 .. 191 /\ op # 118 /\ (op % 8 = 6 \/ op \in 112 .. 119)
Index(ix, op, t) ==
  LET via  == UsesMemHL(op)
      name == IF via THEN [mHL |-> NamesOf[ix].mHL] ELSE NamesOf[ix]
      new(o) == IF o \in DOMAIN name THEN name[o] ELSE o
      i == IF via THEN [Main(op, Tail(t)) EXCEPT !.d = Head(t)] ELSE Main(op, t)
  IN CASE op \in {235, 118} \/ (via /\ t = <<>>) \/ (op = 203 /\ Len(t) # 2) -> Undefined
       [] op = 203 /\ Len(t) = 2 ->
            LET b == Bits(t[2])
                r == r8[(t[2] % 8) + 1]
                to == IF r = "mHL" THEN <<>> ELSE <<r>>
            IN IF b.mn = "bit" /\ r # "mHL" THEN Undefined
               ELSE [b EXCEPT !.d = t[1], !.ops = SelectSeq(b.ops, LAMBDA o : o = "n") \o <<name.mHL>> \o to]
       [] OTHER -> IF \A k \in DOMAIN i.ops : new(i.ops[k]) = i.ops[k] THEN Undefined
                   ELSE [i EXCEPT !.ops = [k \in DOMAIN i.ops |-> new(i.ops[k])]]

\* The ED page of the Z80; op is written with the octal digits x, y, z too.
LOCAL Block == <<<<"ldi", "cpi", "ini", "outi">>, <<"ldd", "cpd", "ind", "outd">>,
                 <<"ldir", "cpir", "inir", "otir">>, <<"lddr", "cpdr", "indr", "otdr">>>>
Extended(op, t) ==
  LET x == op \div 64  y == (op \div 8) % 8  z == op % 8
      p == y \div 2    q == y % 2
  IN CASE x = 1 /\ z = 0 -> Op0(I("in", <<IF y = 6 THEN "F" ELSE r8[y + 1], "mC">>), t)
       [] x = 1 /\ z = 1 -> Op0(IF y = 6 THEN N8(I("out", <<"mC", "n">>), 0)
                                ELSE I("out", <<"mC", r8[y + 1]>>), t)
       [] x = 1 /\ z = 2 -> Op0(I(IF q = 0 THEN "sbc" ELSE "adc", <<"HL", rp[p + 1]>>), t)
       [] x = 1 /\ z = 3 -> Op2(I("ld", IF q = 0 THEN <<"m", rp[p + 1]>> ELSE <<rp[p + 1], "m">>), t)
       [] x = 1 /\ z = 4 /\ y = 0 -> Op0(I("neg", <<>>), t)
       [] x = 1 /\ z = 5 /\ y < 2 -> Op0(I(<<"retn", "reti">>[y + 1], <<>>), t)
       [] x = 1 /\ z = 6 /\ y \in {0, 2, 3} -> Op0(N8(I("im", <<"n">>), IF y = 0 THEN 0 ELSE y - 1), t)
       [] x = 1 /\ z = 7 /\ y < 6 ->
            Op0(<<I("ld", <<"I", "A">>), I("ld", <<"R", "A">>), I("ld", <<"A", "I">>),
                  I("ld", <<"A", "R">>), I("rrd", <<>>), I("rld", <<>>)>>[y + 1], t)
       [] x = 2 /\ z < 4 /\ y >= 4 -> Op0(I(Block[y - 3][z + 1], <<>>), t)
       [] op \in {193, 201, 209, 217} -> Op0(I("mulub", <<"A", r8[y + 1]>>), t)   \* R800
       [] op \in {195, 243} -> Op0(I("muluw", <<"HL", rp[p + 1]>>), t)
       [] OTHER -> Undefined

\* The ED page of the Z80N.
LOCAL NextPlain ==
  (35 :> "swapnib") @@ (36 :> "mirror") @@ (144 :> "outinb") @@ (147 :> "pixeldn") @@
  (148 :> "pixelad") @@ (149 :> "setae") @@ (164 :> "ldix") @@ (165 :> "ldws") @@
  (172 :> "lddx") @@ (180 :> "ldirx") @@ (183 :> "ldpirx") @@ (188 :> "lddrx")
LOCAL NextShift == <<"bsla", "bsra", "bsrl", "bsrf", "brlc">>
ExtendedNext(op, t) ==
  CASE op \in DOMAIN NextPlain -> Op0(I(NextPlain[op], <<>>), t)
    [] op \in 40 .. 44 -> Op0(I(NextShift[op - 39], <<"DE", "B">>), t)
    [] op = 39 -> Op1(I("test", <<"n">>), t)
    [] op = 48 -> Op0(I("mul", <<"D", "E">>), t)
    [] op \in 49 .. 51 -> Op0(I("add", <<<<"HL", "DE", "BC">>[op - 48], "A">>), t)
    [] op \in 52 .. 54 -> Op2(I("add", <<<<"HL", "DE", "BC">>[op - 51], "n">>), t)
    [] op = 138 -> IF Len(t) = 2 THEN Op2(I("push", <<"n">>), <<t[2], t[1]>>) ELSE Undefined
    [] op = 145 -> IF Len(t) = 2 /\ t[1] = t[2] THEN Op1(I("nextreg", <<"n", "n">>), Tail(t)) ELSE Undefined
    [] op = 146 -> Op1(I("nextreg", <<"n", "A">>), t)
    [] op = 152 -> Op0(I("jp", <<"mC">>), t)
    [] OTHER -> Extended(op, t)

\* The ED page of the CSpect emulator: breakpoints over a range of addresses.
ExtendedCSpect(op, t) ==
  IF op \in {1, 2}
    THEN IF Len(t) = 5 /\ t[1] = t[2] /\ SubSeq(t, 2, 3) = SubSeq(t, 4, 5)
           THEN Op2(I(<<"setbrk", "clrbrk">>[op], <<"n", "n", "n">>), SubSeq(t, 4, 5))
           ELSE Undefined
    ELSE ExtendedNext(op, t)

\* The LR35902: no prefixes but CB, and its own instructions in their place.
LOCAL SharpNone == {211, 219, 221, 227, 228, 235, 236, 237, 244, 252, 253}
Sharp(op, t) ==
  CASE op \in SharpNone -> Undefined
    [] op = 8   -> Op2(I("ld", <<"m", "SP">>), t)
    [] op = 16  -> Op1(I("stop", <<"n">>), t)
    [] op \in {34, 42, 50, 58} ->
         LET mem == IF op < 50 THEN "mHLI" ELSE "mHLD"
         IN Op0(I("ld", IF op \in {34, 50} THEN <<mem, "A">> ELSE <<"A", mem>>), t)
    [] op = 217 -> Op0(I("reti", <<>>), t)
    [] op \in {224, 240} -> Op1(I("ldh", IF op = 224 THEN <<"m", "A">> ELSE <<"A", "m">>), t)
    [] op \in {226, 242} -> Op0(I("ld", IF op = 226 THEN <<"mC", "A">> ELSE <<"A", "mC">>), t)
    [] op = 232 -> Op1(I("add", <<"SP", "n">>), t)
    [] op = 248 -> Op1(I("ld", <<"HL", "SP", "n">>), t)
    [] op \in {234, 250} -> Op2(I("ld", IF op = 234 THEN <<"m", "A">> ELSE <<"A", "m">>), t)
    [] op = 203 /\ Len(t) = 1 -> LET b == Bits(t[1]) IN IF b.mn = "sll" THEN [b EXCEPT !.mn = "swap"] ELSE b
    [] OTHER -> Main(op, t)

\* What the 8080 has: the unprefixed opcodes without the eleven of the Z80.
LOCAL NotIn8080 == {8, 16, 24, 32, 40, 48, 56, 203, 217, 221, 237, 253}

\* The instruction that the bytes b are, on the processor of the options o.
Decode(o, b) ==
  LET op == Head(b)  t == Tail(b)
  IN CASE o.cpu = "lr35902" -> Sharp(op, t)
       [] o.cpu = "i8080"   -> IF op \in NotIn8080 THEN Undefined ELSE Main(op, t)
       [] o.cpu = "z80" /\ o.next > 1 /\ b \in {<<253, 0>>, <<221, 0>>} ->
            I(IF op = 253 THEN "break" ELSE "exit", <<>>)
       [] o.cpu = "z80" /\ op \in {221, 253} ->
            IF t = <<>> THEN Undefined ELSE Index(IF op = 221 THEN "IX" ELSE "IY", Head(t), Tail(t))
       [] o.cpu = "z80" /\ op = 203 -> IF Len(t) = 1 THEN Bits(Head(t)) ELSE Undefined
       [] o.cpu = "z80" /\ op = 237 ->
            IF t = <<>> THEN Undefined
            ELSE (CASE o.next = 0 -> Extended(Head(t), Tail(t))
                    [] o.next = 1 -> ExtendedNext(Head(t), Tail(t))
                    [] o.next = 2 -> ExtendedCSpect(Head(t), Tail(t)))
       [] OTHER -> Main(op, t)

-----------------------------------------------------------------------------
(* A machine for the fakes: bytes in registers, a carry, and a memory that *)
(* holds something else at every address until it is written.              *)

LOCAL HalfOf == [BC |-> <<"B", "C">>, DE |-> <<"D", "E">>, HL |-> <<"H", "L">>,
                 IX |-> <<"IXH", "IXL">>, IY |-> <<"IYH", "IYL">>, SP |-> <<"SPH", "SPL">>,
                 AF |-> <<"A", "F">>]
LOCAL PointerOf == [mBC |-> "BC", mDE |-> "DE", mHL |-> "HL", mIX |-> "IX", mIY |-> "IY"]

Pair(m, rr) == 256 * m.r[HalfOf[rr][1]] + m.r[HalfOf[rr][2]]
SetPair(m, rr, v) == [m EXCEPT !.r[HalfOf[rr][1]] = (v \div 256) % 256, !.r[HalfOf[rr][2]] = v % 256]
Read(m, a) == IF a \in DOMAIN m.mem THEN m.mem[a] ELSE (a * 7 + a \div 256 + 3) % 256
Write(m, a, v) == [m EXCEPT !.mem = (a :> v) @@ @]
Read16(m, a) == Read(m, a) + 256 * Read(m, (a + 1) % 65536)
Write16(m, a, v) == Write(Write(m, a, v % 256), (a + 1) % 65536, (v \div 256) % 256)
Addr(m, o, d) == (Pair(m, PointerOf[o]) + (IF o \in {"mIX", "mIY"} THEN Signed(d) ELSE 0)) % 65536

LOCAL Get8(m, o, i) == CASE o \in DOMAIN m.r -> m.r[o]
                         [] o = "n" -> i.v
                         [] OTHER -> Read(m, Addr(m, o, i.d))
LOCAL Set8(m, o, i, v) == IF o \in DOMAIN m.r THEN [m EXCEPT !.r[o] = v] ELSE Write(m, Addr(m, o, i.d), v)

\* An addition or subtraction of two words and the carry.
Arith(m, rr, x, sub, c) ==
  LET v == IF sub THEN Pair(m, rr) - x - c ELSE Pair(m, rr) + x + c
  IN [SetPair(m, rr, v % 65536) EXCEPT !.c = IF v \in 0 .. 65535 THEN 0 ELSE 1]

\* A shift of a word of top bit value top; c is the carry before.
Shift(mn, v, top, c) ==
  CASE mn \in {"rl", "sla", "sll"} ->
         [v |-> ((2 * v) % (2 * top)) + (CASE mn = "rl" -> c [] mn = "sla" -> 0 [] mn = "sll" -> 1), c |-> v \div top]
    [] mn \in {"rr", "sra", "srl"} ->
         [v |-> v \div 2 + (CASE mn = "rr" -> c * top [] mn = "srl" -> 0 [] mn = "sra" -> (v \div top) * top), c |-> v % 2]

\* The instructions that fakes are made of.
Exec(m, i) ==
  LET a == i.ops[1]
      b == i.ops[2]
      x == Get8(m, a, i)
      s == Shift(i.mn, x, 128, m.c)
      sp == Pair(m, "SP")
  IN CASE i.mn = "ld"   -> Set8(m, a, i, Get8(m, b, i))
       [] i.mn = "inc"  -> SetPair(m, a, (Pair(m, a) + 1) % 65536)
       [] i.mn = "dec"  -> SetPair(m, a, (Pair(m, a) - 1) % 65536)
       [] i.mn = "push" -> SetPair(Write16(m, sp - 2, Pair(m, a)), "SP", sp - 2)
       [] i.mn = "pop"  -> SetPair(SetPair(m, a, Read16(m, sp)), "SP", sp + 2)
       [] i.mn = "ex"   -> SetPair(SetPair(m, "DE", Pair(m, "HL")), "HL", Pair(m, "DE"))
       [] i.mn = "add"  -> Arith(m, "HL", Pair(m, b), FALSE, 0)
       [] i.mn = "adc"  -> Arith(m, "HL", Pair(m, b), FALSE, m.c)
       [] i.mn = "sbc"  -> Arith(m, "HL", Pair(m, b), TRUE, m.c)
       [] i.mn = "or"   -> [m EXCEPT !.c = 0]
       [] OTHER -> [Set8(m, a, i, s.v) EXCEPT !.c = s.c]

Run(o, m, instructions) == FoldLeft(LAMBDA mm, b : Exec(mm, Decode(o, b)), m, instructions)

\* What a fake promises: mn on the operands a and b does this to the machine.
Promise(m, mn, a, b, l) ==
  LET pairs  == {"BC", "DE", "HL", "IX", "IY"}
      bytes  == DOMAIN m.r
      ptr(mm, o) == SetPair(mm, PointerOf[o], (Pair(mm, PointerOf[o]) + (IF mn = "ldi" THEN 1 ELSE -1)) % 65536)
      ptr2(mm, o) == SetPair(mm, PointerOf[o], (Pair(mm, PointerOf[o]) + 2) % 65536)
      s == Shift(mn, Pair(m, a), 32768, m.c)
  IN CASE mn = "ld" /\ a \in pairs -> SetPair(m, a, IF b \in pairs THEN Pair(m, b) ELSE Read16(m, Addr(m, b, l.d)))
       [] mn = "ld" /\ a \notin pairs -> Write16(m, Addr(m, a, l.d), Pair(m, b))
       [] mn \in {"ldi", "ldd"} /\ a \in bytes -> ptr([m EXCEPT !.r[a] = Read(m, Addr(m, b, l.d))], b)
       [] mn \in {"ldi", "ldd"} /\ b \in bytes -> ptr(Write(m, Addr(m, a, l.d), m.r[b]), a)
       [] mn \in {"ldi", "ldd"} /\ b \in {"n", "m"} -> ptr(Write(m, Addr(m, a, l.d), l.v % 256), a)
       [] mn = "ldi" /\ a \in pairs -> ptr2(SetPair(m, a, Read16(m, Addr(m, b, l.d))), b)
       [] mn = "ldi" /\ b \in pairs -> ptr2(Write16(m, Addr(m, a, l.d), Pair(m, b)), a)
       [] mn \in {"add", "adc", "sub", "sbc"} ->
            Arith(m, a, Pair(m, b), mn \in {"sub", "sbc"}, IF mn \in {"adc", "sbc"} THEN m.c ELSE 0)
       [] OTHER -> [SetPair(m, a, s.v) EXCEPT !.c = s.c]

\* Equal but for the stack below SP, which a push and a pop may use.
SameMachine(m, n) ==
  LET sp == Pair(m, "SP")
  IN /\ m.r = n.r /\ m.c = n.c
     /\ \A a \in (DOMAIN m.mem \cup DOMAIN n.mem) \ {sp - 2, sp - 1} : Read(m, a) = Read(n, a)
=============================================================================
