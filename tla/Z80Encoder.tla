----------------------------- MODULE Z80Encoder -----------------------------
(***************************************************************************)
(* The instruction encoder of src/sjasm/z80.cpp: the operands of one line  *)
(* are consumed from left to right by the handler of its mnemonic, which   *)
(* emits the machine code, and the multi-argument delimiter makes the      *)
(* handler run again on what is left.                                      *)
(*                                                                         *)
(* A line is a sequence of tokens: operands and single commas.  Operands   *)
(* are named: registers as in the source ("A", "IXH", "SP"), registers in  *)
(* brackets with an m ("mHL", "mIX" with the displacement of the line,     *)
(* "mBC"), "n" an expression, "m" an expression in round brackets; both    *)
(* have the value of the line.  Machine code is a sequence of instructions *)
(* (INSTRUCTION_START_MARKER separates them), each a sequence of bytes.    *)
(***************************************************************************)
EXTENDS Integers, Sequences, SequencesExt, TLC

CONSTANTS
  Sources,  \* the lines that may be assembled: records [mn, ts, d, v]
  Modes,    \* the option records [cpu, next, fakes, double, mem, revpop]
  Org       \* CurAddress of the line

ASSUME OrgIsAddress == Org \in 0 .. 65535

VARIABLES
  src,      \* the line: mnemonic, tokens, displacement byte, value
  opt,      \* the options in force
  lp,       \* the tokens not consumed yet
  code,     \* per round: the tokens it consumed and the instructions it emitted
  bad,      \* an error was reported for the line
  busy      \* the handler has (another) round to do

z80Vars == <<src, opt, lp, code, bad, busy>>

-----------------------------------------------------------------------------
(* Registers: enum Z80Reg and the operators that read one token.           *)

\* The 3-bit numbers of the 8-bit operands; (HL) is one of them.
R8 == [B |-> 0, C |-> 1, D |-> 2, E |-> 3, H |-> 4, L |-> 5, mHL |-> 6, A |-> 7]

\* The 2-bit numbers of the register pairs.
RP == [BC |-> 0, DE |-> 1, HL |-> 2, SP |-> 3]

\* Conditions, in the order of their opcode bits.
CC == [NZ |-> 0, Z |-> 1, NC |-> 2, C |-> 3, PO |-> 4, PE |-> 5, P |-> 6, M |-> 7]

\* IX and IY operands are the operand of HL behind a prefix byte.
PlainOf == [IX |-> "HL", IXH |-> "H", IXL |-> "L", mIX |-> "mHL",
            IY |-> "HL", IYH |-> "H", IYL |-> "L", mIY |-> "mHL"]
PlainToken(r) == IF r \in DOMAIN PlainOf THEN PlainOf[r] ELSE r
Prefix(r) == CASE r \in {"IX", "IXH", "IXL", "mIX"} -> <<221>>
               [] r \in {"IY", "IYH", "IYL", "mIY"} -> <<253>>
               [] OTHER -> <<>>

Halves  == {"IXH", "IXL", "IYH", "IYL"}
Indexed == {"mIX", "mIY"}
Reg8    == DOMAIN R8 \ {"mHL"}
LRMem   == {"mHLI", "mHLD"}

GetRegister_r16High(r) == [BC |-> "B", DE |-> "D", HL |-> "H"][r]
GetRegister_r16Low(r)  == [BC |-> "C", DE |-> "E", HL |-> "L"][r]

\* What GetRegister accepts under the CPU of the options.
RegistersOf ==
  LET shared == Reg8 \cup {"F", "BC", "DE", "HL", "SP", "AF", "mHL"}
  IN [i8080 |-> shared, lr35902 |-> shared \cup LRMem, z80 |-> shared \cup {"I", "R"} \cup DOMAIN PlainOf]
Registers(o) == RegistersOf[o.cpu]

Peek(ts) == IF ts = <<>> THEN "" ELSE Head(ts)
Rest(ts) == IF ts = <<>> THEN <<>> ELSE Tail(ts)
GetRegister(o, ts) == IF Peek(ts) \in Registers(o) THEN Peek(ts) ELSE "UNK"
AfterReg(o, ts) == IF GetRegister(o, ts) = "UNK" THEN ts ELSE Tail(ts)

\* getz80cond: the LR35902 has the first four conditions only.
GetCond(o, ts) ==
  IF Peek(ts) \in DOMAIN CC /\ (o.cpu = "lr35902" => CC[Peek(ts)] < 4)
    THEN Peek(ts) ELSE "UNK"

\* comma, doubleComma: a double comma is not a comma.
DoubleComma(ts) == Peek(ts) = "," /\ Peek(Tail(ts)) = ","
TokenComma(ts) == Peek(ts) = "," /\ Peek(Tail(ts)) # ","

\* Options::syx.MultiArg and relaxedMaComma: the tokens after the delimiter,
\* or the same tokens where there is none.
MultiArg(o, ts) ==
  IF o.double THEN IF DoubleComma(ts) THEN Tail(Tail(ts)) ELSE ts
              ELSE IF TokenComma(ts) THEN Tail(ts) ELSE ts
RelaxedMaComma(o, ts) ==
  IF DoubleComma(ts) THEN IF o.double THEN Tail(Tail(ts)) ELSE ts
                     ELSE IF TokenComma(ts) THEN Tail(ts) ELSE ts

\* GetByte, GetWord, GetAddress: an expression.  A register name read as an
\* expression is a label nobody defined; a missing operand consumes nothing.
Expr(ts) ==
  LET none == Peek(ts) \in {"", ","}
  IN [v |-> IF Peek(ts) \in {"n", "m"} THEN src.v ELSE 0, none |-> none,
      ts |-> IF none THEN ts ELSE Tail(ts), bad |-> Peek(ts) \notin {"n", "m"}]

\* GetByteNoMem, GetWordNoMem: brackets are refused unless the syntax is relaxed.
NoMem(o, ts) ==
  IF Peek(ts) = "m" /\ o.mem THEN [Expr(ts) EXCEPT !.v = 0, !.bad = TRUE]
                             ELSE Expr(ts)

\* A signed byte out of its range is an error (check8o).
SignedByte(x) == [x EXCEPT !.bad = @ \/ x.v \notin -128 .. 127]

\* CurAddress: every byte that was emitted moves it.
RoundSize(round) == FoldLeft(LAMBDA n, ins : n + Len(ins), 0, round.e)
CurAddress == FoldLeft(LAMBDA n, round : n + RoundSize(round), Org, code)

Lo(v) == v % 256
Hi(v) == (v \div 256) % 256
Word(v) == <<Lo(v), Hi(v)>>
DispToken(r) == IF r \in Indexed THEN <<src.d>> ELSE <<>>

\* The code of an instruction on an 8-bit operand: prefix, opcode, displacement.
Ins8(r, opcode) == Prefix(r) \o <<opcode>> \o DispToken(r)

-----------------------------------------------------------------------------
(* What one round of a handler returns.                                    *)

\* Instructions e emitted, ts left, b an error besides "Illegal instruction".
EmitCode(e, ts, b) == [e |-> e, ts |-> IF e = <<>> THEN <<>> ELSE ts,
                   bad |-> b \/ e = <<>>, sep |-> "multi"]

\* EmitBytes with nothing to emit: an error, and the rest of the line is skipped.
Illegal == EmitCode(<<>>, <<>>, TRUE)

\* An operand that is an immediate: x is the result of Expr or NoMem.
EmitImm8(pre, x)  == EmitCode(<<pre \o <<Lo(x.v)>>>>, x.ts, x.bad)
EmitImm16(pre, x) == EmitCode(<<pre \o Word(x.v)>>, x.ts, x.bad)

\* The handler returns without another round.
Once(r) == [r EXCEPT !.sep = "none"]
\* The handler goes on after a single comma too (DEC, INC, POP, PUSH).
Relaxed(r) == [r EXCEPT !.sep = "relaxed"]
\* The handler breaks out of its loop after an error, and emits nothing.
Break(ts) == [e |-> <<>>, ts |-> ts, bad |-> TRUE, sep |-> "none"]

NoFakes(o) == o.cpu # "z80" \/ ~o.fakes

-----------------------------------------------------------------------------
(* The handlers, in the order of the source.                               *)

\* CommonAluOpcode: [ok |-> FALSE] hands the line back to the 16-bit forms.
\* "A," may be written in front of the operand, where a comma is not already
\* the multi-argument delimiter.
CommonAluOpcode(o, base, ts, hasNonRegA, nonMultiArgComma) ==
  LET first == GetRegister(o, ts)
      t1    == AfterReg(o, ts)
      long  == first = "A" /\ TokenComma(t1) /\ (nonMultiArgComma => o.double)
      reg   == IF long THEN GetRegister(o, Tail(t1)) ELSE first
      t2    == IF long THEN AfterReg(o, Tail(t1)) ELSE t1
      given == \/ first \in {"BC", "DE", "HL", "IX", "IY"} /\ hasNonRegA
               \/ first = "SP" /\ o.cpu = "lr35902"
  IN [ok  |-> ~given,
      res |-> CASE PlainToken(reg) \in DOMAIN R8 ->
                     EmitCode(<<Ins8(reg, base + R8[PlainToken(reg)])>>, t2, FALSE)
                [] reg = "UNK" -> EmitImm8(<<base + 70>>, NoMem(o, t2))
                [] OTHER       -> Illegal]

\* and, cp, or, xor
OpCode_SimpleAlu(o, base, ts) == CommonAluOpcode(o, base, ts, FALSE, TRUE).res

\* OpCode_CbFamily: the result, or [ok |-> FALSE] and the register it met.
\* The undocumented forms on (IX+d) may name a register for the result too.
OpCode_CbFamily(o, base, ts, canHaveDst) ==
  LET reg == GetRegister(o, ts)
      t1  == AfterReg(o, ts)
      dst == GetRegister(o, Tail(t1))
      two == canHaveDst /\ TokenComma(t1)
      r   == IF two /\ dst \in Reg8 THEN R8[dst] ELSE 6
  IN [ok  |-> reg \in DOMAIN R8 \cup Indexed,
      reg |-> reg,
      ts  |-> t1,
      res |-> IF reg \in Indexed
                THEN EmitCode(<<Prefix(reg) \o <<203, src.d, base + r>>>>,
                          IF two THEN AfterReg(o, Tail(t1)) ELSE t1,
                          two /\ dst \notin Reg8)
                ELSE IF reg \in DOMAIN R8
                THEN EmitCode(<<<<203, base + R8[reg]>>>>, t1, FALSE) ELSE Illegal]

\* The 16-bit forms of ADC, ADD, SBC and SUB: both registers, or an error.
SixteenBit(o, ts, F(_, _, _)) ==
  LET t1 == AfterReg(o, ts)
  IN IF ~TokenComma(t1) THEN Break(t1)
     ELSE F(GetRegister(o, ts), GetRegister(o, Tail(t1)), AfterReg(o, Tail(t1)))

\* DE and HL exchanged around an instruction on HL (fakes with DE as destination).
Exchanged == [BC |-> 0, DE |-> 2, HL |-> 1, SP |-> 3]

\* adc and sbc: base8 the 8-bit opcodes, base16 the ED opcode of HL,BC.
AdcSbc(o, base8, base16, ts) ==
  LET pairs(reg, reg2, t2) ==
        CASE reg = "HL" /\ o.cpu = "z80" /\ reg2 \in DOMAIN RP ->
               EmitCode(<<<<237, base16 + 16 * RP[reg2]>>>>, t2, FALSE)
          [] reg = "DE" /\ reg2 \in DOMAIN RP /\ ~NoFakes(o) ->
               EmitCode(<<<<235>>, <<237, base16 + 16 * Exchanged[reg2]>>, <<235>>>>, t2, FALSE)
          [] OTHER -> Illegal
      common == CommonAluOpcode(o, base8, ts, TRUE, FALSE)
  IN IF common.ok THEN common.res ELSE SixteenBit(o, ts, pairs)

OpCode_ADC(o, ts) == AdcSbc(o, 136, 74, ts)

OpCode_ADD(o, ts) ==
  LET pairs(reg, reg2, t2) ==
        CASE reg = "HL" /\ reg2 \in DOMAIN RP -> EmitCode(<<<<9 + 16 * RP[reg2]>>>>, t2, FALSE)
          [] reg \in {"IX", "IY"} /\ reg2 \in {"BC", "DE", "SP", reg} ->
               EmitCode(<<Prefix(reg) \o <<9 + 16 * RP[PlainToken(reg2)]>>>>, t2, FALSE)
          [] reg = "DE" /\ reg2 \in DOMAIN RP /\ ~NoFakes(o) ->
               EmitCode(<<<<235>>, <<9 + 16 * Exchanged[reg2]>>, <<235>>>>, t2, FALSE)
          [] reg \in {"HL", "DE", "BC"} /\ o.next > 0 /\ reg2 = "A" ->
               EmitCode(<<<<237, 49 + [HL |-> 0, DE |-> 1, BC |-> 2][reg]>>>>, t2, FALSE)
          [] reg \in {"DE", "BC"} /\ o.next > 0 /\ reg2 = "UNK" ->
               EmitImm16(<<237, 53 + [DE |-> 0, BC |-> 1][reg]>>, NoMem(o, t2))
          [] reg = "HL" /\ o.next > 0 /\ reg2 \notin DOMAIN RP \cup {"A"} ->
               EmitImm16(<<237, 52>>, NoMem(o, t2))
          [] reg = "SP" /\ o.cpu = "lr35902" /\ reg2 = "UNK" -> EmitImm8(<<232>>, SignedByte(NoMem(o, t2)))
          [] OTHER -> Illegal
      common == CommonAluOpcode(o, 128, ts, TRUE, FALSE)
  IN IF common.ok THEN common.res ELSE SixteenBit(o, ts, pairs)

\* Mutant: bit 7 is refused.
BitFamily_below7(o, base, ts, canHaveDst) ==
  LET n == NoMem(o, ts)
      f == OpCode_CbFamily(o, base + 8 * Lo(n.v), Tail(n.ts), canHaveDst)
  IN IF TokenComma(n.ts) /\ Lo(n.v) < 7 /\ f.ok
       THEN [f.res EXCEPT !.bad = @ \/ n.bad] ELSE Illegal

\* bit, res, set: the bit number is a byte, and only 0..7 names a bit.
BitFamily(o, base, ts, canHaveDst) ==
  LET n == NoMem(o, ts)
      f == OpCode_CbFamily(o, base + 8 * Lo(n.v), Tail(n.ts), canHaveDst)
  IN IF TokenComma(n.ts) /\ Lo(n.v) <= 7 /\ f.ok
       THEN [f.res EXCEPT !.bad = @ \/ n.bad] ELSE Illegal

OpCode_BIT(o, ts) == BitFamily(o, 64, ts, FALSE)

OpCode_Z80N_BarrelShifts(o, opcode, ts) ==
  Once(IF o.next > 0 /\ Len(ts) >= 3 /\ SubSeq(ts, 1, 3) = <<"DE", ",", "B">>
         THEN EmitCode(<<<<237, opcode>>>>, SubSeq(ts, 4, Len(ts)), FALSE) ELSE Illegal)

OpCode_CALL(o, ts) ==
  LET cc == GetCond(o, ts)
  IN IF cc = "UNK" THEN EmitImm16(<<205>>, Expr(ts))
     ELSE IF TokenComma(Tail(ts)) THEN EmitImm16(<<196 + 8 * CC[cc]>>, Expr(Tail(Tail(ts))))
     ELSE Illegal

\* dec, inc
OpCode_DecInc(o, base8, base16, ts) ==
  LET reg == GetRegister(o, ts)
      opcode == IF PlainToken(reg) \in DOMAIN R8 THEN base8 + 8 * R8[PlainToken(reg)]
                                           ELSE base16 + 16 * RP[PlainToken(reg)]
  IN Relaxed(IF PlainToken(reg) \in DOMAIN R8 \cup DOMAIN RP
               THEN EmitCode(<<Ins8(reg, opcode)>>, AfterReg(o, ts), FALSE) ELSE Illegal)

OpCode_DEC(o, ts) == OpCode_DecInc(o, 5, 11, ts)

\* The byte of a relative jump: out of range is an error and jumps nowhere.
Relative(opcode, x) ==
  LET jmp == IF x.none THEN 0 ELSE x.v - CurAddress - 2
      far == jmp \notin -128 .. 127
  IN EmitCode(<<<<opcode, IF far THEN 0 ELSE jmp % 256>>>>, x.ts, x.bad \/ far)

OpCode_DJNZ(o, ts) == Relative(16, Expr(ts))

\* The operands of EX, with (SP) moved to the left: "mSP" is "(sp)".
OpCode_EX(o, ts) ==
  LET known(t) == IF Peek(t) = "mSP" THEN "mSP"
                  ELSE IF Peek(t) = "SP" THEN "UNK" ELSE GetRegister(o, t)
      a    == known(ts)
      t1   == IF a = "mSP" THEN Tail(ts) ELSE AfterReg(o, ts)
      has  == TokenComma(t1)
      b    == IF has THEN known(Tail(t1)) ELSE "UNK"
      t2   == IF ~has THEN t1 ELSE IF b = "UNK" THEN Tail(t1) ELSE Tail(Tail(t1))
      reg1 == IF b = "mSP" THEN b ELSE a
      reg2 == IF b = "mSP" THEN a ELSE b
  IN Once(CASE reg1 = "AF" /\ o.cpu # "i8080" /\ (has => reg2 = "AF") -> EmitCode(<<<<8>>>>, t2, FALSE)
            [] has /\ {reg1, reg2} = {"DE", "HL"}     -> EmitCode(<<<<235>>>>, t2, FALSE)
            [] has /\ reg1 = "mSP" /\ PlainToken(reg2) = "HL" ->
                 EmitCode(<<Prefix(reg2) \o <<227>>>>, t2, FALSE)
            [] OTHER -> Illegal)

OpCode_IM(o, ts) ==
  LET n == NoMem(o, ts)
  IN Once(IF Lo(n.v) <= 2 THEN EmitCode(<<<<237, <<70, 86, 94>>[Lo(n.v) + 1]>>>>, n.ts, n.bad)
                          ELSE Illegal)

\* GetIoPort: any expression; NeedIoC: "(c)", the token "mC".
OpCode_IN(o, ts) ==
  LET reg == GetRegister(o, ts)
      t1  == AfterReg(o, ts)
      t2  == IF reg = "UNK" THEN ts ELSE Tail(t1)
      ioC == o.cpu = "z80" /\ Peek(t2) = "mC"
  IN CASE reg # "UNK" /\ ~TokenComma(t1) -> Illegal
       [] ioC /\ reg \in Reg8         -> EmitCode(<<<<237, 64 + 8 * R8[reg]>>>>, Tail(t2), FALSE)
       [] ioC /\ reg \in {"F", "UNK"} -> EmitCode(<<<<237, 112>>>>, Tail(t2), FALSE)
       [] ~ioC /\ reg = "A"           -> EmitImm8(<<219>>, Expr(t2))
       [] OTHER -> Illegal

OpCode_INC(o, ts) == OpCode_DecInc(o, 4, 3, ts)

\* "jp hl" and "jp (hl)" are the same instruction; a displacement after IX or
\* a register in brackets that is no pointer cannot be read as an address.
OpCode_JP(o, ts) ==
  LET cc  == GetCond(o, ts)
      ptr == IF Peek(ts) \in Indexed \cup {"mHL"}
               THEN [mHL |-> "HL", mIX |-> "IX", mIY |-> "IY"][Peek(ts)] ELSE Peek(ts)
  IN CASE cc # "UNK" -> IF TokenComma(Tail(ts))
                          THEN EmitImm16(<<194 + 8 * CC[cc]>>, Expr(Tail(Tail(ts)))) ELSE Illegal
       [] Peek(ts) = "mC" /\ o.next > 0 -> EmitCode(<<<<237, 152>>>>, Tail(ts), FALSE)
       [] ptr \in {"HL", "IX", "IY"} \cap Registers(o) /\ (Peek(ts) \in Indexed => src.d = 0) ->
            EmitCode(<<Prefix(ptr) \o <<233>>>>, Tail(ts), FALSE)
       [] GetRegister(o, ts) = "UNK" /\ Peek(ts) \notin {"mC", "mBC", "mDE", "mSP"} ->
            EmitImm16(<<195>>, Expr(ts))
       [] OTHER -> Illegal

OpCode_JR(o, ts) ==
  LET cc == GetCond(o, ts)
  IN CASE cc = "UNK"                     -> Relative(24, Expr(ts))
       [] cc # "UNK" /\ CC[cc] >= 4       -> Break(<<>>)
       [] cc # "UNK" /\ TokenComma(Tail(ts))   -> Relative(32 + 8 * CC[cc], Expr(Tail(Tail(ts))))
       [] OTHER -> Illegal

-----------------------------------------------------------------------------
(* ld: register to register first, then memory, constants and fakes.       *)

\* LD_simple_r_r on the two registers it read: the instructions, or <<>>.
LD_simple_r_r(o, r1, r2) ==
  LET p1 == Prefix(r1)  w1 == PlainToken(r1)
      p2 == Prefix(r2)  w2 == PlainToken(r2)
      p  == IF p1 = <<>> THEN p2 ELSE p1
      HorL == {"H", "L"}
      pair == {"BC", "DE", "HL"}
  IN CASE r1 = "A" /\ r2 \in {"I", "R"}  -> <<<<237, [I |-> 87, R |-> 95][r2]>>>>
       [] r2 = "A" /\ r1 \in {"I", "R"}  -> <<<<237, [I |-> 71, R |-> 79][r1]>>>>
       [] r2 = "A" /\ r1 \in LRMem       -> <<<<[mHLI |-> 34, mHLD |-> 50][r1]>>>>
       [] r1 = "A" /\ r2 \in LRMem       -> <<<<[mHLI |-> 42, mHLD |-> 58][r2]>>>>
       [] r1 = "SP" /\ w2 = "HL"         -> <<p2 \o <<249>>>>
       [] w1 \in pair /\ w2 \in pair /\ ~NoFakes(o) ->
            IF w1 = w2 /\ p1 # p2 THEN <<p2 \o <<229>>, p1 \o <<225>>>>
            ELSE LET q == IF p2 = <<>> THEN p1 ELSE p2
                     move(d, s) == q \o <<64 + 8 * R8[d] + R8[s]>>
                 IN <<move(GetRegister_r16High(w1), GetRegister_r16High(w2)),
                      move(GetRegister_r16Low(w1), GetRegister_r16Low(w2))>>
       [] /\ w1 \in DOMAIN R8 /\ w2 \in DOMAIN R8
          /\ ~(w1 = "mHL" /\ (w2 = "mHL" \/ r2 \in Halves))
          /\ w2 = "mHL" => p1 = <<>>
          /\ w1 \in HorL /\ w2 \in HorL => p1 = p2 ->
            <<p \o <<64 + 8 * R8[w1] + R8[w2]>> \o DispToken(r1) \o DispToken(r2)>>
       [] OTHER -> <<>>

\* The register pairs that LD_simple_r_r leaves to the fakes and to the
\* LR35902 form "ld hl,sp+r8".
LD_later(o, r1, r2) ==
  \/ r2 = "UNK"
  \/ r1 \in {"BC", "DE"} /\ PlainToken(r2) = "mHL"
  \/ r1 = "HL" /\ r2 \in Indexed
  \/ r1 = "mHL" /\ r2 \in {"BC", "DE", "IX", "IY"}
  \/ r1 \in Indexed /\ r2 \in {"BC", "DE", "HL", "IX", "IY"}
  \/ o.cpu = "lr35902" /\ r1 = "HL" /\ r2 = "SP"

\* Mutant: the displacement of the second byte wraps from 127 to -128.
LD_pairFake_wraps(mem, at, pair, load) ==
  LET half(r, d) == Prefix(mem) \o <<IF load THEN 70 + 8 * R8[r] ELSE 112 + R8[r]>> \o d
      lo == GetRegister_r16Low(pair)
      hi == GetRegister_r16High(pair)
  IN IF mem = "mHL" THEN <<half(lo, <<>>), <<35>>, half(hi, <<>>), <<43>>>>
     ELSE <<half(lo, <<at>>), half(hi, <<(at + 1) % 256>>)>>

\* The fakes that move a pair through memory, low byte first; (HL) is left
\* where it was, (IX+d) needs d + 1 to be a displacement too.
LD_pairFake(mem, at, pair, load) ==
  LET half(r, d) == Prefix(mem) \o <<IF load THEN 70 + 8 * R8[r] ELSE 112 + R8[r]>> \o d
      lo == GetRegister_r16Low(pair)
      hi == GetRegister_r16High(pair)
  IN IF mem = "mHL" THEN <<half(lo, <<>>), <<35>>, half(hi, <<>>), <<43>>>>
     ELSE IF at = 127 THEN <<>>
     ELSE <<half(lo, <<at>>), half(hi, <<(at + 1) % 256>>)>>

\* ld (nn),a and ld (nn),sp of the LR35902, which has a short form for $FFxx.
LD_LR35902(r2, v) ==
  CASE r2 = "A" /\ v \in 65280 .. 65535 -> <<<<224, Lo(v)>>>>
    [] r2 = "A"  -> <<<<234>> \o Word(v)>>
    [] r2 = "SP" -> <<<<8>> \o Word(v)>>
    [] OTHER     -> <<>>

\* ld with a register as destination and no register, or a fake, as source.
LD_source(o, r1, ts) ==
  LET r2  == GetRegister(o, ts)
      t2  == AfterReg(o, ts)
      x   == Expr(ts)
      mem == Peek(ts) = "m"
  IN CASE r1 = "A" /\ Peek(ts) \in {"mBC", "mDE"} ->
            EmitCode(<<<<[mBC |-> 10, mDE |-> 26][Peek(ts)]>>>>, Tail(ts), FALSE)
       [] r1 = "A" /\ Peek(ts) = "mC" /\ o.cpu = "lr35902" -> EmitCode(<<<<242>>>>, Tail(ts), FALSE)
       [] r1 = "A" /\ mem -> EmitCode(IF o.cpu # "lr35902" THEN <<<<58>> \o Word(x.v)>>
                                  ELSE IF x.v \in 65280 .. 65535 THEN <<<<240, Lo(x.v)>>>>
                                  ELSE <<<<250>> \o Word(x.v)>>, x.ts, FALSE)
       [] r1 = "A" /\ Peek(ts) = "n" -> EmitImm8(<<62>>, x)
       [] PlainToken(r1) \in DOMAIN R8 \ {"A"} /\ r2 = "UNK" ->
            EmitImm8(Prefix(r1) \o <<6 + 8 * R8[PlainToken(r1)]>> \o DispToken(r1), NoMem(o, ts))
       [] PlainToken(r1) = "mHL" /\ r2 \in {"BC", "DE"} \cup (IF r1 = "mHL" THEN {} ELSE {"HL"}) /\ ~NoFakes(o) ->
            EmitCode(LD_pairFake(r1, src.d, r2, FALSE), t2, FALSE)
       [] r1 \in {"BC", "DE", "HL"} /\ PlainToken(r2) = "mHL" /\ ~NoFakes(o) ->
            EmitCode(LD_pairFake(r2, src.d, r1, TRUE), t2, FALSE)
       [] r1 = "HL" /\ r2 = "SP" -> IF Peek(t2) = "n" THEN EmitImm8(<<248>>, SignedByte(Expr(t2)))  \* "sp+n"
                                                       ELSE EmitCode(<<<<248, 0>>>>, t2, FALSE)
       [] r1 \in DOMAIN RP /\ r2 = "UNK" /\ ~mem -> IF x.none THEN Illegal
                                                    ELSE EmitImm16(<<1 + 16 * RP[r1]>>, x)
       [] r1 = "HL" /\ mem /\ o.cpu # "lr35902" -> EmitImm16(<<42>>, x)
       [] r1 \in DOMAIN RP \ {"HL"} /\ mem /\ o.cpu = "z80" ->
            EmitImm16(<<237, 75 + 16 * RP[r1]>>, x)
       [] r1 \in {"IX", "IY"} /\ r2 = "UNK" /\ ~x.none ->
            EmitImm16(Prefix(r1) \o <<IF mem THEN 42 ELSE 33>>, x)
       [] OTHER -> Illegal

\* ld with memory that is not (HL) or (IX+d) as destination.
LD_memory(o, ts) ==
  LET r2 == GetRegister(o, Tail(Tail(ts)))
      t2 == AfterReg(o, Tail(Tail(ts)))
      nn == Word(src.v)
      op == CASE Peek(ts) = "mC" -> IF r2 = "A" /\ o.cpu = "lr35902" THEN <<<<226>>>> ELSE <<>>
              [] Peek(ts) \in {"mBC", "mDE"} ->
                   IF r2 = "A" THEN <<<<[mBC |-> 2, mDE |-> 18][Peek(ts)]>>>> ELSE <<>>
              [] Peek(ts) # "m" -> <<>>
              [] OTHER ->
                   CASE o.cpu = "lr35902"   -> LD_LR35902(r2, src.v)
                     [] r2 = "A"            -> <<<<50>> \o nn>>
                     [] PlainToken(r2) = "HL"    -> <<Prefix(r2) \o <<34>> \o nn>>
                     [] r2 \in DOMAIN RP /\ o.cpu = "z80" -> <<<<237, 67 + 16 * RP[r2]>> \o nn>>
                     [] OTHER               -> <<>>
  IN EmitCode(op, t2, FALSE)

OpCode_LD(o, ts) ==
  LET r1 == GetRegister(o, ts)
      t1 == AfterReg(o, ts)
      r2 == GetRegister(o, Tail(t1))
  IN CASE r1 = "UNK" -> IF Peek(ts) \in {"m", "mBC", "mDE", "mC", "mSP"} /\ TokenComma(Tail(ts))
                          THEN LD_memory(o, ts) ELSE Illegal
       [] r1 # "UNK" /\ ~TokenComma(t1)          -> Illegal
       [] r1 # "UNK" /\ LD_later(o, r1, r2) -> LD_source(o, r1, Tail(t1))
       [] OTHER -> EmitCode(LD_simple_r_r(o, r1, r2), AfterReg(o, Tail(t1)), FALSE)

-----------------------------------------------------------------------------
(* ldd, ldi: the block instruction, or the fake that loads or stores and   *)
(* then moves the pointer.                                                 *)

\* The LR35902 has these two as instructions of their own.
LR35902_LdPost(o, opcode, ts) ==
  LET t == SubSeq(ts, 1, 3)
  IN CASE Len(ts) >= 3 /\ t = <<"mHL", ",", "A">> -> EmitCode(<<<<opcode>>>>, SubSeq(ts, 4, Len(ts)), FALSE)
       [] Len(ts) >= 3 /\ t = <<"A", ",", "mHL">> -> EmitCode(<<<<opcode + 8>>>>, SubSeq(ts, 4, Len(ts)), FALSE)
       [] OTHER -> Illegal

OpCode_LR35902_LDD(o, ts) == LR35902_LdPost(o, 50, ts)
OpCode_LR35902_LDI(o, ts) == LR35902_LdPost(o, 34, ts)

\* The pointer of an operand in brackets, and the instruction that moves it.
Pointer(m) == [mBC |-> "BC", mDE |-> "DE", mHL |-> "HL", mIX |-> "IX", mIY |-> "IY"][m]
EncodeRound(m, up) == Prefix(Pointer(m)) \o
               <<16 * RP[PlainToken(Pointer(m))] + (IF up THEN 3 ELSE 11)>>

\* The 8-bit fakes: (bc) and (de) go with A only, a constant into memory only.
LD_post8(o, up, a, b, ts) ==
  LET ptr == {"mHL", "mIX", "mIY"} \cap Registers(o)
      imm == NoMem(o, ts)
  IN CASE a = "A" /\ b \in {"mBC", "mDE"} -> EmitCode(<<<<10 + 16 * RP[Pointer(b)]>>, EncodeRound(b, up)>>, Tail(ts), FALSE)
       [] b = "A" /\ a \in {"mBC", "mDE"} -> EmitCode(<<<<2 + 16 * RP[Pointer(a)]>>, EncodeRound(a, up)>>, Tail(ts), FALSE)
       [] a \in Reg8 /\ b \in ptr -> EmitCode(<<Ins8(b, 70 + 8 * R8[a]), EncodeRound(b, up)>>, Tail(ts), FALSE)
       [] a \in ptr /\ b \in Reg8 -> EmitCode(<<Ins8(a, 112 + R8[b]), EncodeRound(a, up)>>, Tail(ts), FALSE)
       [] a \in ptr /\ GetRegister(o, ts) = "UNK" -> EmitCode(<<Ins8(a, 54) \o <<Lo(imm.v)>>, EncodeRound(a, up)>>, imm.ts, imm.bad)
       [] OTHER -> Illegal

\* Any other first operand leaves the block instruction, and a register that
\* starts no fake has been read by then.
BlockOr(o, block, first, ts, res) ==
  CASE NoFakes(o) -> Once(EmitCode(<<block>>, ts, FALSE))
    [] Peek(ts) \in first \cup {"mBC", "mDE"} -> IF TokenComma(Tail(ts)) THEN res ELSE Illegal
    [] Peek(ts) \in {"m", "mC", "mSP"} -> Illegal
    [] OTHER -> EmitCode(<<block>>, AfterReg(o, ts), FALSE)

OpCode_LDD(o, ts) ==
  BlockOr(o, <<237, 168>>, Reg8 \cup {"mHL", "mIX", "mIY"}, ts,
          LD_post8(o, FALSE, Peek(ts), Peek(Tail(Tail(ts))), Tail(Tail(ts))))

OpCode_LR35902_LDH(o, ts) ==
  LET t == SubSeq(ts, 1, 3)
      a8 == IF src.v \in 65280 .. 65535 THEN src.v - 65280 ELSE src.v
  IN CASE Len(ts) >= 3 /\ t = <<"m", ",", "A">> -> EmitCode(<<<<224, Lo(a8)>>>>, SubSeq(ts, 4, Len(ts)), FALSE)
       [] Len(ts) >= 3 /\ t = <<"A", ",", "m">> -> EmitCode(<<<<240, Lo(a8)>>>>, SubSeq(ts, 4, Len(ts)), FALSE)
       [] OTHER -> Illegal

\* LDI has 16-bit fakes too: both halves, each followed by a step of the pointer.
OpCode_LDI(o, ts) ==
  LET a == Peek(ts)
      t2 == Tail(Tail(ts))
      b == Peek(t2)
      pairs == {"BC", "DE", "HL"}
      both(m, pair, load) ==
        LET half(r) == Ins8(m, IF load THEN 70 + 8 * R8[r] ELSE 112 + R8[r])
        IN EmitCode(<<half(GetRegister_r16Low(pair)), EncodeRound(m, TRUE),
                  half(GetRegister_r16High(pair)), EncodeRound(m, TRUE)>>, Tail(t2), FALSE)
      fake == CASE a \in pairs /\ b \in Indexed \cup {"mHL"} /\ ~(a = "HL" /\ b = "mHL") -> both(b, a, TRUE)
                [] b \in pairs /\ a \in Indexed \cup {"mHL"} /\ ~(b = "HL" /\ a = "mHL") -> both(a, b, FALSE)
                [] OTHER -> LD_post8(o, TRUE, a, b, t2)
  IN BlockOr(o, <<237, 160>>, Reg8 \cup pairs \cup {"mHL", "mIX", "mIY"}, ts, fake)

-----------------------------------------------------------------------------
(* The rest of the alphabet.                                               *)

\* mirror, swapnib: "a" may be written; pixelad, pixeldn: "hl" may be.
OptionalOperand(o, opcode, operand, ts) ==
  Once(CASE o.next = 0 -> Break(ts)
         [] GetRegister(o, ts) = operand -> EmitCode(<<<<237, opcode>>>>, Tail(ts), FALSE)
         [] GetRegister(o, ts) # "UNK" /\ operand = "A" -> Break(Tail(ts))
         [] OTHER -> EmitCode(<<<<237, opcode>>>>, ts, FALSE))

OpCode_Next_MUL(o, ts) ==
  Once(CASE o.next = 0 -> Break(ts)
         [] ts = <<>> /\ ~NoFakes(o) -> EmitCode(<<<<237, 48>>>>, ts, FALSE)
         [] Peek(ts) = "DE" -> EmitCode(<<<<237, 48>>>>, Tail(ts), FALSE)
         [] Len(ts) >= 3 /\ SubSeq(ts, 1, 3) = <<"D", ",", "E">> ->
              EmitCode(<<<<237, 48>>>>, SubSeq(ts, 4, Len(ts)), FALSE)
         [] OTHER -> Break(ts))

\* mulub and muluw of the R800, the accumulator or HL optional.
MulR800(o, acc, opcodes, ts) ==
  LET long == Len(ts) >= 2 /\ SubSeq(ts, 1, 2) = <<acc, ",">>
      t == IF long THEN Tail(Tail(ts)) ELSE ts
  IN Once(IF Peek(t) \in DOMAIN opcodes THEN EmitCode(<<<<237, opcodes[Peek(t)]>>>>, Tail(t), FALSE)
                                        ELSE Illegal)
OpCode_MULUB(o, ts) == MulR800(o, "A", [B |-> 193, C |-> 201, D |-> 209, E |-> 217], ts)
OpCode_MULUW(o, ts) == MulR800(o, "HL", [BC |-> 195, SP |-> 243], ts)

OpCode_Next_NEXTREG(o, ts) ==
  LET n  == NoMem(o, ts)
      r2 == GetRegister(o, Tail(n.ts))
      x  == NoMem(o, Tail(n.ts))
  IN CASE o.next = 0 \/ GetRegister(o, ts) # "UNK" -> Break(ts)
       [] ~TokenComma(n.ts) -> Break(n.ts)
       [] r2 = "A"   -> EmitCode(<<<<237, 146, Lo(n.v)>>>>, Tail(Tail(n.ts)), n.bad)
       [] r2 = "UNK" -> EmitCode(<<<<237, 145, Lo(n.v), Lo(x.v)>>>>, x.ts, n.bad \/ x.bad)
       [] OTHER -> Illegal

OpCode_OUT(o, ts) ==
  LET ioC == o.cpu = "z80" /\ Peek(ts) = "mC"
      n   == Expr(ts)
      reg == GetRegister(o, Tail(Tail(ts)))
      x   == NoMem(o, Tail(Tail(ts)))
  IN CASE ioC /\ ~TokenComma(Tail(ts)) -> Illegal
       [] ioC /\ reg \in Reg8 -> EmitCode(<<<<237, 65 + 8 * R8[reg]>>>>, SubSeq(ts, 4, Len(ts)), FALSE)
       [] ioC /\ reg = "UNK" /\ Lo(x.v) = 0 -> EmitCode(<<<<237, 113>>>>, x.ts, x.bad)
       [] ~ioC /\ TokenComma(n.ts) /\ GetRegister(o, Tail(n.ts)) = "A" ->
            EmitCode(<<<<211, Lo(n.v)>>>>, Tail(Tail(n.ts)), n.bad)
       [] OTHER -> Illegal

StackPair == [BC |-> 0, DE |-> 1, HL |-> 2, AF |-> 3]

OpCode_POPone(o, r) ==
  IF PlainToken(r) \in DOMAIN StackPair THEN <<Prefix(r) \o <<193 + 16 * StackPair[PlainToken(r)]>>>> ELSE <<>>

\* With --reversepop the registers are collected first, at most MAX_POP_REGS,
\* and popped from the last to the first: each round goes in front of the code.
MAX_POP_REGS == 30
OpCode_POP(o, ts) ==
  LET res == Relaxed(EmitCode(OpCode_POPone(o, GetRegister(o, ts)), AfterReg(o, ts), FALSE))
  IN IF o.revpop /\ Len(code) + 1 = MAX_POP_REGS THEN Once(res) ELSE res

OpCode_PUSH(o, ts) ==
  LET reg == GetRegister(o, ts)
      x   == NoMem(o, ts)
  IN Relaxed(CASE PlainToken(reg) \in DOMAIN StackPair ->
                    EmitCode(<<Prefix(reg) \o <<197 + 16 * StackPair[PlainToken(reg)]>>>>, Tail(ts), FALSE)
               [] reg = "UNK" /\ o.next > 0 -> EmitCode(<<<<237, 138, Hi(x.v), Lo(x.v)>>>>, x.ts, x.bad)
               [] OTHER -> Illegal)

OpCode_RES(o, ts) == BitFamily(o, 128, ts, TRUE)

OpCode_RET(o, ts) ==
  LET cc == GetCond(o, ts)
  IN Once(IF cc = "UNK" THEN EmitCode(<<<<201>>>>, ts, FALSE)
                        ELSE EmitCode(<<<<192 + 8 * CC[cc]>>>>, Tail(ts), FALSE))

\* rlc, rrc: the CB opcodes and nothing else.
OpCode_RotateOnly(o, base, ts) == OpCode_CbFamily(o, base, ts, TRUE).res

\* rl, rr, sla, sll, sra, srl: on a pair they are fakes of two instructions,
\* the second of which rotates the carry into the other half.
ShiftPair(o, base, second, lowFirst, ts) ==
  LET f  == OpCode_CbFamily(o, base, ts, TRUE)
      lo == R8[GetRegister_r16Low(f.reg)]
      hi == R8[GetRegister_r16High(f.reg)]
  IN CASE f.ok -> f.res
       [] ~f.ok /\ f.reg \in {"BC", "DE", "HL"} /\ ~NoFakes(o) ->
            EmitCode(<<<<203, base + (IF lowFirst THEN lo ELSE hi)>>,
                   <<203, second + (IF lowFirst THEN hi ELSE lo)>>>>, f.ts, FALSE)
       [] OTHER -> Illegal

OpCode_RL(o, ts)  == ShiftPair(o, 16, 16, TRUE, ts)
OpCode_RR(o, ts)  == ShiftPair(o, 24, 24, FALSE, ts)

OpCode_RST(o, ts) ==
  LET x == NoMem(o, ts)
  IN IF Lo(x.v) % 8 # 0 \/ Lo(x.v) > 56 THEN Break(<<>>)
     ELSE EmitCode(<<<<199 + Lo(x.v)>>>>, x.ts, x.bad)

OpCode_SBC(o, ts) == AdcSbc(o, 152, 66, ts)
OpCode_SET(o, ts) == BitFamily(o, 192, ts, TRUE)

\* setbrk and clrbrk of the CSpect emulator: a type and two addresses.
CSpectBreak(o, opcode, ts) ==
  LET ex(k) == Expr(SubSeq(ts, k, Len(ts)))
  IN Once(IF o.next < 2 THEN Break(<<>>)
          ELSE IF Len(ts) >= 5 /\ ts[2] = "," /\ ts[4] = ","
            THEN EmitCode(<<<<237, opcode, Lo(ex(1).v)>> \o Word(ex(3).v) \o Word(ex(5).v)>>,
                      ex(5).ts, ex(1).bad \/ ex(3).bad \/ ex(5).bad)
          ELSE Break(ts))

OpCode_SLA(o, ts) ==
  IF GetRegister(o, ts) = "HL" /\ ~NoFakes(o) THEN EmitCode(<<<<41>>>>, Tail(ts), FALSE)
  ELSE ShiftPair(o, 32, 16, TRUE, ts)
OpCode_SLL(o, ts) == ShiftPair(o, 48, 16, TRUE, ts)
OpCode_SRA(o, ts) == ShiftPair(o, 40, 24, FALSE, ts)
OpCode_SRL(o, ts) == ShiftPair(o, 56, 24, FALSE, ts)

OpCode_LR35902_STOP(o, ts) ==
  Once(IF ts = <<>> THEN EmitCode(<<<<16, 0>>>>, ts, FALSE) ELSE EmitImm8(<<16>>, NoMem(o, ts)))

\* sub has no 16-bit form on any CPU: both pairs are fakes that clear the carry.
OpCode_SUB(o, ts) ==
  LET pairs(reg, reg2, t2) ==
        CASE reg = "HL" /\ reg2 \in DOMAIN RP /\ ~NoFakes(o) ->
               EmitCode(<<<<183>>, <<237, 66 + 16 * RP[reg2]>>>>, t2, FALSE)
          [] reg = "DE" /\ reg2 \in DOMAIN RP /\ ~NoFakes(o) ->
               EmitCode(<<<<183>>, <<235>>, <<237, 66 + 16 * Exchanged[reg2]>>, <<235>>>>, t2, FALSE)
          [] OTHER -> Illegal
      common == CommonAluOpcode(o, 144, ts, TRUE, TRUE)
  IN IF common.ok THEN common.res ELSE SixteenBit(o, ts, pairs)

OpCode_Next_TEST(o, ts) ==
  Once(IF o.next = 0 THEN Break(ts) ELSE EmitImm8(<<237, 39>>, NoMem(o, ts)))

-----------------------------------------------------------------------------
(* Instructions without operands, in the order of the source, and those of *)
(* the Spectrum Next and of the CSpect emulator.                           *)

Fixed_CtoD == [ccf |-> <<63>>, cpd |-> <<237, 169>>, cpdr |-> <<237, 185>>, cpi |-> <<237, 161>>,
               cpir |-> <<237, 177>>, cpl |-> <<47>>, daa |-> <<39>>]
Fixed_DtoE == [di |-> <<243>>, ei |-> <<251>>]
Fixed_E    == [exa |-> <<8>>, exd |-> <<235>>, exx |-> <<217>>, halt |-> <<118>>]
Fixed_I    == [ind |-> <<237, 170>>, indr |-> <<237, 186>>, ini |-> <<237, 162>>,
               inir |-> <<237, 178>>, inf |-> <<237, 112>>]
Fixed_LtoN == [lddr |-> <<237, 184>>, ldir |-> <<237, 176>>, neg |-> <<237, 68>>, nop |-> <<0>>]
Fixed_O    == [otdr |-> <<237, 187>>, otir |-> <<237, 179>>, outd |-> <<237, 171>>, outi |-> <<237, 163>>]
Fixed_R    == [reti |-> <<237, 77>>, retn |-> <<237, 69>>, rla |-> <<23>>, rlca |-> <<7>>,
               rld |-> <<237, 111>>, rra |-> <<31>>, rrca |-> <<15>>, rrd |-> <<237, 103>>, scf |-> <<55>>]
Fixed == Fixed_CtoD @@ Fixed_DtoE @@ Fixed_E @@ Fixed_I @@ Fixed_LtoN @@ Fixed_O @@ Fixed_R

FixedNext_LD == [lddrx |-> <<237, 188>>, lddx |-> <<237, 172>>, ldirx |-> <<237, 180>>,
                 ldix |-> <<237, 164>>, ldpirx |-> <<237, 183>>, ldws |-> <<237, 165>>]
FixedNext_OS == [outinb |-> <<237, 144>>, setae |-> <<237, 149>>]
FixedNext == FixedNext_LD @@ FixedNext_OS
FixedCSpect == [break |-> <<253, 0>>, exit |-> <<221, 0>>]

Barrel == [brlc |-> 44, bsla |-> 40, bsra |-> 41, bsrf |-> 43, bsrl |-> 42]

\* A handler with no operand reads none.
Plainly(e, enabled, ts) == Once(IF enabled THEN EmitCode(<<e>>, ts, FALSE) ELSE Break(ts))

-----------------------------------------------------------------------------
(* OpCodeTable: which mnemonics the CPU has (Init, InitNextExtensions).    *)

SharedMnemonics ==
  {"adc", "add", "and", "call", "ccf", "cp", "cpl", "daa", "dec", "di", "ei", "exd", "halt", "inc",
   "jp", "ld", "nop", "or", "pop", "push", "ret", "rla", "rlca", "rra", "rrca", "rst", "sbc", "scf",
   "sub", "xor"}
NotI8080Mnemonics == {"bit", "jr", "res", "rl", "rlc", "rr", "rrc", "set", "sla", "sra", "srl"}
LR35902Mnemonics == {"ldd", "ldh", "ldi", "reti", "stop", "swap"}
Z80Mnemonics ==
  {"cpd", "cpdr", "cpi", "cpir", "djnz", "exa", "exx", "im", "ind", "indr", "inf", "ini", "inir",
   "ldd", "lddr", "ldi", "ldir", "mulub", "muluw", "neg", "otdr", "otir", "outd", "outi", "reti",
   "retn", "rld", "rrd", "sli", "sll"}
NextMnemonics ==
  DOMAIN Barrel \cup DOMAIN FixedNext \cup DOMAIN FixedCSpect
  \cup {"mirror", "mul", "nextreg", "pixelad", "pixeldn", "swapnib", "test", "setbrk", "clrbrk"}

InOpCodeTable(o, mn) ==
  \/ mn \in SharedMnemonics
  \/ o.cpu # "lr35902" /\ mn \in {"ex", "in", "out"}
  \/ o.cpu # "i8080" /\ mn \in NotI8080Mnemonics
  \/ o.cpu = "lr35902" /\ mn \in LR35902Mnemonics
  \/ o.cpu = "z80" /\ mn \in Z80Mnemonics
  \/ o.next > 0 /\ mn \in NextMnemonics

\* GetOpCode: one round of the handler of mnemonic mn on the tokens ts.
Handler(o, mn, ts) ==
  CASE ~InOpCodeTable(o, mn) -> Break(<<>>)
    [] o.cpu = "lr35902" /\ mn = "ldd"  -> OpCode_LR35902_LDD(o, ts)
    [] o.cpu = "lr35902" /\ mn = "ldi"  -> OpCode_LR35902_LDI(o, ts)
    [] o.cpu = "lr35902" /\ mn = "reti" -> Plainly(Fixed["exx"], TRUE, ts)
    [] mn = "ldh"  -> OpCode_LR35902_LDH(o, ts)
    [] mn = "stop" -> OpCode_LR35902_STOP(o, ts)
    [] mn = "ldd"  -> OpCode_LDD(o, ts)
    [] mn = "ldi"  -> OpCode_LDI(o, ts)
    [] mn \in DOMAIN Fixed -> Plainly(Fixed[mn], TRUE, ts)
    [] mn \in DOMAIN FixedNext -> Plainly(FixedNext[mn], o.next > 0, ts)
    [] mn \in DOMAIN FixedCSpect -> Plainly(FixedCSpect[mn], o.next > 1, ts)
    [] mn \in DOMAIN Barrel -> OpCode_Z80N_BarrelShifts(o, Barrel[mn], ts)
    [] mn = "adc"  -> OpCode_ADC(o, ts)
    [] mn = "add"  -> OpCode_ADD(o, ts)
    [] mn \in {"and", "xor", "or", "cp"} ->
         OpCode_SimpleAlu(o, [and |-> 160, xor |-> 168, or |-> 176, cp |-> 184][mn], ts)
    [] mn = "bit"  -> OpCode_BIT(o, ts)
    [] mn = "call" -> OpCode_CALL(o, ts)
    [] mn \in {"setbrk", "clrbrk"} -> CSpectBreak(o, [setbrk |-> 1, clrbrk |-> 2][mn], ts)
    [] mn = "dec"  -> OpCode_DEC(o, ts)
    [] mn = "djnz" -> OpCode_DJNZ(o, ts)
    [] mn = "ex"   -> OpCode_EX(o, ts)
    [] mn = "im"   -> OpCode_IM(o, ts)
    [] mn = "in"   -> OpCode_IN(o, ts)
    [] mn = "inc"  -> OpCode_INC(o, ts)
    [] mn = "jp"   -> OpCode_JP(o, ts)
    [] mn = "jr"   -> OpCode_JR(o, ts)
    [] mn = "ld"   -> OpCode_LD(o, ts)
    [] mn \in {"mirror", "swapnib"} -> OptionalOperand(o, [mirror |-> 36, swapnib |-> 35][mn], "A", ts)
    [] mn \in {"pixelad", "pixeldn"} -> OptionalOperand(o, [pixelad |-> 148, pixeldn |-> 147][mn], "HL", ts)
    [] mn = "mul"  -> OpCode_Next_MUL(o, ts)
    [] mn = "mulub" -> OpCode_MULUB(o, ts)
    [] mn = "muluw" -> OpCode_MULUW(o, ts)
    [] mn = "nextreg" -> OpCode_Next_NEXTREG(o, ts)
    [] mn = "out"  -> OpCode_OUT(o, ts)
    [] mn = "pop"  -> OpCode_POP(o, ts)
    [] mn = "push" -> OpCode_PUSH(o, ts)
    [] mn = "res"  -> OpCode_RES(o, ts)
    [] mn = "ret"  -> OpCode_RET(o, ts)
    [] mn = "rl"   -> OpCode_RL(o, ts)
    [] mn = "rr"   -> OpCode_RR(o, ts)
    [] mn \in {"rlc", "rrc"} -> OpCode_RotateOnly(o, [rlc |-> 0, rrc |-> 8][mn], ts)
    [] mn = "rst"  -> OpCode_RST(o, ts)
    [] mn = "sbc"  -> OpCode_SBC(o, ts)
    [] mn = "set"  -> OpCode_SET(o, ts)
    [] mn = "sla"  -> OpCode_SLA(o, ts)
    [] mn \in {"sli", "sll", "swap"} -> OpCode_SLL(o, ts)
    [] mn = "sra"  -> OpCode_SRA(o, ts)
    [] mn = "srl"  -> OpCode_SRL(o, ts)
    [] mn = "sub"  -> OpCode_SUB(o, ts)
    [] mn = "test" -> OpCode_Next_TEST(o, ts)

-----------------------------------------------------------------------------
Z80Init ==
  /\ src \in Sources
  /\ opt \in Modes
  /\ lp = src.ts
  /\ code = <<>>
  /\ bad = FALSE
  /\ busy = TRUE

\* One round of the handler: what it emits, what it leaves, and whether the
\* delimiter of its loop follows.  Tokens left at the end are an error.
Round ==
  /\ busy
  /\ \E r \in {Handler(opt, src.mn, lp)} :
       LET rest == CASE r.sep = "multi"   -> MultiArg(opt, r.ts)
                     [] r.sep = "relaxed" -> RelaxedMaComma(opt, r.ts)
                     [] r.sep = "none"    -> r.ts
           round == <<[of |-> SubSeq(lp, 1, Len(lp) - Len(r.ts)), e |-> r.e]>>
       IN /\ lp' = rest
          /\ busy' = (rest # r.ts)
          /\ code' = IF src.mn = "pop" /\ opt.revpop THEN round \o code ELSE code \o round
          /\ bad' = (bad \/ r.bad \/ (rest = r.ts /\ rest # <<>>))
  /\ UNCHANGED <<src, opt>>

LineDone == ~busy /\ UNCHANGED z80Vars

Z80Next == Round \/ LineDone

Z80Spec == Z80Init /\ [][Z80Next]_z80Vars /\ WF_z80Vars(Round)

=============================================================================
