---------------------------- MODULE OutputFiles ----------------------------
(***************************************************************************)
(* The streams that follow the emitted bytes in the last pass (sjio.cpp):    *)
(* OUTPUT with its write buffer, SIZE and FPOS, the block of TAPOUT, the raw  *)
(* file, the records of HEXOUT, and what --cleanonerror deletes at the end.  *)
(*                                                                         *)
(* An emitted byte is {n} for a number n of its own, zero is {}: exclusive   *)
(* or is the symmetric difference.  io holds the file-static variables.      *)
(***************************************************************************)
EXTENDS Integers, Sequences, FiniteSets

CONSTANTS
  DESTBUFLEN,       \* 8192 in the code
  TapeMax,          \* 65535: the length of a tape block with flag and parity
  HEX_RECORD_MAX,   \* 16
  Names,            \* files OUTPUT may write
  Tape,             \* the file of TAPOUT, made by EMPTYTAP
  FileSizes,        \* arguments of SIZE
  Positions,        \* arguments of FPOS
  Addresses,        \* arguments of ORG
  CleanOnError,     \* --cleanonerror
  DiskFull,         \* whether writes to files fail
  StackLimit,       \* nested calls of ExitASM that the process survives
  MaxBytes          \* bound: bytes emitted, and directives between them

\* The tape is no file of OUTPUT; the name "" stands for no file.
ASSUME OutputFilesAssumption ==
  /\ Tape \notin Names /\ "" \notin Names
  /\ FileSizes \subseteq Int /\ Positions \subseteq Int /\ Addresses \subseteq Int
  /\ DESTBUFLEN \in Nat \ {0} /\ TapeMax \in Nat /\ TapeMax > 2 /\ HEX_RECORD_MAX \in Nat \ {0}
  /\ StackLimit \in Nat /\ MaxBytes \in Nat /\ CleanOnError \in BOOLEAN /\ DiskFull \in BOOLEAN

VARIABLES
  io,        \* the state of sjio.cpp
  address,   \* CurAddress
  emitted,   \* bytes so far
  budget,    \* directives still to come
  phase,     \* "assemble", "exit" inside ExitASM, "done" or "crashed"
  want       \* what the files ought to hold, and the ones created: [out, taps, hex, created]

outVars == <<io, address, emitted, budget, phase, want>>

-----------------------------------------------------------------------------
Closed == [name |-> "", pos |-> 0]
Xor(a, b) == (a \ b) \cup (b \ a)
Times(n, bytes) == Cardinality({k \in DOMAIN bytes : n \in bytes[k]})
XorAll(bytes) == {n \in UNION {bytes[k] : k \in DOMAIN bytes} : Times(n, bytes) % 2 = 1}

\* The content with bytes written at pos; a gap is filled with zeros.
Overlay(content, pos, bytes) ==
  LET end == pos + Len(bytes)
  IN  IF bytes = <<>> THEN content
      ELSE [k \in 1..(IF end > Len(content) THEN end ELSE Len(content)) |->
         IF pos < k /\ k <= end THEN bytes[k - pos]
         ELSE IF k <= Len(content) THEN content[k] ELSE {}]

NoTape == [open |-> FALSE, data |-> <<>>, flag |-> {}, parity |-> {}, length |-> 0]

\* CloseTapFile behind its WriteDest: parity, then the length in front of the block.
FinishTape(s) ==
  IF ~s.tap.open THEN s
  ELSE [s EXCEPT !.disk[Tape] = Append(@, [length |-> s.tap.length, flag |-> s.tap.flag,
                                           data |-> s.tap.data, parity |-> s.tap.parity]),
                 !.tap = NoTape, !.destlen = 0]

\* A failed write or seek is a fatal error.
Failed(s) == [s EXCEPT !.fatal = TRUE, !.errors = @ + 1]

\* WriteDest: the buffer to the output file, to the raw file, and to the tape as far as the
\* block has room.
ToFile(s) ==
  IF s.fp = Closed THEN s
  ELSE [s EXCEPT !.disk[s.fp.name] = Overlay(@, s.fp.pos, s.wb), !.fp.pos = @ + Len(s.wb)]
ToRaw(s) == [s EXCEPT !.raw = @ \o s.wb, !.destlen = @ + Len(s.wb), !.wb = <<>>]
ToTape(s, bytes) ==
  [s EXCEPT !.tap.data = @ \o bytes, !.tap.length = @ + Len(bytes), !.tap.parity = Xor(@, XorAll(bytes))]
Room(s) == TapeMax - s.tap.length

WriteDest(s) ==
  IF s.wb = <<>> THEN s
  ELSE IF DiskFull /\ (s.fp # Closed \/ s.tap.open) THEN Failed(s)
  ELSE IF ~s.tap.open THEN ToRaw(ToFile(s))
  ELSE IF Len(s.wb) <= Room(s) THEN ToTape(ToRaw(ToFile(s)), s.wb)
  ELSE [FinishTape(ToTape(ToRaw(ToFile(s)), SubSeq(s.wb, 1, Room(s)))) EXCEPT !.errors = @ + 1]

EndBlock(s) == IF s.fatal THEN s ELSE FinishTape(s)
CloseTapFile(s) == EndBlock(WriteDest(s))

\* CloseDest: what is missing to the size is filled with zeros through the same buffer, a
\* buffer at a time.  A block of tape they overflow ends with the flush that meets its limit;
\* that resets destlen, and the filling begins again.
Missing(s) == IF s.size # -1 /\ s.destlen < s.size THEN s.size - s.destlen ELSE 0
UntilOverflow(s) == DESTBUFLEN * (Room(s) \div DESTBUFLEN + 1)
Zeros(s) ==
  [k \in 1..(IF s.tap.open /\ UntilOverflow(s) < Missing(s) THEN UntilOverflow(s) ELSE Missing(s)) |-> {}]
Pad(s) == IF s.fatal THEN s ELSE WriteDest([s EXCEPT !.wb = Zeros(s)])
TooLong(s) == IF s.size # -1 /\ s.destlen > s.size THEN [s EXCEPT !.errors = @ + 1] ELSE s
Released(s) == IF s.fatal THEN s ELSE [s EXCEPT !.size = -1, !.fp = Closed, !.destlen = 0]
EndDest(s) == IF s.fatal \/ s.fp = Closed THEN s ELSE Released(Pad(Pad(TooLong(s))))
CloseDest(s) == EndDest(WriteDest(s))

Truncated(s, name) == [s EXCEPT !.disk[name] = <<>>, !.exists = @ \cup {name}]
Registered(s, name) == [s EXCEPT !.toDelete = @ \cup {name}]
Opened(s, name, pos) == [s EXCEPT !.destlen = 0, !.fp = [name |-> name, pos |-> pos]]
Created(s, name, mode) == mode = "t" \/ name \notin s.exists
StartOf(s, name, mode) == IF mode = "a" THEN Len(s.disk[name]) ELSE 0

\* mutant: a created file is only registered when it is closed
OpenDest_late(s, name, mode) ==
  IF Created(s, name, mode) THEN Opened(Truncated(s, name), name, 0)
  ELSE Opened(s, name, StartOf(s, name, mode))

\* OpenDest; AddDeleteOnError only for a file that is created.
OpenDest(s, name, mode) ==
  IF Created(s, name, mode) THEN Opened(Registered(Truncated(s, name), name), name, 0)
  ELSE Opened(s, name, StartOf(s, name, mode))
OpenNext(s, name, mode) == IF s.fatal THEN s ELSE OpenDest(s, name, mode)

\* SeekDest: a position before the file is a fatal error.
Seek(s, p) ==
  IF s.fatal \/ s.fp = Closed THEN s ELSE IF p < 0 THEN Failed(s) ELSE [s EXCEPT !.fp.pos = p]
SeekFrom(s, offset, relative) == Seek(s, IF relative THEN s.fp.pos + offset ELSE offset)
SeekDest(s, offset, relative) == SeekFrom(WriteDest(s), offset, relative)

\* OpenTapFile: the tape has to exist.
StartBlock(s, flag) ==
  IF s.fatal THEN s
  ELSE IF Tape \notin s.exists THEN [s EXCEPT !.errors = @ + 1]
  ELSE [s EXCEPT !.destlen = 0,
          !.tap = [open |-> TRUE, data |-> <<>>, flag |-> flag, parity |-> flag, length |-> 2]]
OpenTapFile(s, flag) == StartBlock(CloseTapFile(s), flag)

\* FlushHexBuffer, EmitToHex, OpenHex, CloseHex
FlushHexBuffer(s) ==
  IF s.hex.bytes = <<>> THEN s
  ELSE [s EXCEPT !.hex.records = Append(@, [address |-> s.hex.address, data |-> s.hex.bytes]),
                 !.hex.bytes = <<>>]
Put(s, b, adr) ==
  [s EXCEPT !.hex.address = IF s.hex.bytes = <<>> THEN adr ELSE @, !.hex.bytes = Append(@, b)]
FlushFull(s) == IF Len(s.hex.bytes) = HEX_RECORD_MAX THEN FlushHexBuffer(s) ELSE s

\* mutant: the buffered record goes on over a jump of the address
EmitToHex_nojump(s, b, adr) == IF ~s.hex.open THEN s ELSE FlushFull(Put(s, b, adr))

EmitToHex(s, b, adr) ==
  IF ~s.hex.open THEN s
  ELSE IF s.hex.address + Len(s.hex.bytes) # adr THEN FlushFull(Put(FlushHexBuffer(s), b, adr))
  ELSE FlushFull(Put(s, b, adr))

CloseHex(s) == IF s.hex.open THEN [FlushHexBuffer(s) EXCEPT !.hex.open = FALSE] ELSE s

\* Close
EndTap(s) == IF s.fatal THEN s ELSE CloseTapFile(s)
EndHex(s) == IF s.fatal THEN s ELSE CloseHex(s)
Close(s) == EndHex(EndTap(CloseDest(s)))

\* DeleteOnError
DeleteOnError(s) ==
  IF s.errors = 0 \/ ~CleanOnError THEN s
  ELSE [s EXCEPT !.exists = @ \ s.toDelete, !.toDelete = {}]

-----------------------------------------------------------------------------
(* Directives.  want follows them without any buffer.                      *)

Spend == budget > 0 /\ budget' = budget - 1

\* After a step of the assembler: a fatal error calls ExitASM.
Go(s) == /\ phase = "assemble"
         /\ io' = s /\ phase' = IF s.fatal THEN "exit" ELSE "assemble"

\* EmitByteNoListing
Buffered(s, b) == [s EXCEPT !.wb = Append(@, b)]
FlushDest(s) == IF Len(s.wb) = DESTBUFLEN THEN WriteDest(s) ELSE s
AlsoToHex(s, b, adr) == IF s.fatal THEN s ELSE EmitToHex(s, b, adr)

\* What one more byte adds to the contents asked for.
Wanted(w, b) ==
  [w EXCEPT
     !.out = IF io.fp = Closed THEN @ ELSE [pos |-> @.pos + 1, data |-> Overlay(@.data, @.pos, <<b>>)],
     !.taps = IF io.tap.open THEN [w.taps EXCEPT ![Len(w.taps)] = Append(@, b)] ELSE @,
     !.hex = IF io.hex.open THEN [w.hex EXCEPT ![address] = b] ELSE @]

EmitByte ==
  /\ emitted < MaxBytes
  /\ Go(AlsoToHex(FlushDest(Buffered(io, {emitted + 1})), {emitted + 1}, address))
  /\ emitted' = emitted + 1 /\ address' = address + 1
  /\ want' = Wanted(want, {emitted + 1})
  /\ UNCHANGED budget

ORG(a) == /\ Spend /\ phase = "assemble" /\ address # a
          /\ address' = a /\ UNCHANGED <<io, emitted, phase, want>>

\* dirOUTPUT, NewDest
Ordered(w, s, name, mode) ==
  IF s.fatal THEN w
  ELSE IF Created(s, name, mode)
    THEN [w EXCEPT !.out = [pos |-> 0, data |-> <<>>], !.created = @ \cup {name}]
  ELSE [w EXCEPT !.out = [pos |-> StartOf(s, name, mode), data |-> s.disk[name]]]
OUTPUT(name, mode) ==
  /\ Spend /\ Go(OpenNext(CloseDest(io), name, mode))
  /\ want' = Ordered(want, CloseDest(io), name, mode)
  /\ UNCHANGED <<address, emitted>>

OUTEND == /\ Spend /\ Go(CloseDest(io))
          /\ UNCHANGED <<address, emitted, want>>

\* dirSIZE: the first one counts, others must agree.
SIZE(n) ==
  /\ Spend
  /\ Go(IF io.size = -1 THEN [io EXCEPT !.size = n]
        ELSE IF io.size # n THEN [io EXCEPT !.errors = @ + 1] ELSE io)
  /\ UNCHANGED <<address, emitted, want>>

FPOS(n, relative) ==
  /\ Spend /\ Go(SeekDest(io, n, relative))
  /\ want' = IF io.fp = Closed THEN want
             ELSE [want EXCEPT !.out.pos = IF relative THEN @ + n ELSE n]
  /\ UNCHANGED <<address, emitted>>

\* EMPTYTAP, TAP_SaveEmpty; not modelled under an open block.
EMPTYTAP ==
  /\ Spend /\ ~io.tap.open
  /\ Go([io EXCEPT !.disk[Tape] = <<>>, !.exists = @ \cup {Tape}, !.toDelete = @ \cup {Tape}])
  /\ want' = [want EXCEPT !.taps = <<>>, !.created = @ \cup {Tape}]
  /\ UNCHANGED <<address, emitted>>

\* dirTAPOUT; the blocks of want are not cut at the largest size.
TAPOUT ==
  /\ Spend /\ Go(OpenTapFile(io, {0}))
  /\ want' = IF io'.tap.open /\ ~io'.fatal THEN [want EXCEPT !.taps = Append(@, <<>>)] ELSE want
  /\ UNCHANGED <<address, emitted>>

TAPEND == /\ Spend /\ Go(CloseTapFile(io))
          /\ UNCHANGED <<address, emitted, want>>

HEXOUT ==
  /\ Spend
  /\ Go(IF io.hex.open THEN [io EXCEPT !.errors = @ + 1]
        ELSE [io EXCEPT !.hex = [open |-> TRUE, bytes |-> <<>>, address |-> @.address, records |-> <<>>]])
  /\ want' = IF io.hex.open THEN want ELSE [want EXCEPT !.hex = [a \in DOMAIN @ |-> {}]]
  /\ UNCHANGED <<address, emitted>>

HEXEND == /\ Spend /\ Go(IF io.hex.open THEN CloseHex(io) ELSE [io EXCEPT !.errors = @ + 1])
          /\ UNCHANGED <<address, emitted, want>>

\* The end of main, and ExitASM of a fatal error: a write that fails again calls it again.
Deeper(s) == [s EXCEPT !.depth = @ + 1]
Finished(s) == IF s.fatal THEN Deeper(s) ELSE DeleteOnError(s)
Finish ==
  /\ phase \in {"assemble", "exit"}
  /\ io' = Finished(Close([io EXCEPT !.fatal = FALSE]))
  /\ phase' = IF ~io'.fatal THEN "done" ELSE IF io.depth = StackLimit THEN "crashed" ELSE "exit"
  /\ UNCHANGED <<address, emitted, budget, want>>

OutInit ==
  /\ io = [disk |-> [n \in Names \cup {Tape} |-> <<>>], exists |-> {}, wb |-> <<>>, fp |-> Closed,
           destlen |-> 0, size |-> -1, tap |-> NoTape, raw |-> <<>>,
           hex |-> [open |-> FALSE, bytes |-> <<>>, address |-> 0, records |-> <<>>],
           errors |-> 0, toDelete |-> {}, fatal |-> FALSE, depth |-> 0]
  /\ address = 0 /\ emitted = 0 /\ budget = MaxBytes /\ phase = "assemble"
  /\ want = [out |-> [pos |-> 0, data |-> <<>>], taps |-> <<>>,
             hex |-> [a \in 0..3 * MaxBytes |-> {}], created |-> {}]

OutNext ==
  \/ EmitByte
  \/ \E a \in Addresses : ORG(a)
  \/ \E name \in Names, mode \in {"t", "r", "a"} : OUTPUT(name, mode)
  \/ OUTEND
  \/ \E n \in FileSizes : SIZE(n)
  \/ \E n \in Positions, relative \in BOOLEAN : FPOS(n, relative)
  \/ EMPTYTAP
  \/ TAPOUT
  \/ TAPEND
  \/ HEXOUT
  \/ HEXEND
  \/ Finish

OutSpec == OutInit /\ [][OutNext]_outVars

-----------------------------------------------------------------------------
(* Properties.                                                             *)

\* The open output file with the buffer written at its position is what the emitted bytes,
\* OUTPUT, FPOS ask for, without any buffer in between (WriteDest, SeekDest, OpenDest).
OutputIsStream ==
  (phase = "assemble" /\ io.fp # Closed) =>
    Overlay(io.disk[io.fp.name], io.fp.pos, io.wb) = want.out.data

\* The bytes of a stream in order, apart from zeros between them, are the first of those wanted.
Solid(bytes) == {k \in DOMAIN bytes : bytes[k] # {}}
Rank(places, k) == Cardinality({j \in places : j <= k})
Begins(bytes, wanted) ==
  /\ Cardinality(Solid(bytes)) <= Len(wanted)
  /\ \A k \in Solid(bytes) : bytes[k] = wanted[Rank(Solid(bytes), k)]
Holds(bytes, wanted) == Begins(bytes, wanted) /\ Cardinality(Solid(bytes)) = Len(wanted)

\* A block on the tape has its length and parity, and it holds the bytes that were emitted
\* between its TAPOUT and TAPEND: all of them, or as many as the largest block has room for,
\* also when the limit falls into the middle of a flush.  Zeros that SIZE adds to the output
\* file get into the block that is open then (WriteDest, CloseTapFile, CloseDest).
Sound(block, wanted) ==
  /\ block.length = Len(block.data) + 2 /\ block.length <= TapeMax
  /\ block.parity = Xor(block.flag, XorAll(block.data))
  /\ Begins(block.data, wanted)
  /\ Holds(block.data, wanted) \/ block.length = TapeMax
TapeBlocksAreSound ==
  Tape \in io.exists => \A k \in DOMAIN io.disk[Tape] : Sound(io.disk[Tape][k], want.taps[k])

\* The raw file gets every byte exactly once and in order; zeros of SIZE may come between.
RawIsComplete ==
  phase = "done" => Holds(io.raw, [n \in 1..emitted |-> {n}])

\* A reader of the HEX records has the last byte emitted at each address, wherever ORG went
\* between the bytes of a record (EmitToHex).
Records(hex) == Append(hex.records, [address |-> hex.address, data |-> hex.bytes])
Covering(all, a) ==
  {k \in DOMAIN all : all[k].address <= a /\ a < all[k].address + Len(all[k].data)}
Latest(places) == CHOOSE k \in places : \A j \in places : j <= k
Loaded(all, a) ==
  LET last == all[Latest(Covering(all, a))]
  IN  IF Covering(all, a) = {} THEN {} ELSE last.data[a - last.address + 1]
HexHasLastBytes ==
  phase = "assemble" \/ phase = "done" =>
    \A a \in DOMAIN want.hex : want.hex[a] = Loaded(Records(io.hex), a)

\* With --cleanonerror no file that this run created is left behind after an error, the one
\* still open when a fatal error happened included (AddDeleteOnError, ExitASM).
NothingLeftBehind ==
  (phase = "done" /\ CleanOnError /\ io.errors > 0) =>
    \A n \in want.created : n \notin io.exists

\* Every stream gets its bytes, and with --cleanonerror no file of a failed run stays
\* (sjio.cpp).
StreamsAgree == OutputIsStream /\ TapeBlocksAreSound /\ RawIsComplete /\ HexHasLastBytes
OutputIsTrue == StreamsAgree /\ NothingLeftBehind
=============================================================================
