# sjasmplus in TLA+

sjasmplus is a Z80 cross-assembler. It reads a source in three passes, grows a
table of labels and emits machine code into the emulated memory of a device, into
files and into images for other machines; scripts in its bundled Lua 5.5 may
write source lines of their own. It is a sequential program. What makes it hard is
that nearly everything is global state that survives from line to line, and partly
from pass to pass: caches of the memory mapping, label values of the previous pass,
a relocation table of the previous pass, the positions of four nested loops that
share one reader, write buffers, stacks of positions, suppressed errors, and a
garbage collector that runs between any two steps of a script.

The modules in this directory model those parts, TLC checks them on small
instances, and TLAPS proves the properties that matter most for every value of the
constants. Source references are to `src/sjasm/` unless a path is given.
`PROJECT.json` maps every definition to the lines it models.

## Inventory

| Component | State it keeps | Operations | What makes it correct |
|---|---|---|---|
| Device memory (`devices.cpp`, `sjio.cpp`, `directives.cpp`) | slots, pages, contents, `CurAddress`, `adrdisp`, the caches `previousSlotI`, `previousSlotOpt`, `Page`, `MemoryPointer`, `limitExceeded` | ORG, DISP, ENT, PAGE, MMU, SLOT, BLOCK, ALIGN, INCBIN, DEVICE, emission of a byte | a byte goes where the slot over its address maps; lost bytes are reported; all passes lay out alike; labels get the page they are in |
| Label table over passes (`tables.cpp`, `parser.cpp`) | entries with value, page, used flag, pass of the last update | reading, defining, EQU, DEFL, conditions on labels | an assembly without messages never used a value other than the final one |
| Relocation (`relocate.cpp`) | offsets of this and of the previous pass, the count, block type | RELOCATE_START, RELOCATE_END, RELOCATE_TABLE, relocatable DB and DW | the emitted table is the one of the last pass, or a warning was shown; no read behind a table |
| Source flow (`sjio.cpp`, `directives.cpp`, `tables.cpp`) | files, `lijst`, `lijstp`, `RepeatStack`, macros, `IsRunning` | IF, ELSEIF, ELSE, ENDIF, DUP, WHILE, EDUP, MACRO, calls, INCLUDE, LUA, END | nested blocks expand as written; misplaced keywords are noticed; reading ends |
| Names, temporary labels, SIZEOF (`tables.cpp`, `parser.cpp`) | module stack, main label, macro numbers, two lists of numbered labels, the stack of measured labels | ParseLabel, MODULE, macro calls, 1B and 1F, SizeBoundary | a name means the nearest scope; a numbered reference the nearest label; a size ends at the next boundary |
| Structures (`tables.cpp`) | table of structures, their members and labels | STRUCT, ENDS, instances with initialisers | values and labels are where the tree of the definition has them |
| Defines and macro arguments (`parser.cpp`, `tables.cpp`) | tables of texts, chains of macro arguments | DEFINE, UNDEFINE, DEFARRAY, ReplaceDefine, macro calls | substitution is complete and takes the arguments of the right macro |
| Expressions, literals (`parser.cpp`, `reader.cpp`) | none | ParseExpression, GetConstant, GetBytes, ... | the value of the tree the text stands for; no write behind a buffer |
| Encoder (`z80.cpp`) | none | one function per mnemonic | the emitted bytes decode to what is written |
| Device definitions (`directives.cpp`, `devices.cpp`) | list of definitions, list of devices of a pass, the global device | DEFDEVICE, DEVICE, sj.set_device | a device keeps its memory and mapping while others are selected |
| Output, tape and HEX streams (`sjio.cpp`) | write buffer, file position, tape block, HEX record, files to delete | OUTPUT, OUTEND, SIZE, FPOS, TAPOUT, HEXOUT, Close, ExitASM | every byte once and in order; limits of blocks; nothing stays behind after an error |
| Images (`io_*.cpp`) | an open NEX file, the catalog of a TRD disk | SAVENEX, SAVETRD, SAVETAP, SAVESNA, ... | what the other machine reads back is what was saved |
| Session (`sjasm.cpp`, `io_err.cpp`, `sjio.cpp`) | counts, previous error line, warning states, syntax options, listing state | command line, passes, Error, Warning, OPT, ListFile, exit code | errors are told once and never lost; options act on the lines behind them; the listing shows what was emitted |
| Source positions (`io_err.cpp`, `lua_sjasm.cpp`) | stack of positions, chunks of Lua | includes, macros, colons, LUA, parse_line | messages and debugging data name the running line |
| Exports (`sjio.cpp`, `tables.cpp`, `directives.cpp`) | breakpoint and label files | EXPORT, LABELSLIST, CSPECTMAP, BPLIST, SLD | the lists read back as the labels |
| Lua (`src/lua5.5/`) | objects and colours, tables, numbers | collector, `ltable.c`, patterns, sort, pack, for loops | nothing reachable is freed; tables are maps; arithmetic is exact |

Interactions: every source line is read by source flow, substituted by the defines,
split into a label (names, label table), a directive or an instruction (expressions,
encoder) and emitted (device memory, streams, listing). Labels ask the device
memory for their page. Expressions read the label table and record whether
relocation affects them. Scripts call back into source flow and positions. The pass
driver resets each part at the start of a pass.

Nothing runs concurrently, except that the collector is interleaved with the script
it serves. The hard behaviours are stale caches, the order of directives, passes that
disagree, limits of memory and of blocks, failures half way through an operation,
and loops that have to end. `PROJECT.json` lists them under `hazards`, each at its
line with the properties that watch it.

## Modules and the code

One module per component; each file names in its heading what its data stand for.

**The core, with proofs.**

- `DeviceMemory` is the memory and the three passes that write into it. The record
  `m` holds the assembler's globals and the `CDevice` object under their names in
  the code. `CheckReset` and `CheckPage` are `CDevice::CheckPage` for the level
  `CHECK_RESET` and for the two others; `LeavePlainSlot`, `LeaveGuardedSlot` and
  `LeaveWrappingSlot` are the cases of its switch. Each directive is an operator
  from machine to machine (`dirORG`, `dirMMU`, ...). Pass 1 chooses each line of the
  program out of the set `Lines`; the later passes assemble the same lines. The
  ghost `labels` keeps the value and page of the label in front of each line,
  `excursion` what became of the bytes behind the memory.
- `BankedMemory` is the abstract memory without any cache: a byte is stored at the
  place the slot over its address maps at that moment, in the next page at the end
  of a wrapping slot, or lost outside of the address space. `DeviceMemory`
  implements it (`ImplementsBankedMemory`).
- `LabelPasses` is the label table. A line is a condition and a statement; the
  program grows in pass 1. `GetLabel`, `Insert`, `Update`, `needsUpdate` and
  `ParseLabel` have the names of the code. The ghosts `reads`, `defs`, `code`,
  `starts` and `trace` record what a pass read, defined, emitted, started with and
  went through.
- `RelocTable` is `relocate.cpp`. Each line carries the set of passes it exists in,
  which stands for every way conditional assembly may hide it. The ghost `tables`
  holds what the last pass emitted, `controls` and `moments` where passes 1 and 2 were.
- `SourceFlow` is the C++ call stack made explicit. The variable `stack` holds a
  frame for each running loop: `file` for `ReadBufLine`, `if` for `dirIfInternal`
  with its `ReadFile` or `SkipFile`, `dup` for the loop of `dirEDUP`, `macro` for
  `CMacroTable::Emit`. One step reads a line from where the top frame reads, the
  next step parses it.
- `Symbols` has modules, main and local labels, macro instances, temporary labels and
  the SIZEOF tracking over the passes; macros and includes are unfolded already.
- `OutputFiles` has the streams that follow the bytes of the last pass, `TrdDisk` the disk
  image with its catalog; both beside an abstract account (`want`, `kept`) of what the
  directives asked for. An emitted byte is a number of its own and zero is nothing, so the
  parity of a tape block is the set of the numbers that are in it an odd number of times.

**Text and code.** `Reader` has the token helpers that `Expressions`, `Literals` and
`Substitution` stand on; a text is a sequence of tokens. `TextReference` says what a
text means. `Z80Encoder` has one operator per handler of `z80.cpp`, `Z80Reference` the
decoder tables of the processors and a machine on which fake instructions run.
`Structures` walks initialisers over members, one action per source line.

**A run of the program.** `Session` is `main`, the passes, errors, OPT and the
listing. `SourcePositions` is the stack of positions with the chunks of Lua.
`Devices` has the definitions and the devices of a pass. `Exports` has the files for
other tools; `NexFile`, `SavedFiles` and `Snapshots` the images, each with a loader
that reads them back.

**Lua.** `LuaGC` is the collector in both modes with a script between its steps.
`LuaTable` has the array and hash parts, `LuaPattern` the matcher, `LuaNumbers` the
arithmetic of `lvm.c`, `LuaLibrary` sort and pack.

`MC` modules hold the instances: sets of lines, programs and heaps, and the reference
definitions that are only about instances. `MCCode`, `MCText`, `MCSession`, `MCImages`
and `MCLua` join components that share no variable: the variable `part` says which
one a behaviour is about, and the others do not move. Joining them loses nothing,
because no component reads another one's variables.

Definitions under a comment "mutant" are deliberately wrong versions of the
definition behind them. No specification uses them; put in its place they break a
property of a run, which shows that the property depends on that code.

## Runs

| Run | Module | Shows | Distinct states |
|---|---|---|---|
| `memory` | MCDeviceMemory | programs of up to five lines that map pages, set slot options, run over the end of slots and of the memory with bytes and included files, displace code, skip back, drop and select the device: the caches mean what their readers take them for (`IInv`), labels get their page (`LabelsAreInPlace`), passes lay out alike (`PassesAgree`), lost bytes are reported (`NoSilentLoss`) | 3.9 M |
| `include` | MCDeviceMemory | INCBIN among all directives that move the address or the page, also displaced; pass 1 and 2 count the file page by page and pass 3 emits it: every store goes where the slot maps (`ImplementsBankedMemory`), assembling ends (`Termination`) | 0.1 M |
| `dependent` | MCLabelPasses | labels that depend on each other and on the size of the code, lines that exist in some passes: no silent use of a wrong value (`ReadsAreTrue`), a settled table repeats the pass (`SettledRepeats`) | 3.1 M |
| `relocation` | MCRelocTable | programs of five lines in both modes: no silent wrong table (`SilentTableHasAll`), three passes settle it (`ThreePassesSuffice`) | 6.7 M |
| `flow` | MCSourceFlow | sources written down from trees of blocks mean the trees (`FlowIsLexical`), arbitrary lines keep the loops consistent (`IInv`), END and the guardian of WHILE stop them (`StopsInTime`), reading ends (`Termination`) | 1.4 M |
| `code` | MCCode | every mnemonic with every pair of operands on four processors (`InstructionsAreMeant`), structures in structures (`InstancesAreMeant`, `LabelsMeetFields`), names (`NamesAreMeant`), sizes (`SizeofIsDistance`), numbered labels (`TempRefsAgree`), lists for other tools (`ListsTellTheSource`) | 2.6 M |
| `text` | MCText | expressions of up to three operators have the value of their tree (`ExpressionMeansItsTree`), literals read back as written (`LiteralsReadBack`), lines under defines, arrays and macro calls are substituted completely with the right arguments (`NamesAreSubstituted`) | 1.1 M |
| `session` | MCSession | `EveryErrorIsTold`, `SyntaxIsLexical`, `ListingIsTrue`; the streams of the last pass (`OutputIsTrue`); positions through files, macros and Lua (`PlacesAreTrue`); devices that come and go (`DevicesAreKept`) | 1.4 M |
| `images` | MCImages | NEX files, TRD disks, saved ranges and tapes, snapshots: a loader reads back what was saved, whatever was refused before (`LoaderReadsBack`, `TrdReadsBack`, `SavedReadsBack`, `SnapshotRestores`) | 0.4 M |
| `lua` | MCLua | collector (`NoDangling`, `FullCollectionIsExact`, `OnlyGarbageIsFinalized`), tables (`TablesAreMaps`), patterns, sort, pack (`LibraryKeepsItsWord`), numbers and loops (`NumbersAreExact`) | 0.7 M |
| `comment_code` | MCText | expected violation: a define in front of an open block comment loses the line (`CommentKeepsCode`) | |
| `defdevice_pages` | MCDevices | expected violation: a device of 256 slots does not continue its pages (`PagesAsDocumented`) | |

The two violations are findings: the code does something that the documentation
denies; `PROJECT.json` quotes it.

Deadlock is checked where a stop would be a hang (`memory`, `include`, `dependent`,
`relocation`, `flow`: the end of the assembly is a step that stutters). In the joined
runs a behaviour ends when its sample is done, and the check is off.

### Bounds, and why they are enough

Device memory: three slots of two bytes and four pages are the smallest device that
has a first, a middle and a last slot, a slot whose next page is mapped elsewhere and
one whose next page does not exist. Slots of two bytes make a three-byte line cross a
whole slot. The address space is six bytes. Five lines (`MaxLines`) are enough to enter
a slot, change its mapping or option, leave it, come back, and emit. In `memory` a
program is about mapping or about displacement (`OneSubject`); in every program the
first line is DEVICE.

Labels: three names and four lines give chains such as a label that depends on a size
that depends on a label behind it. Relocation: five lines hold two blocks, or a block, a
table and a DISP; no line exists in passes 1 and 2 only (observation 3).
`WordRange` is 128, larger than any address such a program reaches.

Source flow: four or five arbitrary lines, or trees of depth two under a macro and an
included file. `StackLimit` is 6 and stands for the stack of the process; exceeding it
is the phase `crash`. `MaxIncludeLevel` is 2 (20 in the code). The guardian of a WHILE is
1, -1 or -2; an `int` has four values (`IntWidth`), so that the last one comes round to three
iterations. The code assumes wrapping where the standard leaves it open: the guardian is counted
down past the smallest `int`, as the builds do it. END inside of a called macro is in the set, too;
`StopsInTime` lets the lines of that macro through (`InMacro`, observation 4).

Code: all mnemonics and operand kinds; values at the ends of their fields; structures of
three levels, in modules, with namesakes that the last pass meets in the module first;
names of three identifiers, two modules and a macro; programs of four items
about numbered labels.

Text: nine bits per integer, three per byte, so that every edge of 32 bits has a
counterpart. Literals have numbers around the powers of their bases. Lines of nine tokens,
two defines, two macros, three rounds of substitution; expressions stand in surroundings with and
without a device.

Session: texts of three lines (`MCMaxLines`). The write buffer has two bytes, a tape block five, a HEX
record two: every limit falls into the middle of a flush. Positions: files of
two lines, two levels. Devices: sources of up to seven lines.

Images: disks of nine sectors with three per track, four files and four saves in a memory of
seven bytes, two start addresses, every call with and without a line to start, letters of extension
and a length without variables, in every mode; a C name has letters that are the word of a start
address that occurs, a B name letters that are the word of a length that occurs; NEX files of
four commands; pages of three or four bytes, where a word overflows at the end of the
memory as it does in the code.

Lua: heaps of six objects of every kind in the shapes that need a barrier; tables of up
to four keys that collide; patterns of up to four parts; five-bit integers.

### Fairness

`DeviceMemory!FairSpec` and `SourceFlow!Spec` assume weak fairness of the next step. The
assembler is a single thread that waits for nobody: the step exists whenever the code has
something to do, and the processor takes it. Safety does not use it.

## Proofs

Every theorem follows the same plan: `Init => Inv`, one step per action of
`Inv /\ [Next]_vars => Inv'`, then the property by temporal reasoning. Modules a proof
uses declare no RECURSIVE operator. The invariants that say more than a property were
checked by TLC before they were proved.

**DeviceMemory** (`DeviceMemoryProofs`). Assumed: at least one
slot, page and byte; the initial mapping is in range; slots cover the address space and
only the last one may overshoot it (`SpaceAssumption`; DEFDEVICE rounds the number of
slots up). `IInv` is type correctness with `OptionCached`: the remembered option is the
one of the remembered slot, or an O_NEXT option of another slot would turn the wrong
page. The lemmas show that slots cover every masked address and that every directive
preserves `Good`. The refinement `DeviceMemoryRefinement` rests on `EmitTarget`, which
says where the next byte goes after `CheckPage`: the pointer belongs to the slot over the
address, or the next page was turned exactly at a slot's end, or the address is outside.
`LayoutInv` ties the cached `Page` to the remembered slot as long as no line moved the
address behind the back of CheckPage (`Onward`), bounds the displaced address and says that
`limitExceeded` keeps quiet only during losses that were reported; it gives
`LabelsAreInPlace` and `NoSilentLoss`. `Onward` excludes what the observations 1, 6 and
8 are about, and no more: TLC finds both properties violated without it.

**LabelPasses** (`LabelPassesProofs`). For any set of labels and any lines.
`ReadsAreTrue` speaks of the end of the assembly; the invariant is that the table holds
what the last pass read and defined so far, as long as nothing was reported
(`TableHoldsLastPass`). `SettledRepeats` compares two passes. What a pass does next is a
function `After` of its moment: the line, the address and what is known of the labels. The
ghost `trace` holds the moments of pass 2; flags only grow in it, so they are constant when
it ends as it began, and `RepeatInv` says that pass 3 goes through the same moments.

**RelocTable** (`RelocTableProofs`). For any lines, hidden from any passes. `IInv` says
that the count covers the previous table, that emitted tables are still being compared with
(`TablesAreWatched`), and that what the last pass has not collected yet is what it took from
pass 2 (`SilentTablesAgree`). For `ThreePassesSuffice`, `SettledInv` says that pass 2 goes
through the controls of pass 1 (line, block, mode, number of offsets: none of them depends on
an address) and so emits tables of their final size, and that pass 3 goes through the moments
of pass 2.

**SourceFlow** (`SourceFlowProofs`). For any set of programs, nested in any broken way.
`IInv` says what the frames share: the reading position of a frame is the one of the frame
below that reads from the same lines, only the top of `RepeatStack` collects, frames of
`dirEDUP` refer to entries that are still there, `lijst` is the number of frames that emit
stored lines. Counting frames of a kind needs the least and the greatest element of a set
of positions, which come from the library's well-founded minimum (`WFMin`).
`SourceFlowStopsInTime` follows for every step from the same invariant. It says less than "no loop
goes on": lines of a macro that is being emitted still come behind END, a misplaced ELSE or ENDIF may
end a WHILE with its message, and a guardian below -1 is counted modulo `IntWidth`.

**Symbols** (`SymbolsProofs`). For any sequence of items in any passes. SIZEOF: `TrackingInv`
keeps the stack of measured labels ordered by level, between the outermost level a macro or
include may still close down to and the present one, and empty at the end of a pass; the
lemma `ClosedIsSuffix` says that a boundary which stops at the first outer label has closed
all it should. Temporary labels: in a last pass that reported nothing about them, `TempInv`
says that the new list is a prefix of the old one, as long as the number of definitions it
passed, and that every read so far took the nearest label of its number in the list.
All of this holds for programs of any length: `MaxLines` is any natural number.

**TrdDisk** (`TrdDiskProofs`). For images with any number of sectors and catalog entries, and any
calls of SAVETRD and EMPTYTRD. `TrdAssumption`: a sector, a track and the disk are not empty, the
autostart mark fits into a sector, and start addresses, lengths and the words that letters of an
extension make are integers, also negative ones. Nothing keeps them apart: the two bytes
behind the first letter of the extension hold two more letters, the start address or the length of
a BASIC file (`Built`), and a name may meet a file whose number happens to be its letters
(`Same`, `Three`, `Recorded` say when). A call may have an autostart line and a length without
variables at once, as `dirSAVETRD` takes them.
`DiskInv` has two parts. The image is well formed: the entries of the catalog lie one behind the
other and the free sector and the counts of the header follow from them; this is stated of
every two entries, because the provers cannot go through the catalog by induction. And the live
entries are, in their order (`Rank`), the files of `kept`, of which no two share a sector that a
call writes. The proof follows `TRD_AddFile`: what deleting earlier files of the name leaves
(`DeleteEarlier`), giving back the last entry (`RemoveLast`), a new entry at the end
(`NewEntry`), moving everything behind a file that grows (`Extend`); then the three modes of the
call. It gives `TrdLayout`, `TrdHoldsFiles` and `TrdReadsBack`.

**OutputFiles** (`OutputFilesProofs`). For buffers, tape blocks and HEX records of any size, any
arguments of SIZE, FPOS and ORG, sources of any length, disks that fail or not.
`OutputFilesAssumption`: sizes are positive, a tape block has room for more than its flag and
parity, and the tape is no file of OUTPUT. `OutInv` says of each stream that the file and what is
still in the buffer together hold what is wanted (`FileHas`, `TapeHas`, `RawHas`, `HexHas`), that
the open block has its length and the parity of what it holds, and that files created so far are
registered for deletion. After a failed flush the last byte is missing in the HEX file, so the
invariant of a run that is inside `ExitASM` needs a second case, `Doomed`: the same bytes are still
in the buffer and the next flush fails too, so such a run never ends normally. Two facts carry the
rest: `XorAllBoth`, the parity of two pieces is the exclusive or of their parities, and
`OverlayBoth`, writing two pieces one behind the other is writing them together. Zeros of SIZE may
get into any stream: `HoldsZeros`.

**Session** (`SessionProofs`). For any command lines, any sources and any buffer of the listing.
`SessionAssumption`: the buffer has at least two places, a source begins with a line, options and
events are of the forms the program reads, and an event emits a natural number of bytes.
`SessionInv` has two parts besides the types. `Account`: errors are counted once one was raised, a
run ends with code 0 only without errors or after help or version alone, and as long as passes 1 and 2 had no error, `prevLine` is never beyond the present line,
so a message that was dropped has one of its own line in front of it; it gives `EveryErrorIsTold`.
`Lexical`: there is one reading of the source (the syntax, the saved ones and the open DUP in
front of every event) that every pass goes through and the log of pass 1 agrees with; it gives
`SyntaxIsLexical`. TLC cannot enumerate readings, so it checks the property and not `Lexical`
itself. The proof rests on `OptAgree`: what OPT does to the syntax depends on the
syntax, the saved ones and the processor alone, whatever it does to errors and warnings. The loops
over letters, words of OPT and bytes are recursive functions; what they keep is proved by the least
place where it would be lost (`Upwards`, `LoopRuns`). The proof corrected the model twice: the
program may end with code 0 after an error on the command line (observation 17), and two cases of
`-W` had overlapped.

### What stays with TLC

- `Termination`, and everything under fairness: liveness and ENABLED are out of the
  prover's reach.
- What a recursive definition computes: the readers, matchers, encoders and walks of
  `Expressions`, `Literals`, `Substitution`, `Structures`, `Z80Encoder`, `LuaPattern`,
  `LuaLibrary`, `LuaGC`, and the reference definitions (`FlowIsLexical`,
  `NamesAreMeant`, the loaders of the image formats). The same holds for folds over
  sequences, whose value the library's facts do not give: the listing (`ListingIsTrue`), the initial
  pages of a device.
- `PassesAgree`: it compares the layout of two passes over a whole program and is false for
  INCBIN inside of DISP across the end of the address space (observation 7), so its
  invariant would need a condition on every line in between.
- The second half of `SizeofIsDistance`: which label SIZEOF means is a matter of the
  reference for names.

## What is not modelled

- Reading bytes into lines (`ReadBufLine` with its buffer, UTF-8 marks and line ends).
- Lua's compiler (`lparser.c`, `lcode.c`, `llex.c`), calls and coroutines (`ldo.c`),
  emergency collections, `luaC_freeallobjects` and `luaC_fix`: scripts reach the assembler
  through the binding, and the collector does not know how a program came into being.
- CRC32C: a third-party table algorithm; `NexFile` keeps what it is computed over.
- BASIC loaders and screens of snapshots and NEX files are blocks without contents.
- Wording of messages, layout of listings, Windows paths, timing.
- Smart SMC offsets beyond the address they give to a label.

The runs keep to the bounds of sound behaviour where a defect below would stop a
property that is otherwise worth checking; each such exclusion is in the guard or the set
of lines that names it (`Onward`, `Balanced`, `RegularProgram`, `PlainInstance`,
`StaysBelowEnd`, `UnderGlobal`).

## Observations

What modelling showed of the code. Those marked (r) come from reading and were not
reproduced with the program.

Memory and passes:
1. A label behind a negative BLOCK that follows a filled slot gets the page of the next
   slot (`devices.cpp:397`: the short way does not refresh `Page`); the same state makes
   INCBIN loop for ever when the next page lies before the current one (`sjio.cpp:571`).
2. A label whose only definition the last pass skips is read with the value of pass 2.
3. A relocation table in front of its code keeps a stale tail silently when lines of
   passes 1 and 2 are missing in pass 3.
4. END inside of a macro still assembles the rest of the macro. A stray ENDIF or ELSE in
   a WHILE ends it with "infinite loop?". The guardian allows one iteration more than
   written (`docs/documentation.xml:3953`); a guardian below -1 is none: it counts down past the
   smallest integer, and only zero is tested (`directives.cpp:1911`, `1956`).
5. A temporary label that is missing in the last pass is replaced by the next of its
   number; the flow warning comes only when lists differ in what pass 3 itself defines.
6. After a reported write outside of the memory, a negative BLOCK back into the
   remembered slot does not reset `limitExceeded`: the next loss is silent.
7. INCBIN inside of DISP across 0x10000: passes 1 and 2 do not wrap the displaced
   address, so a label behind it changes in pass 3 (which warns).
8. ORG with a refused page, back into the previous slot after a full one: the label gets
   the wrong page.

Names, structures, text:
9. SIZEOF of an instance of a structure inside of a module is 0, and sets the size of a
   global of the same name. `@.inst STRUCT` in a macro is an "Internal error". The last pass looks
   the labels of a structure up by name, in the current module first: `STRUCT @A` inside of a module
   with a structure `A` of another size is "Label has different value in pass 2"
   (`tables.cpp:1273`, (r)).
10. An empty group of initialisers closes at the end of the innermost nested structure
   (`docs/documentation.xml:4455`); a comma after a nested structure is skipped only behind
   a brace when the structure is copied, always when it is emitted.
11. `ld a,(')')` is an immediate; decimal numerals overflow unnoticed; `db 0b` and `db 0q` are
   refused; `0x80000000 / -1` stops the process; shifts by 32 and more are undefined.
12. A second DEFINE of a name pushes a second entry; a quote right behind `[` of an unresolved
   array index opens a string.
13. `exd` on the LR35902 emits 0xEB; `ldd bc` and `ldi sp` are accepted.
14. SLD lines of `@mxyz` inside of module `m`, and of locals of a global label in a module, do
   not join to their names.

Devices and sessions:
15. DEVICE with an id in other letters makes a new empty device each time. DEFDEVICE accepts
   30000 pages, more than 4096 are fatal at DEVICE. The RAMTOP of a global device that is no
   ZX is never warned about.
16. `OPT -Wno-<id>` suppresses warnings of earlier lines in pass 3. The error of a missing
   EDUP is lost behind one of level SUPPRESS (r).
17. An error on the command line in front of `--help`, or of `--version` without sources, ends with
   exit code 0 (`sjasm.cpp:773`, `sjasm.cpp:793`) (r).
18. LABELSLIST in front of the only DEVICE is ignored silently; with `DEVICE NONE` at the end
   it stops the process. EXPORT seen in pass 3 only is lost silently. BPLIST writes to a
   file that failed to open (r). ZESARUX counts refused breakpoints (r).
19. `current_address` between two `add_byte` of a script lists stale addresses (r); a nested LUA
   block resets `DidEmitByte` (r); a binding called from a coroutine reports the line of the
   resume (r).

Files:
20. SIZE while TAPOUT is open: both share `destlen`, the padding goes into the block, and when
   the block overflows meanwhile the padding starts over (r). FPOS makes SIZE overcount.
21. A full disk with an open output calls ExitASM from ExitASM until the stack ends.
22. SAVETAP does not register its file for `--cleanonerror` (r). A tape block of 65534 bytes and
   more has a wrong length. SAVEAMSDOS of 64 KiB has length 0 in its header; HOBETA cuts the
   last sector.
23. A NEX file V1.3 has the checksum of the header before its last change. SAVECDT FULL of a
   CPC6128 has an end offset as its length. SAVESNA twice on a 48K device gives two files.
24. INCTRD does not find `a.BAS`: the letters were replaced by the length, so that it finds the
   file only when the length is the word "AS". For the same reason `&"a.BAS"` adds to a BASIC file
   exactly as long as what is added, and a name of three letters meets a file of one whose start
   address is the word of its letters (r). It reads the first of two files of a name; replacing
   "a.C" deletes "a.COD".

Lua:
25. `for i = 1, 0/0, -1` runs down to the smallest integer (r): a NaN limit counts as small.

## Plan

The core, its compositions and the theorems above are done. What is left:

1. `PassesAgree` under a condition on the lines that observation 7 excludes.
2. `DevicesAreKept`, which is no theorem about every source: PAGE and SLOT act on the device of
   the last DEVICE also after a script selected one of an unknown name, so it needs the
   condition the run's sources meet, and the initial pages as a function instead of a fold.
