--------------------------- MODULE MCDeviceMemory ---------------------------
(* Small devices and sets of source lines for DeviceMemory *)
EXTENDS DeviceMemory, Functions, TLC

org(a) == [dir |-> "ORG", addr |-> a, page |-> NoArg]
orgPage(a, p) == [dir |-> "ORG", addr |-> a, page |-> p]
disp(a) == [dir |-> "DISP", addr |-> a, page |-> NoArg]
dispPage(a, p) == [dir |-> "DISP", addr |-> a, page |-> p]
ent == [dir |-> "ENT"]
page(p) == [dir |-> "PAGE", page |-> p]
mmu(s, o, p, a) == [dir |-> "MMU", slot1 |-> s, slot2 |-> s, opt |-> o, page |-> p, addr |-> a]
mmuRange(s1, s2, p) == [dir |-> "MMU", slot1 |-> s1, slot2 |-> s2, opt |-> "O_NONE",
                        page |-> p, addr |-> NoArg]
slot(s) == [dir |-> "SLOT", slot |-> s]
block(n) == [dir |-> "BLOCK", len |-> n]
db(n) == [dir |-> "DB", len |-> n]
incbin(n) == [dir |-> "INCBIN", len |-> n]
align(n, f) == [dir |-> "ALIGN", align |-> n, fill |-> f]
device(id) == [dir |-> "DEVICE", id |-> id]

InitialPages3 == (0 :> 2) @@ (1 :> 0) @@ (2 :> 1)

DevicePrelude == <<device("DEV")>>

\* Mapping, slot options and the end of memory.
PagingLines == {device("DEV"), org(1), org(4), orgPage(3, 2), page(1), slot(1),
                mmu(1, "O_NEXT", 1, 2), mmu(2, "O_NEXT", 2, 4),
                mmu(1, "O_ERROR", 3, NoArg), mmu(2, "O_WARNING", 0, 5),
                mmuRange(0, 1, 1), db(1), incbin(3), slot(9), mmu(4, "O_NONE", 3, NoArg)}

\* Displaced code near the end of the address space, addresses that go back,
\* a device that goes and comes back, arguments that are rejected.
DisplacedLines == {device("DEV"), device("NONE"), device("UNKNOWN"), org(1), org(4),
                   orgPage(2, 9), mmu(1, "O_NEXT", 1, 2), mmu(2, "O_ERROR", 1, 5),
                   disp(5), dispPage(2, 3), ent, align(4, TRUE), align(2, FALSE), block(-2),
                   block(3), db(2)}

\* Included files, and every directive that moves the address or the page forwards.
IncludeLines == {device("DEV"), org(1), org(4), mmu(1, "O_NEXT", 1, 2),
                 mmu(2, "O_NEXT", 2, 4), page(3), slot(1), incbin(1), incbin(3), incbin(5),
                 db(2), block(3), align(4, TRUE), disp(5), ent}

-----------------------------------------------------------------------------
(* A program is about one of the two sets of lines. *)

MemoryLines == PagingLines \cup DisplacedLines

OneSubject(p) == Range(p) \subseteq PagingLines \/ Range(p) \subseteq DisplacedLines

MemoryNext == Next /\ OneSubject(prog')
MemorySpec == Init /\ [][MemoryNext]_vars
=============================================================================
