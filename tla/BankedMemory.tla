---------------------------- MODULE BankedMemory ----------------------------
(***************************************************************************)
(* What the device memory promises to the rest of the assembler, without   *)
(* any of the caches DeviceMemory keeps: a byte is stored at the place the *)
(* slot over its address maps at that moment; at the very end of a slot    *)
(* the next page may be mapped into that slot first; a byte is lost only   *)
(* outside of the address space.  A slot without a next page stops being   *)
(* a wrapping one.                                                         *)
(***************************************************************************)
EXTENDS Integers

CONSTANTS Slots, Pages, SlotSize, AddressSpace

VARIABLES
    mem,     \* contents of the pages
    map,     \* page mapped into each slot
    wrapping,\* slots that go on with the next page when they are full
    addr,    \* physical address of the next byte
    byte,    \* what the current command emits
    todo,    \* bytes the current command still has to emit
    storing  \* are those bytes stored, or only counted (earlier passes)?

vars == <<mem, map, wrapping, addr, byte, todo, storing>>

Start(s) == s * SlotSize

Empty == [p \in Pages |-> [o \in 0 .. SlotSize - 1 |-> 0]]

Init == /\ mem = Empty /\ map \in [Slots -> Pages] /\ wrapping = {}
        /\ addr = 0 /\ byte = 0 /\ todo = 0 /\ storing = FALSE

Put(page, off) == mem' = [mem EXCEPT ![page][off] = byte]

Emitting == storing /\ todo > 0 /\ todo' = todo - 1 /\ UNCHANGED <<byte, storing>>

Store(s) == /\ Emitting
            /\ Start(s) <= addr /\ addr < Start(s) + SlotSize
            /\ Put(map[s], addr - Start(s))
            /\ addr' = addr + 1 /\ map' = map
            /\ wrapping' \subseteq wrapping

\* The slot is full: its next page is mapped and the address goes back.
StoreInNextPage(s) == /\ Emitting
                      /\ s \in wrapping /\ wrapping' = wrapping
                      /\ addr = Start(s) + SlotSize
                      /\ map[s] + 1 \in Pages
                      /\ Put(map[s] + 1, 0)
                      /\ addr' = Start(s) + 1
                      /\ map' = [map EXCEPT ![s] = @ + 1]

Lose == /\ Emitting
        /\ addr \notin 0 .. AddressSpace - 1
        /\ addr' = addr + 1 /\ UNCHANGED <<mem, map>>
        /\ wrapping' \subseteq wrapping

\* Bytes that are only counted.
Skip == ~storing /\ todo > 0 /\ UNCHANGED <<mem, byte, storing>>

\* Between emissions a directive may move the address and change the mapping.
Command == todo = 0 /\ UNCHANGED mem

\* A new pass starts with fresh memory.
Restart == todo = 0 /\ mem' = Empty /\ todo' = 0

Next == \/ \E s \in Slots : Store(s) \/ StoreInNextPage(s)
        \/ Lose \/ Skip \/ Command \/ Restart

Spec == Init /\ [][Next]_vars

=============================================================================
