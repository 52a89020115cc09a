-------------------------------- MODULE DrvHeap --------------------------------
(***************************************************************************)
(* The heap of the drivers (src/soc_src/jz4755/kernel/DrvMemMgr.c): a      *)
(* doubly linked list of blocks in the order of their addresses, each a    *)
(* header followed by its bytes, taken first fit and merged when freed.    *)
(*                                                                         *)
(* Every call works with interrupts disabled and is one step, except that  *)
(* Drv_realloc enables them before it frees the block it has moved from.   *)
(* A call that finds no block returns 0 and changes nothing.  Sums of a    *)
(* request and a header stay below 2^32.                                   *)
(***************************************************************************)
EXTENDS Integers

CONSTANTS
    first, last,    \* addresses of the first block and of the mark at the end
    Request,        \* the sizes asked for
    Alignment,      \* the alignments asked for
    ReallocAligned  \* Drv_realloc is given pointers that alignAlloc has moved up

SIZE_HEADER == 16
MIN_FREE_BYTES == 4

\* An offset below an alignment fits the byte it is kept in (setalign).
ASSUME HeapAssumption ==
    /\ first \in Nat \ {0} /\ last \in Nat
    /\ first + SIZE_HEADER <= last
    /\ Request \subseteq Nat
    /\ Alignment \subseteq {1, 2, 4, 8, 16, 32, 64, 128, 256}
    /\ ReallocAligned \in BOOLEAN

VARIABLES
    prev, next, status, \* the headers, by address
    live,    \* the pointers in use: bytes asked for, offset in the block
    doomed,  \* pointers that a Drv_realloc has moved from and not yet freed
    intact   \* no copy of Drv_realloc has run past its block

list == <<prev, next, status>>
vars == <<list, live, doomed, intact>>

Block == DOMAIN next
Pointer == DOMAIN live

Size(b) == next[b] - b - SIZE_HEADER
BlockOf(p) == p - live[p].offset - SIZE_HEADER

\* ((n + MIN_FREE_BYTES - 1) / MIN_FREE_BYTES) * MIN_FREE_BYTES.
RoundUp(n) == n + ((-n) % MIN_FREE_BYTES)

\* How far (p + align - 1) & ~(align - 1) is above p, for a power of two.
OffsetOf(p, align) == (-p) % align

\* heapInit.
Init ==
    /\ prev = [b \in {first, last} |-> IF b = first THEN 0 ELSE first]
    /\ next = [b \in {first, last} |-> IF b = first THEN last ELSE 0]
    /\ status = [b \in {first, last} |-> IF b = first THEN "FREE" ELSE "RESERVED"]
    /\ live = [p \in {} |-> [bytes |-> 0, offset |-> 0]]
    /\ doomed = {}
    /\ intact = TRUE

(***************************************************************************)
(* The list.                                                               *)
(***************************************************************************)

\* Mutated: the block to the right keeps its left neighbour.
CutOneWay(b, h, r, gone) ==
    LET blocks == (Block \ gone) \cup {h}
    IN  /\ next' = [c \in blocks |-> CASE c = h -> r [] c = b -> h [] OTHER -> next[c]]
        /\ prev' = [c \in blocks |-> IF c = h THEN b ELSE prev[c]]
        /\ status' = [c \in blocks |->
              CASE c = h -> "FREE" [] c = b -> "RESERVED" [] OTHER -> status[c]]

\* The reserved block b ends at h, where a free one begins that ends at r.
Cut(b, h, r, gone) ==
    LET blocks == (Block \ gone) \cup {h}
    IN  /\ next' = [c \in blocks |-> CASE c = h -> r [] c = b -> h [] OTHER -> next[c]]
        /\ prev' = [c \in blocks |-> CASE c = h -> b [] c = r -> h [] OTHER -> prev[c]]
        /\ status' = [c \in blocks |->
              CASE c = h -> "FREE" [] c = b -> "RESERVED" [] OTHER -> status[c]]

\* The block b is free and ends at r.
Join(b, r, gone) ==
    LET blocks == Block \ gone
    IN  /\ next' = [c \in blocks |-> IF c = b THEN r ELSE next[c]]
        /\ prev' = [c \in blocks |-> IF c = r THEN b ELSE prev[c]]
        /\ status' = [c \in blocks |-> IF c = b THEN "FREE" ELSE status[c]]

IsFree(b) == b # 0 /\ status[b] = "FREE"

\* Mutated: the first of the four cases, free blocks on both sides, is missing.
FreeOneSide(b) ==
    IF IsFree(prev[b])
    THEN Join(prev[b], next[b], {b})
    ELSE IF IsFree(next[b])
         THEN Join(b, next[next[b]], {next[b]})
         ELSE Join(b, next[b], {})

\* my_free: "always want to merge free blocks".
Free(b) ==
    LET l == prev[b]
        r == next[b]
    IN  Join(IF IsFree(l) THEN l ELSE b,
             IF IsFree(r) THEN next[r] ELSE r,
             {c \in {b} : IsFree(l)} \cup {c \in {r} : IsFree(r)})

\* The blocks my_alloc may take, and the one it takes, if any.
Fit(n) == {b \in Block : status[b] = "FREE" /\ Size(b) >= n}
FirstFit(n) == {b \in Fit(n) : \A c \in Fit(n) : b <= c}

\* currentNodeAlloc.
Take(b, n) ==
    \/ /\ Size(b) >= n + SIZE_HEADER + MIN_FREE_BYTES
       /\ Cut(b, b + SIZE_HEADER + n, next[b], {})
    \/ /\ Size(b) < n + SIZE_HEADER + MIN_FREE_BYTES
       /\ status' = [status EXCEPT ![b] = "RESERVED"]
       /\ UNCHANGED <<prev, next>>

(***************************************************************************)
(* The calls.                                                              *)
(***************************************************************************)
Give(p, n, offset) ==
    live' = [q \in Pointer \cup {p} |->
                IF q = p THEN [bytes |-> n, offset |-> offset] ELSE live[q]]

Drop(p) == live' = [q \in Pointer \ {p} |-> live[q]]

\* alloc, and what is the same to the list: Drv_calloc, Drv_realloc(0, n).
Alloc(n) ==
    /\ intact
    /\ \E b \in FirstFit(RoundUp(n)) :
        /\ Take(b, RoundUp(n))
        /\ Give(b + SIZE_HEADER, n, 0)
    /\ UNCHANGED <<doomed, intact>>

\* Mutated: no room is asked for the offset.
AlignAllocTight(align, n) ==
    /\ intact
    /\ \E b \in FirstFit(RoundUp(n)) :
        LET offset == OffsetOf(b + SIZE_HEADER, align)
        IN  /\ Take(b, RoundUp(n))
            /\ Give(b + SIZE_HEADER + offset, n, offset)
    /\ UNCHANGED <<doomed, intact>>

AlignAlloc(align, n) ==
    /\ intact
    /\ \E b \in FirstFit(RoundUp(n + align)) :
        LET offset == OffsetOf(b + SIZE_HEADER, align)
        IN  /\ Take(b, RoundUp(n + align))
            /\ Give(b + SIZE_HEADER + offset, n, offset)
    /\ UNCHANGED <<doomed, intact>>

\* deAlloc, and Drv_realloc(p, 0).
DeAlloc(p) ==
    /\ intact
    /\ p \in Pointer \ doomed
    /\ Free(BlockOf(p))
    /\ Drop(p)
    /\ UNCHANGED <<doomed, intact>>

\* Drv_realloc of a block; of none it is Alloc, to no bytes Free.  (Of none to no bytes
\* it would free address 0: left to the callers.)  need is nbytes rounded up, len the same with the offset.
Resizable(p, n) ==
    /\ intact
    /\ p \in Pointer \ doomed /\ n > 0
    /\ ReallocAligned \/ live[p].offset = 0

Need(n) == RoundUp(n)
Length(p, n) == RoundUp(Need(n) + live[p].offset)
Enough(p, n) == Need(n) <= Size(BlockOf(p)) - live[p].offset

\* bsize when the block has turned out too small: with a free block to the right
\* it counts the bytes of that one too.
Bsize(b) == Size(b) + (IF IsFree(next[b]) THEN Size(next[b]) ELSE 0)

Growable(p, n) ==
    /\ IsFree(next[BlockOf(p)])
    /\ Bsize(BlockOf(p)) >= Need(n) + live[p].offset

\* It is large enough: nothing but what the caller may use changes.
ReallocStay(p, n) ==
    /\ Resizable(p, n) /\ Enough(p, n)
    /\ live' = [live EXCEPT ![p].bytes = n]
    /\ UNCHANGED <<list, doomed, intact>>

\* It takes what it needs of the free block to the right, whose header moves up.
ReallocGrow(p, n) ==
    /\ Resizable(p, n) /\ ~Enough(p, n) /\ Growable(p, n)
    /\ LET b == BlockOf(p)
       IN  Cut(b, b + SIZE_HEADER + Length(p, n), next[next[b]], {next[b]})
    /\ live' = [live EXCEPT ![p].bytes = n]
    /\ UNCHANGED <<doomed, intact>>

\* Mutated: a block that is large enough is moved as well.
ReallocMoveAny(p, n) ==
    /\ Resizable(p, n) /\ ~Growable(p, n)
    /\ \E b \in FirstFit(Length(p, n)) :
        LET addr == b + SIZE_HEADER + live[p].offset
        IN  /\ Take(b, Length(p, n))
            /\ Give(addr, n, live[p].offset)
            /\ intact' = (addr + Bsize(BlockOf(p)) <= next'[b])
    /\ doomed' = doomed \cup {p}

\* Mutated: the old block is forgotten.
ReallocMoveKeeps(p, n) ==
    /\ Resizable(p, n) /\ ~Enough(p, n) /\ ~Growable(p, n)
    /\ \E b \in FirstFit(Length(p, n)) :
        LET addr == b + SIZE_HEADER + live[p].offset
        IN  /\ Take(b, Length(p, n))
            /\ live' = [q \in (Pointer \ {p}) \cup {addr} |->
                         IF q = addr THEN [bytes |-> n, offset |-> live[p].offset] ELSE live[q]]
            /\ intact' = (addr + Bsize(BlockOf(p)) <= next'[b])
    /\ UNCHANGED doomed

\* It moves: the memcpy is of bsize bytes to the same offset of a new block.
ReallocMove(p, n) ==
    /\ Resizable(p, n) /\ ~Enough(p, n) /\ ~Growable(p, n)
    /\ \E b \in FirstFit(Length(p, n)) :
        LET addr == b + SIZE_HEADER + live[p].offset
        IN  /\ Take(b, Length(p, n))
            /\ Give(addr, n, live[p].offset)
            /\ intact' = (addr + Bsize(BlockOf(p)) <= next'[b])
    /\ doomed' = doomed \cup {p}

\* The deAlloc at the end of Drv_realloc.
ReallocFree(p) ==
    /\ intact
    /\ p \in doomed
    /\ Free(BlockOf(p))
    /\ Drop(p)
    /\ doomed' = doomed \ {p}
    /\ UNCHANGED intact

Next ==
    \/ \E n \in Request :
        \/ Alloc(n)
        \/ \E align \in Alignment : AlignAlloc(align, n)
        \/ \E p \in Pointer : ReallocStay(p, n) \/ ReallocGrow(p, n) \/ ReallocMove(p, n)
    \/ \E p \in Pointer : DeAlloc(p) \/ ReallocFree(p)

Spec == Init /\ [][Next]_vars

(***************************************************************************)
(* Properties.                                                             *)
(***************************************************************************)

\* The types of the headers and of the pointers.
TypeOK ==
    /\ Block \subseteq first .. last
    /\ next \in [Block -> Nat]
    /\ prev \in [Block -> Nat]
    /\ status \in [Block -> {"FREE", "RESERVED"}]
    /\ live \in [Pointer -> [bytes : Nat, offset : Nat]]
    /\ Pointer \subseteq Nat
    /\ doomed \subseteq Pointer
    /\ intact \in BOOLEAN

\* The blocks cover the heap: from first to last each ends where the next one
\* begins, with room for its header, and prev leads back.  The four cases of
\* my_free and the two places that split a block each set these links by hand.
BlocksTile ==
    /\ first \in Block /\ prev[first] = 0
    /\ last \in Block /\ next[last] = 0 /\ status[last] = "RESERVED"
    /\ \A b \in Block \ {last} :
        /\ next[b] \in Block /\ prev[next[b]] = b
        /\ b + SIZE_HEADER <= next[b]
        /\ \A c \in Block : c <= b \/ next[b] <= c
    /\ \A b \in Block \ {first} : prev[b] \in Block /\ next[prev[b]] = b

\* No two free blocks are neighbours (my_free: "always want to merge free blocks"),
\* whatever order blocks are freed, resized and moved in.
NoFreeNeighbours ==
    \A b \in Block \ {last} : status[b] = "FREE" => status[next[b]] = "RESERVED"

\* What a caller was given is his: the bytes of two pointers never overlap, and
\* none reaches a header of the list.
PointersApart ==
    /\ \A p, q \in Pointer :
        p # q => p + live[p].bytes <= q \/ q + live[q].bytes <= p
    /\ \A p \in Pointer, b \in Block : p + live[p].bytes <= b \/ b + SIZE_HEADER <= p

\* Nothing is lost: when every pointer has been freed, the heap is one free block
\* again, as heapInit made it.
NothingLost == Pointer = {} => Block = {first, last} /\ status[first] = "FREE"

\* The copy of Drv_realloc stays inside the block it copies to, although its
\* length counts the offset of the old block and the bytes of a free neighbour.
CopyStaysInside == intact

(***************************************************************************)
(* The inductive invariant.                                                *)
(***************************************************************************)

\* Every pointer lies in a reserved block of its own, and every reserved block
\* but the mark at the end has one.
Owned ==
    /\ \A p \in Pointer :
        /\ BlockOf(p) \in Block \ {last} /\ status[BlockOf(p)] = "RESERVED"
        /\ p + live[p].bytes <= next[BlockOf(p)]
    /\ \A p, q \in Pointer : BlockOf(p) = BlockOf(q) => p = q
    /\ \A b \in Block \ {last} :
        status[b] = "RESERVED" => \E p \in Pointer : BlockOf(p) = b

HeapInv == TypeOK /\ BlocksTile /\ NoFreeNeighbours /\ Owned /\ CopyStaysInside
================================================================================
