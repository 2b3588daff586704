----------------------------- MODULE KernelHeap -----------------------------
(***************************************************************************)
(* The kernel heap (kernel/mm/src/heap.rs) and its growth through the VMM    *)
(* (kernel/mm/src/vmm.rs grow_heap, kernel/kernel/src/mm/{heap,vmm}.rs).     *)
(* Several CPUs allocate and free; alloc gives up the heap lock while the    *)
(* heap grows, so other calls come in between.                               *)
(*                                                                         *)
(* hpFree is the address-sorted list of free blocks as the function from the *)
(* address of a block to its size (see FreeRegions).                         *)
(***************************************************************************)
EXTENDS FreeRegions, FiniteSetsExt

CONSTANTS
    MinBlock, BlockAlign,   \* MIN_BLOCK_SIZE and BLOCK_ALIGN
    RedZone,                \* poison::REDZONE_SIZE
    MinGrow,                \* the least growth that is asked for (64 KiB)
    HeapRegion,             \* [base, end]: the virtual region of the heap
    HeapSize,               \* the bytes mapped at boot
    HeapCpus,               \* CPUs that allocate
    HeapLayouts,            \* the layouts [size, align] they ask for
    HeapFrames,             \* free frames when the kernel has booted
    HeapCalls               \* bound: calls of alloc

VARIABLES
    hpPoison,     \* hadron_debug_heap_poison: blocks have red zones
    hpFree,       \* the free list
    hpLive,       \* pointers handed out: pointer -> layout
    hpBytes,      \* allocated_bytes
    hpEnd,        \* heap_end
    hpNext,       \* the RegionAllocator of the heap region
    hpFrames,     \* frames the PMM can still give
    hpPc,         \* where each CPU is in alloc: "idle", "grow", "add"
    hpWant,       \* the layout of its alloc
    hpGrown,      \* the pages grow() returned: [addr, size]
    hpLeft        \* calls of alloc left

hpVars == <<hpPoison, hpFree, hpLive, hpBytes, hpEnd, hpNext, hpFrames, hpPc, hpWant, hpGrown, hpLeft>>

AlignUp(a, align) == ((a + align - 1) \div align) * align
AtLeast(a, b) == IF a >= b THEN a ELSE b

\* What alloc and dealloc make of a layout: the alignment, the bytes before the
\* pointer and the size of the block.
LayoutAlign(l) == AtLeast(l.align, BlockAlign)
FrontPad(l) == IF hpPoison THEN AlignUp(RedZone, LayoutAlign(l)) ELSE 0
BlockSize(l) ==
    FrontPad(l) + AtLeast(l.size, MinBlock) + (IF hpPoison THEN RedZone ELSE 0)

-----------------------------------------------------------------------------
\* insert_and_coalesce: joins the predecessor, the successor or both.
InsertAndCoalesce(f, a, n) ==
    LET p == Greatest(Before(f, a))
        c == Least(From(f, a))
        joinsPrev == Before(f, a) # {} /\ p + f[p] = a
        joinsNext == From(f, a) # {} /\ a + n = c
    IN  CASE joinsPrev /\ joinsNext -> With(Without(f, {p, c}), p, f[p] + n + f[c])
          [] joinsPrev /\ ~joinsNext -> With(f, p, f[p] + n)
          [] ~joinsPrev /\ joinsNext -> With(Without(f, {c}), a, n + f[c])
          [] OTHER -> With(f, a, n)

\* find_first_fit: the lowest block that holds an aligned block of the size.
\* What is left in front of it and behind it goes back to the list when it is
\* large enough for a header, and is lost otherwise.
FitsAligned(f, n, align) ==
    {b \in DOMAIN f : AlignUp(b, align) + n <= b + f[b]}

\* (mutant) The remainder starts where the allocation starts.
SplitKeepsAll(f, b, n, align) ==
    LET start == AlignUp(b, align)
        end == b + f[b]
        front == IF start - b >= MinBlock THEN InsertAndCoalesce(Without(f, {b}), b, start - b)
                                          ELSE Without(f, {b})
    IN  IF end - (start + n) >= MinBlock THEN InsertAndCoalesce(front, start, end - start) ELSE front

Split(f, b, n, align) ==
    LET start == AlignUp(b, align)
        end == b + f[b]
        rest == AlignUp(start + n, BlockAlign)
        front == IF start - b >= MinBlock THEN InsertAndCoalesce(Without(f, {b}), b, start - b)
                                          ELSE Without(f, {b})
    IN  IF end - (start + n) >= MinBlock /\ end - rest >= MinBlock
        THEN InsertAndCoalesce(front, rest, end - rest)
        ELSE front

\* A block for the layout is taken out of the list f.
Serve(c, f, l) ==
    LET b == Least(FitsAligned(f, BlockSize(l), LayoutAlign(l)))
    IN  /\ hpFree' = Split(f, b, BlockSize(l), LayoutAlign(l))
        /\ hpLive' = [p \in DOMAIN hpLive \cup {AlignUp(b, LayoutAlign(l)) + FrontPad(l)} |->
                        IF p \in DOMAIN hpLive THEN hpLive[p] ELSE l]
        /\ hpBytes' = hpBytes + BlockSize(l)
        /\ hpPc' = [hpPc EXCEPT ![c] = "idle"]

Fails(c, f) ==
    /\ hpFree' = f
    /\ hpPc' = [hpPc EXCEPT ![c] = "idle"]
    /\ UNCHANGED <<hpLive, hpBytes>>

-----------------------------------------------------------------------------
HpInit ==
    /\ hpPoison \in BOOLEAN
    /\ hpFree = With(NoRanges, HeapRegion.base, HeapSize)
    /\ hpLive = NoRanges
    /\ hpBytes = 0
    /\ hpEnd = HeapRegion.base + HeapSize
    /\ hpNext = HeapRegion.base + HeapSize
    /\ hpFrames = HeapFrames
    /\ hpPc = [c \in HeapCpus |-> "idle"]
    /\ hpWant = [c \in HeapCpus |-> [size |-> 0, align |-> 1]]
    /\ hpGrown = [c \in HeapCpus |-> [addr |-> NoAddr, size |-> 0]]
    /\ hpLeft = HeapCalls

\* alloc up to the first unlock: served from the list, or on to grow_fn.
Alloc(c, l) ==
    /\ hpPc[c] = "idle" /\ hpLeft > 0
    /\ hpLeft' = hpLeft - 1
    /\ IF FitsAligned(hpFree, BlockSize(l), LayoutAlign(l)) # {}
       THEN Serve(c, hpFree, l) /\ UNCHANGED hpWant
       ELSE /\ hpPc' = [hpPc EXCEPT ![c] = "grow"]
            /\ hpWant' = [hpWant EXCEPT ![c] = l]
            /\ UNCHANGED <<hpFree, hpLive, hpBytes>>
    /\ UNCHANGED <<hpPoison, hpEnd, hpNext, hpFrames, hpGrown>>

\* grow_heap under the VMM and PMM locks: the address range first, then a frame
\* for every page.  Out of frames, the range and the frames taken are not given
\* back.
Grow(c) ==
    LET bytes == PageAlignUp(AtLeast(BlockSize(hpWant[c]), MinGrow))
        got == BumpAllocate(HeapRegion, hpNext, bytes)
        pages == bytes \div PageSize
        ok == got.addr # NoAddr /\ pages <= hpFrames
    IN  /\ hpPc[c] = "grow"
        /\ hpNext' = got.next
        /\ hpFrames' = CASE got.addr = NoAddr -> hpFrames
                         [] ok -> hpFrames - pages
                         [] OTHER -> 0
        /\ hpGrown' = [hpGrown EXCEPT ![c] = IF ok THEN [addr |-> got.addr, size |-> bytes] ELSE @]
        /\ hpPc' = [hpPc EXCEPT ![c] = IF ok THEN "add" ELSE "idle"]
        /\ UNCHANGED <<hpPoison, hpFree, hpLive, hpBytes, hpEnd, hpWant, hpLeft>>

\* alloc with the lock again: the new pages join the list and the search is
\* repeated once; it fails when another CPU has taken the space meanwhile.
AddGrown(c) ==
    LET g == hpGrown[c]
        f == InsertAndCoalesce(hpFree, g.addr, g.size)
        l == hpWant[c]
    IN  /\ hpPc[c] = "add"
        /\ hpEnd' = AtLeast(hpEnd, g.addr + g.size)
        /\ hpGrown' = [hpGrown EXCEPT ![c] = [addr |-> NoAddr, size |-> 0]]
        /\ IF FitsAligned(f, BlockSize(l), LayoutAlign(l)) # {} THEN Serve(c, f, l) ELSE Fails(c, f)
        /\ UNCHANGED <<hpPoison, hpNext, hpFrames, hpWant, hpLeft>>

\* dealloc, with the layout of the allocation.
Dealloc(c, p) ==
    LET l == hpLive[p]
    IN  /\ hpPc[c] = "idle"
        /\ hpFree' = InsertAndCoalesce(hpFree, p - FrontPad(l), BlockSize(l))
        /\ hpLive' = Without(hpLive, {p})
        /\ hpBytes' = hpBytes - BlockSize(l)
        /\ UNCHANGED <<hpPoison, hpEnd, hpNext, hpFrames, hpPc, hpWant, hpGrown, hpLeft>>

HpNext ==
    \E c \in HeapCpus :
        \/ \E l \in HeapLayouts : Alloc(c, l)
        \/ Grow(c)
        \/ AddGrown(c)
        \/ \E p \in DOMAIN hpLive : Dealloc(c, p)

HpSpec == HpInit /\ [][HpNext]_hpVars

-----------------------------------------------------------------------------
\* The blocks behind the pointers that are out: address -> size.
Blocks ==
    [a \in {p - FrontPad(hpLive[p]) : p \in DOMAIN hpLive} |->
        BlockSize(hpLive[CHOOSE p \in DOMAIN hpLive : p - FrontPad(hpLive[p]) = a])]

Disjoint(f, g) == \A a \in DOMAIN f, b \in DOMAIN g : a + f[a] <= b \/ b + g[b] <= a

\* A block handed out, red zones included, overlaps no other block that is out,
\* no free block and no page another CPU is about to add; and every pointer is
\* aligned as its layout asks (find_first_fit splits and dealloc merges blocks
\* of sizes that are no multiple of the block alignment).
HeapDisjoint ==
    /\ \A p, q \in DOMAIN hpLive : p < q =>
          p - FrontPad(hpLive[p]) + BlockSize(hpLive[p]) <= q - FrontPad(hpLive[q])
    /\ \A a, b \in DOMAIN hpFree : a < b => a + hpFree[a] <= b
    /\ Disjoint(Blocks, hpFree)
    /\ \A c \in HeapCpus : hpPc[c] = "add" =>
          \A f \in {Blocks, hpFree} : \A a \in DOMAIN f :
              a + f[a] <= hpGrown[c].addr \/ hpGrown[c].addr + hpGrown[c].size <= a
    /\ \A p \in DOMAIN hpLive : p % hpLive[p].align = 0
    /\ \A f \in {Blocks, hpFree} : \A a \in DOMAIN f : HeapRegion.base <= a /\ a + f[a] <= hpEnd

\* Two free blocks that touch are one block, and the counter equals the bytes
\* that are out (every path of alloc and dealloc keeps both, red zones and the
\* growth included).
HeapAccounted ==
    /\ \A a \in DOMAIN hpFree : a + hpFree[a] \notin DOMAIN hpFree
    /\ hpBytes = MapThenSumSet(LAMBDA a : Blocks[a], DOMAIN Blocks)

=============================================================================
