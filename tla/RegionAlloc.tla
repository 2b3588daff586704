---------------------------- MODULE RegionAlloc ----------------------------
(***************************************************************************)
(* A FreeRegionAllocator under the calls its owners make (the Vmm for stacks *)
(* and MMIO windows, a process for its mmap area): any sizes that the sums   *)
(* of allocate hold in a u64, and every range given back at most once.  All  *)
(* calls run under one lock.  Nothing in the code enforces the limit on the  *)
(* sizes for a user's mmap (sys_mem_map refuses a length of 0 and no other); *)
(* NoOverflow states it as the assumption it is.                             *)
(***************************************************************************)
EXTENDS FreeRegions

CONSTANTS
    Region,       \* [base, end, cap]
    Lengths       \* the lengths in bytes that are asked for

ASSUME RegionAssumption ==
    /\ Region.base \in Nat /\ Region.end \in Nat /\ Region.cap \in Nat
    /\ Region.base <= Region.end
    /\ Lengths \subseteq Nat

\* No sum of allocate or page_align_up wraps: the region and a request above it
\* end before 2^64, with two pages to spare for the rounding.
ASSUME NoOverflow == \A s \in Lengths : Region.end + s + 2 * PageSize <= AddressWord

VARIABLES
    raAlloc,      \* the allocator
    raLive,       \* ranges handed out and not given back: base -> size
    raLost        \* history: ranges whose deallocate failed with FreeListFull

raVars == <<raAlloc, raLive, raLost>>

RaInit ==
    /\ raAlloc = NewRegions(Region)
    /\ raLive = NoRanges
    /\ raLost = NoRanges

\* allocate(): a request of no bytes takes nothing.
Take(size) ==
    LET got == Allocate(Region, raAlloc, size)
        n == PageAlignUp(size)
    IN  /\ raAlloc' = got.alloc
        /\ raLive' = IF got.addr = NoAddr \/ n = 0 THEN raLive ELSE With(raLive, got.addr, n)
        /\ UNCHANGED raLost

\* deallocate() of a range handed out; when the array is full the range is
\* neither live nor free again.
Return(a) ==
    LET done == Deallocate(Region, raAlloc, a, raLive[a])
    IN  /\ raAlloc' = done.alloc
        /\ raLive' = Without(raLive, {a})
        /\ raLost' = IF done.ok THEN raLost ELSE With(raLost, a, raLive[a])

RaNext ==
    \/ \E size \in Lengths : Take(size)
    \/ \E a \in DOMAIN raLive : Return(a)

RaSpec == RaInit /\ [][RaNext]_raVars

-----------------------------------------------------------------------------
Bytes(f, a) == a..(a + f[a] - 1)
Covered(f) == UNION {Bytes(f, a) : a \in DOMAIN f}

Apart(f) == \A a, b \in DOMAIN f : a < b => a + f[a] <= b
ApartFrom(f, g) == \A a \in DOMAIN f, b \in DOMAIN g : a + f[a] <= b \/ b + g[b] <= a

\* A range handed out overlaps no other one, none that is free and none that
\* was lost, and lies in the region below the watermark (deallocate and
\* retract_watermark merge and drop ranges without looking at the live ones).
RangesDisjoint ==
    /\ Apart(raLive) /\ Apart(raAlloc.free) /\ Apart(raLost)
    /\ ApartFrom(raLive, raAlloc.free)
    /\ ApartFrom(raLive, raLost)
    /\ ApartFrom(raAlloc.free, raLost)
    /\ \A f \in {raLive, raAlloc.free, raLost} :
          \A a \in DOMAIN f : Region.base <= a /\ a + f[a] <= raAlloc.mark
    /\ raAlloc.mark <= Region.end

\* No byte below the watermark is forgotten: it is handed out, free, or was
\* lost to a full array.
NothingForgotten ==
    Region.base..(raAlloc.mark - 1) = Covered(raLive) \cup Covered(raAlloc.free) \cup Covered(raLost)

\* The array of free ranges never holds more than its N entries, whichever of the
\* four ways of merging a deallocation takes.
WithinArray == Cardinality(DOMAIN raAlloc.free) <= Region.cap

\* What the field's comment promises, "Adjacent ranges are always coalesced",
\* and that no free range is left right below the watermark: a request that
\* fits in a run of free bytes is never refused because of how it was freed.
Coalesced ==
    \A a \in DOMAIN raAlloc.free :
        /\ a + raAlloc.free[a] \notin DOMAIN raAlloc.free
        /\ a + raAlloc.free[a] # raAlloc.mark
        /\ raAlloc.free[a] > 0

=============================================================================
