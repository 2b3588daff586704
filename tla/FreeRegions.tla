---------------------------- MODULE FreeRegions ----------------------------
(***************************************************************************)
(* The address-range allocators of kernel/mm/src/region.rs as operators: the *)
(* bump-only RegionAllocator of the kernel heap and the FreeRegionAllocator  *)
(* of kernel stacks, MMIO windows and user mmap areas.                       *)
(*                                                                         *)
(* A region is a record [base, end, cap]; a FreeRegionAllocator on it is a   *)
(* record [free, mark].  free is its sorted array of free ranges, as the     *)
(* function from the base of a range to its size: the array is kept in the   *)
(* order of the bases by every insertion, so the first fit is the least      *)
(* base that fits.                                                           *)
(***************************************************************************)
EXTENDS Integers, FiniteSets

CONSTANTS
    PageSize,     \* bytes in a page (4096 in the kernel)
    AddressWord   \* one more than the largest u64 (2^64 in the kernel)

ASSUME PageSizeAssumption == PageSize \in Nat \ {0}
ASSUME WordAssumption == AddressWord \in Nat /\ PageSize <= AddressWord

NoAddr == -1          \* None

\* The sum of two u64 values: the release build wraps.
Plus(x, y) == IF x + y < AddressWord THEN x + y ELSE x + y - AddressWord

PageAlignUp(size) == (Plus(size, PageSize - 1) \div PageSize) * PageSize

Least(S) == CHOOSE x \in S : \A y \in S : x <= y
Greatest(S) == CHOOSE x \in S : \A y \in S : x >= y

\* A sorted array of ranges with one entry more, or with some entries less.
With(f, b, n) == [x \in DOMAIN f \cup {b} |-> IF x = b THEN n ELSE f[x]]
Without(f, S) == [x \in DOMAIN f \ S |-> f[x]]
NoRanges == [x \in {} |-> 0]

\* The neighbours a range that starts at a has in the array.
Before(f, a) == {b \in DOMAIN f : b < a}
From(f, a) == {b \in DOMAIN f : b >= a}

-----------------------------------------------------------------------------
(***************************************************************************)
(* RegionAllocator: next only moves up.                                      *)
(***************************************************************************)
BumpAllocate(region, next, size) ==
    LET end == Plus(next, PageAlignUp(size))
    IN  IF end > region.end THEN [addr |-> NoAddr, next |-> next]
                            ELSE [addr |-> next, next |-> end]

-----------------------------------------------------------------------------
(***************************************************************************)
(* FreeRegionAllocator.                                                      *)
(***************************************************************************)
NewRegions(region) == [free |-> NoRanges, mark |-> region.base]

Fits(r, n) == {b \in DOMAIN r.free : r.free[b] >= n}

\* The first n bytes of the free range at b.
Carve(f, b, n) ==
    IF f[b] = n THEN Without(f, {b})
                ELSE With(Without(f, {b}), b + n, f[b] - n)

Allocate(region, r, size) ==
    LET n == PageAlignUp(size)
        b == Least(Fits(r, n))
        end == Plus(r.mark, n)
    IN  CASE n = 0 -> [addr |-> r.mark, alloc |-> r]
          [] n > 0 /\ Fits(r, n) # {} ->
                [addr |-> b, alloc |-> [r EXCEPT !.free = Carve(r.free, b, n)]]
          [] n > 0 /\ Fits(r, n) = {} /\ end > region.end ->
                [addr |-> NoAddr, alloc |-> r]
          [] OTHER -> [addr |-> r.mark, alloc |-> [r EXCEPT !.mark = end]]

\* retract_watermark: the loop pops the last range while it ends at the
\* watermark, so it takes the ranges from b on exactly when they reach the
\* watermark without a gap.
Reaches(r, b) ==
    \A x \in b..(r.mark - 1) :
        \E e \in DOMAIN r.free : b <= e /\ e <= x /\ x < e + r.free[e]

RetractWatermark(r) ==
    LET tail == {b \in DOMAIN r.free : Reaches(r, b)}
        mark == Least(tail \cup {r.mark})
    IN  [free |-> Without(r.free, From(r.free, mark)), mark |-> mark]

\* The neighbours that touch the range [a, a + n).
MergesPrev(f, a) ==
    Before(f, a) # {} /\ Greatest(Before(f, a)) + f[Greatest(Before(f, a))] = a
MergesNext(f, a, n) ==
    From(f, a) # {} /\ Least(From(f, a)) = a + n

\* (mutant) The size of the successor is added to the wrong neighbour.
MergeTwice(f, a, n) ==
    LET p == Greatest(Before(f, a))
        prev == MergesPrev(f, a)
        next == MergesNext(f, a, n)
    IN  CASE prev -> With(f, p, f[p] + n)
          [] ~prev /\ next -> With(f, a, n + f[a + n])
          [] OTHER -> With(f, a, n)

\* The four ways of merging the range with its neighbours; the last needs a free
\* slot of the array.
Merge(f, a, n) ==
    LET p == Greatest(Before(f, a))
        prev == MergesPrev(f, a)
        next == MergesNext(f, a, n)
    IN  CASE prev /\ next -> With(Without(f, {p, a + n}), p, f[p] + n + f[a + n])
          [] prev /\ ~next -> With(f, p, f[p] + n)
          [] ~prev /\ next -> With(Without(f, {a + n}), a, n + f[a + n])
          [] OTHER -> With(f, a, n)

Deallocate(region, r, addr, size) ==
    LET n == PageAlignUp(size)
        full == /\ ~MergesPrev(r.free, addr) /\ ~MergesNext(r.free, addr, n)
                /\ Cardinality(DOMAIN r.free) = region.cap
    IN  CASE n = 0 -> [ok |-> TRUE, alloc |-> r]
          [] n > 0 /\ addr + n = r.mark ->
                [ok |-> TRUE, alloc |-> RetractWatermark([r EXCEPT !.mark = addr])]
          [] n > 0 /\ addr + n # r.mark /\ full -> [ok |-> FALSE, alloc |-> r]
          [] OTHER ->
                [ok |-> TRUE,
                 alloc |-> RetractWatermark([r EXCEPT !.free = Merge(r.free, addr, n)])]

=============================================================================
