---------------------------- MODULE KernelMemory ----------------------------
(*****************************************************************************)
(* Frames and address spaces: the frame bitmap with its zones, the windows of*)
(* the kernel's Vmm, the page tables, and the memory system calls on top.    *)
(*****************************************************************************)
EXTENDS Integers, SequencesExt, FreeRegions, FiniteSets

-----------------------------------------------------------------------------
(***************************************************************************)
(* The physical frame allocator (kernel/mm/src/pmm.rs) and the zone allocator *)
(* that carves its frames into blocks (kernel/mm/src/zone.rs).  All calls    *)
(* run under the PMM lock, those of a zone under the lock of the zone first. *)
(*                                                                         *)
(* The bitmap is the set of frames whose bit is one, over words of FbWord    *)
(* bits.  A region of the memory map is [start, size, usable] in frames.     *)
(***************************************************************************)
CONSTANTS
    FbWord,         \* bits in a word (64)
    FbWordsPerFrame,\* words of the bitmap that fit in a frame (512)
    FbMemoryMaps,   \* memory maps the kernel may boot with
    FbCounts,       \* numbers of frames asked for at once
    FbFrameSize,    \* bytes in a frame (4096)
    FbClasses,      \* block sizes of the zones (ZONE_SIZES)
    FbLayouts,      \* layouts asked of the zones: [size, align]
    FbCalls         \* bound: calls

VARIABLES
    fbMap,        \* the memory map
    fbBits,       \* frames marked allocated or reserved
    fbTotal,      \* total_frames
    fbCount,      \* free_count
    fbHint,       \* search_hint
    fbOwned,      \* history: frames that are out
    fbZone,       \* the free list of each zone: sequences of addresses
    fbBlocks,     \* blocks that are out: set of [addr, layout]
    fbExact,      \* history: every call answered as its reference does
    fbLeft

fbVars == <<fbMap, fbBits, fbTotal, fbCount, fbHint, fbOwned, fbZone, fbBlocks, fbExact, fbLeft>>

NoFrame == -1
Words(total) == (total + FbWord - 1) \div FbWord
WordBits(w) == (w * FbWord)..((w + 1) * FbWord - 1)

-----------------------------------------------------------------------------
\* BitmapAllocator::new: everything is reserved but the usable regions, and of
\* these the frames the bitmap itself occupies, in the first region that holds
\* it.
Usable(map) == {r \in ToSet(map) : r.usable}
FramesOf(r) == r.start..(r.start + r.size - 1)
TotalFrames(map) == Max({0} \cup {r.start + r.size : r \in Usable(map)})
BitmapFrames(map) == (Words(TotalFrames(map)) + FbWordsPerFrame - 1) \div FbWordsPerFrame
Holds(map, i) == map[i].usable /\ map[i].size * FbWordsPerFrame >= Words(TotalFrames(map))
BitmapStart(map) == map[Min({i \in DOMAIN map : Holds(map, i)})].start

InitialBits(map) ==
    LET total == TotalFrames(map)
        bitmap == BitmapStart(map)..(BitmapStart(map) + BitmapFrames(map) - 1)
        free == UNION {FramesOf(r) : r \in Usable(map)}
    IN  (0..(Words(total) * FbWord - 1)) \ ((free \cap 0..(total - 1)) \ bitmap)

\* The counter is kept while the bits are cleared and set.
InitialCount(map) ==
    LET free == UNION {FramesOf(r) : r \in Usable(map)}
        bitmap == BitmapStart(map)..(BitmapStart(map) + BitmapFrames(map) - 1)
    IN  MapThenSumSet(LAMBDA r : r.size, Usable(map)) - Cardinality(free \cap bitmap)

FbInit ==
    /\ fbMap \in {m \in FbMemoryMaps : TotalFrames(m) > 0 /\ \E i \in DOMAIN m : Holds(m, i)}
    /\ fbBits = InitialBits(fbMap)
    /\ fbTotal = TotalFrames(fbMap)
    /\ fbCount = InitialCount(fbMap)
    /\ fbHint = 0
    /\ fbOwned = {}
    /\ fbZone = [c \in FbClasses |-> << >>]
    /\ fbBlocks = {}
    /\ fbExact = TRUE
    /\ fbLeft = FbCalls

-----------------------------------------------------------------------------
\* allocate_frame: the first word with a zero bit from the hint on, round the
\* bitmap; NoFrame when the counter says so or no word has one.
FirstZero(w) == Min(WordBits(w) \ fbBits)
WordAt(k) == (fbHint + k) % Words(fbTotal)
Tries ==
    {k \in 0..(Words(fbTotal) - 1) :
        ~(WordBits(WordAt(k)) \subseteq fbBits) /\ FirstZero(WordAt(k)) < fbTotal}
OneFrame ==
    IF fbCount = 0 \/ Tries = {} THEN NoFrame ELSE FirstZero(WordAt(Min(Tries)))

\* allocate_frames: one pass that skips full words, takes free words whole and
\* looks at the bits of the others.
ScanBit(count, r, f) ==
    CASE r.len >= count \/ f >= fbTotal -> r
      [] r.len < count /\ f < fbTotal /\ f \in fbBits -> [start |-> f + 1, len |-> 0]
      [] OTHER -> [start |-> IF r.len = 0 THEN f ELSE r.start, len |-> r.len + 1]

ScanWord(count, r, w) ==
    CASE r.len >= count -> r
      [] r.len < count /\ WordBits(w) \subseteq fbBits -> [start |-> (w + 1) * FbWord, len |-> 0]
      [] r.len < count /\ WordBits(w) \cap fbBits = {} ->
            [start |-> IF r.len = 0 THEN w * FbWord ELSE r.start,
             len |-> r.len + Min({FbWord, fbTotal - w * FbWord})]
      [] OTHER -> FoldLeft(LAMBDA acc, i : ScanBit(count, acc, w * FbWord + i - 1), r,
                           [i \in 1..FbWord |-> i])

FrameRun(count) ==
    LET r == FoldLeft(LAMBDA acc, i : ScanWord(count, acc, i - 1), [start |-> 0, len |-> 0],
                      [i \in 1..Words(fbTotal) |-> i])
    IN  CASE count = 0 -> NoFrame
          [] count = 1 -> OneFrame
          [] OTHER -> IF fbCount < count \/ r.len < count THEN NoFrame ELSE r.start

\* The references: a frame is found when one is free, and of several frames the
\* lowest run.
Runs(count) == {f \in 0..(fbTotal - count) : f..(f + count - 1) \cap fbBits = {}}
LowestRun(count) == IF Runs(count) = {} THEN NoFrame ELSE Min(Runs(count))

Calls == fbLeft > 0 /\ fbLeft' = fbLeft - 1

Marks(frames, hint) ==
    /\ fbBits' = fbBits \cup frames
    /\ fbCount' = fbCount - Cardinality(frames)
    /\ fbHint' = hint

AllocateFrames(count) ==
    LET f == FrameRun(count)
        run == f..(f + count - 1)
    IN  /\ Calls
        /\ IF f = NoFrame THEN UNCHANGED <<fbBits, fbCount, fbHint, fbOwned>>
           ELSE /\ Marks(run, (IF count = 1 THEN f ELSE f + count) \div FbWord)
                /\ fbOwned' = fbOwned \cup run
        /\ fbExact' = (fbExact /\ CASE count = 0 -> f = NoFrame
                                    [] count = 1 -> (f = NoFrame) <=> (Runs(1) = {})
                                    [] OTHER -> f = LowestRun(count))
        /\ UNCHANGED <<fbMap, fbTotal, fbZone, fbBlocks>>

\* deallocate_frame and deallocate_frames of frames that are out.
FbDeallocate(f, count) ==
    LET run == f..(f + count - 1)
    IN  /\ Calls
        /\ run \subseteq fbOwned
        /\ fbBits' = fbBits \ run
        /\ fbCount' = fbCount + count
        /\ fbHint' = Min({fbHint, f \div FbWord})
        /\ fbOwned' = fbOwned \ run
        /\ UNCHANGED <<fbMap, fbTotal, fbZone, fbBlocks, fbExact>>

-----------------------------------------------------------------------------
\* zone_index: the least class that holds the size and the alignment.
ClassesFor(layout) == {c \in FbClasses : c >= Max({layout.size, layout.align})}

\* ZoneAllocator::alloc: an empty zone takes a frame, which is then the zone's for
\* good, and links its blocks in address order; the head of the list is handed out.
\* A layout no class holds, and a zone that cannot grow, are errors.
Carved(f, class) == [i \in 1..(FbFrameSize \div class) |-> f * FbFrameSize + (i - 1) * class]

ZoneAlloc(layout) ==
    LET class == Min(ClassesFor(layout))
        f == OneFrame
        grows == fbZone[class] = << >>
        list == IF grows THEN Carved(f, class) ELSE fbZone[class]
    IN  /\ Calls
        /\ IF ClassesFor(layout) # {} /\ (grows => f # NoFrame)
           THEN /\ fbZone' = [fbZone EXCEPT ![class] = Tail(list)]
                /\ fbBlocks' = fbBlocks \cup {[addr |-> Head(list), layout |-> layout]}
                /\ IF grows THEN Marks({f}, f \div FbWord) ELSE UNCHANGED <<fbBits, fbCount, fbHint>>
           ELSE UNCHANGED <<fbZone, fbBlocks, fbBits, fbCount, fbHint>>
        /\ UNCHANGED <<fbMap, fbTotal, fbOwned, fbExact>>

ZoneDealloc(b) ==
    /\ Calls
    /\ fbZone' = [fbZone EXCEPT ![Min(ClassesFor(b.layout))] = <<b.addr>> \o @]
    /\ fbBlocks' = fbBlocks \ {b}
    /\ UNCHANGED <<fbMap, fbBits, fbTotal, fbCount, fbHint, fbOwned, fbExact>>

FbNext ==
    \/ \E count \in FbCounts : AllocateFrames(count)
    \/ \E f \in fbOwned, count \in FbCounts : count > 0 /\ FbDeallocate(f, count)
    \/ \E layout \in FbLayouts : ZoneAlloc(layout)
    \/ \E b \in fbBlocks : ZoneDealloc(b)

FbSpec == FbInit /\ [][FbNext]_fbVars

-----------------------------------------------------------------------------
BytesOf(b) == b.addr..(b.addr + b.layout.size - 1)

\* Every frame that is out is marked, so that no later call finds it; no frame
\* out of the usable regions or of the bitmap itself is handed out; the blocks of
\* the zones that are out do not overlap, are aligned as asked, lie in frames
\* nobody else has, and none of them is on a free list.
FramesOwnedOnce ==
    /\ fbOwned \subseteq fbBits
    /\ \A f \in fbOwned : /\ \E r \in Usable(fbMap) : f \in FramesOf(r)
                          /\ f \notin BitmapStart(fbMap)..(BitmapStart(fbMap) + BitmapFrames(fbMap) - 1)
    /\ \A b \in fbBlocks :
          /\ b.addr % b.layout.align = 0
          /\ \A x \in BytesOf(b) : x \div FbFrameSize \in fbBits \ fbOwned
          /\ \A c \in fbBlocks \ {b} : BytesOf(b) \cap BytesOf(c) = {}
          /\ \A class \in FbClasses : \A i \in DOMAIN fbZone[class] :
                fbZone[class][i]..(fbZone[class][i] + class - 1) \cap BytesOf(b) = {}

\* The counter is the number of free frames, a frame is refused only when none
\* is free, and allocate_frames takes the lowest run there is (its scan treats
\* full, free and mixed words differently and starts over at each full word).
FramesAccounted ==
    /\ fbCount = Cardinality((0..(fbTotal - 1)) \ fbBits)
    /\ fbExact

-----------------------------------------------------------------------------
(***************************************************************************)
(* The kernel's own mappings (kernel/mm/src/vmm.rs, kernel/kernel/src/mm/    *)
(* vmm.rs): kernel stacks behind a guard page, and windows on device memory  *)
(* that are unmapped when their MmioMapping is dropped.  Every operation     *)
(* holds the VMM lock, and the PMM lock inside it, from start to end.        *)
(***************************************************************************)
CONSTANTS
    KvStacks, KvMmio,   \* the regions: [base, end, cap]
    KvStackPages,       \* pages of a kernel stack (16)
    KvFrames,           \* free frames
    KvWindows,          \* device windows that are mapped: [phys, size, cache]
    KvOps               \* bound: operations

VARIABLES
    kvTable,      \* the kernel page table: page -> [frame, cache]
    kvStacks,     \* stacks_alloc
    kvMmio,       \* mmio_alloc
    kvFree,       \* free frames
    kvLive,       \* kernel stacks handed out: guard addresses
    kvOpen,       \* MmioMappings not yet dropped: base -> window
    kvStray,      \* history: pages mapped for a stack that then failed
    kvLeft

kvVars == <<kvTable, kvStacks, kvMmio, kvFree, kvLive, kvOpen, kvStray, kvLeft>>

KvPage(addr) == addr \div PageSize
PageCount(size) == (size + PageSize - 1) \div PageSize
StackSize == (1 + KvStackPages) * PageSize

KvInit ==
    /\ kvTable = NoRanges
    /\ kvStacks = NewRegions(KvStacks)
    /\ kvMmio = NewRegions(KvMmio)
    /\ kvFree = KvFrames
    /\ kvLive = {}
    /\ kvOpen = NoRanges
    /\ kvStray = {}
    /\ kvLeft = KvOps

FramesFor(n) ==
    LET s == SetToSortSeq(kvFree, <)
    IN  SubSeq(s, 1, IF n < Len(s) THEN n ELSE Len(s))

MapFrom(first, n, entry(_)) ==
    [x \in DOMAIN kvTable \cup first..(first + n - 1) |->
        IF x \in first..(first + n - 1) THEN entry(x - first) ELSE kvTable[x]]

\* alloc_kernel_stack: the first page of the range stays unmapped.  When a frame
\* is missing the call fails with what it has mapped still in place, and its
\* callers panic: nothing runs after that.
AllocKernelStack ==
    LET got == Allocate(KvStacks, kvStacks, StackSize)
        first == KvPage(got.addr) + 1
        s == FramesFor(KvStackPages)
        mapped == first..(first + Len(s) - 1)
    IN  /\ kvLeft > 0
        /\ kvLeft' = IF got.addr = NoAddr \/ Len(s) < KvStackPages THEN 0 ELSE kvLeft - 1
        /\ kvStacks' = got.alloc
        /\ IF got.addr = NoAddr THEN UNCHANGED <<kvTable, kvFree, kvLive, kvStray>>
           ELSE /\ kvTable' = MapFrom(first, Len(s), LAMBDA i : [frame |-> s[i + 1], cache |-> "normal"])
                /\ kvFree' = kvFree \ ToSet(s)
                /\ IF Len(s) = KvStackPages
                   THEN kvLive' = kvLive \cup {got.addr} /\ UNCHANGED kvStray
                   ELSE kvStray' = kvStray \cup mapped /\ UNCHANGED kvLive
        /\ UNCHANGED <<kvMmio, kvOpen>>

\* map_mmio_with_cache: the device pages one after the other.  Its only caller
\* panics when the region is exhausted: nothing runs after that.
MapMmio(w) ==
    LET got == Allocate(KvMmio, kvMmio, PageCount(w.size) * PageSize)
    IN  /\ kvLeft > 0 /\ kvLeft' = IF got.addr = NoAddr THEN 0 ELSE kvLeft - 1
        /\ kvMmio' = got.alloc
        /\ IF got.addr = NoAddr THEN UNCHANGED <<kvTable, kvOpen>>
           ELSE /\ kvTable' = MapFrom(KvPage(got.addr), PageCount(w.size),
                                      LAMBDA i : [frame |-> w.phys + i, cache |-> w.cache])
                /\ kvOpen' = With(kvOpen, got.addr, w)
        /\ UNCHANGED <<kvStacks, kvFree, kvLive, kvStray>>

\* default_mmio_cleanup: the pages are unmapped, then the range is returned.
DropMmio(base) ==
    LET n == PageCount(kvOpen[base].size)
    IN  /\ kvLeft > 0 /\ kvLeft' = kvLeft - 1
        /\ kvTable' = Without(kvTable, KvPage(base)..(KvPage(base) + n - 1))
        /\ kvMmio' = Deallocate(KvMmio, kvMmio, base, n * PageSize).alloc
        /\ kvOpen' = Without(kvOpen, {base})
        /\ UNCHANGED <<kvStacks, kvFree, kvLive, kvStray>>

KvNext ==
    \/ AllocKernelStack
    \/ \E w \in KvWindows : MapMmio(w)
    \/ \E base \in DOMAIN kvOpen : DropMmio(base)

KvSpec == KvInit /\ [][KvNext]_kvVars

-----------------------------------------------------------------------------
StackPagesOf(guard) == (KvPage(guard) + 1)..(KvPage(guard) + KvStackPages)

\* Every window shows its device pages in order and with its cache mode until it
\* is dropped, every kernel stack has frames of its own and an unmapped page
\* below it, and nothing else of the two regions is mapped but the pages of
\* stacks whose allocation failed half way.
WindowsIntact ==
    /\ \A base \in DOMAIN kvOpen : \A i \in 0..(PageCount(kvOpen[base].size) - 1) :
          /\ KvPage(base) + i \in DOMAIN kvTable
          /\ kvTable[KvPage(base) + i] =
                [frame |-> kvOpen[base].phys + i, cache |-> kvOpen[base].cache]
    /\ \A guard \in kvLive :
          /\ KvPage(guard) \notin DOMAIN kvTable
          /\ \A x \in StackPagesOf(guard) :
                /\ x \in DOMAIN kvTable /\ kvTable[x].frame \notin kvFree
                /\ \A y \in DOMAIN kvTable : kvTable[y].frame = kvTable[x].frame => y = x
    /\ DOMAIN kvTable = kvStray \cup UNION {StackPagesOf(g) : g \in kvLive}
          \cup UNION {KvPage(b)..(KvPage(b) + PageCount(kvOpen[b].size) - 1) : b \in DOMAIN kvOpen}

-----------------------------------------------------------------------------
(***************************************************************************)
(* The x86_64 page table mapper                                              *)
(* (kernel/kernel/src/arch/x86_64/paging/mapper.rs over                      *)
(* structures/paging.rs): four levels of tables, pages of three sizes, and   *)
(* the conversion of map flags to entry bits.                                *)
(*                                                                         *)
(* A table has two entries here instead of 512, so a 2 MiB page is two pages *)
(* of 4 KiB and a 1 GiB page is four.  Virtual pages and physical frames are *)
(* counted in units of 4 KiB.                                                *)
(***************************************************************************)
CONSTANTS
    PtPages,      \* virtual pages the callers use
    PtFrames,     \* physical frames they map
    PtFlags,      \* the sets of map flags they map with
    PtOps         \* bound: operations

VARIABLES
    ptMem,        \* the tables: table -> index -> entry
    ptView,       \* reference: what the callers have mapped, page -> mapping
    ptAgrees,     \* history: every result was the one the reference gives
    ptLeft        \* operations left

ptVars == <<ptMem, ptView, ptAgrees, ptLeft>>

Root == 0         \* the PML4; the other tables are numbered as they are allocated
NoTable == -1
Sizes == {"4K", "2M", "1G"}
Span(size) == CASE size = "4K" -> 1 [] size = "2M" -> 2 [] size = "1G" -> 4

\* The level whose entry maps a page of the size, and the index of a page in a
\* table of level 1 (PT) to 4 (PML4).
LevelOf(size) == CASE size = "4K" -> 1 [] size = "2M" -> 2 [] size = "1G" -> 3
Ix(p, level) == (p \div (CASE level = 1 -> 1 [] level = 2 -> 2 [] level = 3 -> 4 [] level = 4 -> 8)) % 2

Empty == [addr |-> 0, flags |-> {}]
EmptyTable == [i \in {0, 1} |-> Empty]
Present(e) == "PRESENT" \in e.flags

\* PageTableEntry::new: the entry is the address or'ed with the flag bits, and
\* PAT_HUGE is bit 12, the lowest bit of the frame number, so it reads back as
\* part of the address.
NewEntry(addr, flags) ==
    [addr |-> IF "PAT_HUGE" \in flags /\ addr % 2 = 0 THEN addr + 1 ELSE addr,
     flags |-> flags \ {"PAT_HUGE"}]

\* map_flags_to_native; PAT_4K and HUGE_PAGE are the same bit 7.
Native(flags) ==
    LET kept == {"PRESENT"} \cup (flags \cap {"WRITABLE", "USER", "CACHE_DISABLE"})
                   \cup (IF "EXECUTABLE" \in flags THEN {} ELSE {"NO_EXECUTE"})
    IN  IF "WRITE_COMBINE" \in flags
        THEN (kept \cup {"BIT7", "PAT_HUGE"}) \ {"CACHE_DISABLE"}
        ELSE kept

\* intermediate_flags_for
Intermediate(native) == {"PRESENT", "WRITABLE"} \cup (native \cap {"USER"})

-----------------------------------------------------------------------------
\* (mutant) An existing entry keeps its flags.
EnsureTableAsIs(mem, t, i, flags) ==
    LET new == Cardinality(DOMAIN mem)
    IN  IF Present(mem[t][i]) THEN [mem |-> mem, table |-> mem[t][i].addr]
        ELSE [mem |-> [x \in DOMAIN mem \cup {new} |->
                          CASE x = new -> EmptyTable
                            [] x = t -> [mem[t] EXCEPT ![i] = NewEntry(new, flags)]
                            [] OTHER -> mem[x]],
              table |-> new]

\* ensure_table: adds the flags to the entry, or allocates a zeroed table.
EnsureTable(mem, t, i, flags) ==
    LET e == mem[t][i]
        new == Cardinality(DOMAIN mem)
    IN  IF Present(e)
        THEN [mem |-> [mem EXCEPT ![t][i] = NewEntry(e.addr, e.flags \cup flags)], table |-> e.addr]
        ELSE [mem |-> [x \in DOMAIN mem \cup {new} |->
                          CASE x = new -> EmptyTable
                            [] x = t -> [mem[t] EXCEPT ![i] = NewEntry(new, flags)]
                            [] OTHER -> mem[x]],
              table |-> new]

\* map_4k, map_2mib and map_1gib: the tables down to the level of the size are
\* ensured and the entry there is written, whatever it held.
Map(mem, p, frame, size, native) ==
    LET flags == Intermediate(native)
        d3 == EnsureTable(mem, Root, Ix(p, 4), flags)
        d2 == EnsureTable(d3.mem, d3.table, Ix(p, 3), flags)
        d1 == EnsureTable(d2.mem, d2.table, Ix(p, 2), flags)
        d == CASE size = "1G" -> d3 [] size = "2M" -> d2 [] size = "4K" -> d1
        leaf == NewEntry(frame, IF size = "4K" THEN native ELSE native \cup {"BIT7"})
    IN  [d.mem EXCEPT ![d.table][Ix(p, LevelOf(size))] = leaf]

\* One step of a walk: the table an entry of the level points to.
Down(mem, at, p, level) ==
    LET e == mem[at.table][Ix(p, level)]
    IN  CASE at.err # "none" -> at
          [] at.err = "none" /\ ~Present(e) -> [table |-> NoTable, err |-> "NotMapped"]
          [] at.err = "none" /\ Present(e) /\ level < 4 /\ "BIT7" \in e.flags ->
                [table |-> NoTable, err |-> "HugePage"]
          [] OTHER -> [table |-> e.addr, err |-> "none"]

\* The table that holds the entry of a page of the size.
Holder(mem, p, size) ==
    LET pdpt == Down(mem, [table |-> Root, err |-> "none"], p, 4)
        pd == Down(mem, pdpt, p, 3)
        pt == Down(mem, pd, p, 2)
    IN  CASE size = "1G" -> pdpt [] size = "2M" -> pd [] size = "4K" -> pt

\* The walk of unmap_4k/2mib/1gib and update_flags_4k/2mib/1gib: the entry to
\* change, or the error.
LeafOf(mem, p, size) ==
    LET h == Holder(mem, p, size)
        e == mem[h.table][Ix(p, LevelOf(size))]
    IN  CASE h.err # "none" -> h
          [] h.err = "none" /\ ~Present(e) -> [table |-> NoTable, err |-> "NotMapped"]
          [] h.err = "none" /\ Present(e) /\ size # "4K" /\ "BIT7" \notin e.flags ->
                [table |-> NoTable, err |-> "HugePage"]
          [] OTHER -> h

Write(mem, p, size, table, entry) == [mem EXCEPT ![table][Ix(p, LevelOf(size))] = entry]
EntryAt(mem, p, size, table) == mem[table][Ix(p, LevelOf(size))]

\* translate and translate_addr: the frame behind the page, with the offset in
\* the page added for the larger sizes, and the flags of the entry.
Translate(mem, p) ==
    LET ok == {size \in Sizes : LeafOf(mem, p, size).err = "none"}
        size == CHOOSE s \in ok : TRUE
        e == EntryAt(mem, p, size, LeafOf(mem, p, size).table)
    IN  IF ok = {} THEN {} ELSE {[frame |-> e.addr + (p % Span(size)), flags |-> e.flags]}

-----------------------------------------------------------------------------
PtInit ==
    /\ ptMem = [t \in {Root} |-> EmptyTable]
    /\ ptView = [p \in {} |-> 0]
    /\ ptAgrees = TRUE
    /\ ptLeft = PtOps

Start(p, size) == p - (p % Span(size))
Within(p, size) == {q \in 0..15 : Start(q, size) = Start(p, size)}

Mapping(p, frame, size, native) ==
    [q \in DOMAIN ptView \cup Within(p, size) |->
        IF q \in Within(p, size)
        THEN [frame |-> frame + (q - Start(p, size)), size |-> size, flags |-> native,
              combining |-> "PAT_HUGE" \in native]
        ELSE ptView[q]]

\* PageMapper::map.  The caller vouches that the mapping conflicts with no other
\* one: the pages are free, or one page of 4 KiB is mapped anew.
MapPage(p, frame, size, flags) ==
    /\ ptLeft > 0 /\ ptLeft' = ptLeft - 1
    /\ frame % Span(size) = 0
    /\ \A q \in Within(p, size) \cap DOMAIN ptView : size = "4K" /\ ptView[q].size = "4K"
    /\ ptMem' = Map(ptMem, p, frame, size, Native(flags))
    /\ ptView' = Mapping(p, frame, size, Native(flags))
    /\ UNCHANGED ptAgrees

Maps(p, size) == p \in DOMAIN ptView /\ ptView[p].size = size

\* PageMapper::unmap gives the frame back, or an error.
UnmapPage(p, size) ==
    LET l == LeafOf(ptMem, p, size)
    IN  /\ ptLeft > 0 /\ ptLeft' = ptLeft - 1
        /\ IF l.err = "none"
           THEN /\ ptMem' = Write(ptMem, p, size, l.table, Empty)
                /\ ptView' = [q \in DOMAIN ptView \ Within(p, size) |-> ptView[q]]
           ELSE UNCHANGED <<ptMem, ptView>>
        /\ ptAgrees' = /\ ptAgrees
                       /\ (l.err = "none") = Maps(p, size)
                       /\ l.err = "none" /\ Maps(p, size) /\ ~ptView[p].combining =>
                            EntryAt(ptMem, p, size, l.table).addr = ptView[p].frame - (p % Span(size))

\* PageMapper::update_flags keeps the address of the entry.  Its caller,
\* AddressSpace::protect_range, never changes whether a page is a user page.
UpdateFlags(p, size, flags) ==
    LET l == LeafOf(ptMem, p, size)
        native == Native(flags)
        e == EntryAt(ptMem, p, size, l.table)
    IN  /\ ptLeft > 0 /\ ptLeft' = ptLeft - 1
        /\ p \in DOMAIN ptView => (("USER" \in flags) <=> ("USER" \in ptView[p].flags))
        /\ IF l.err = "none"
           THEN /\ ptMem' = Write(ptMem, p, size, l.table,
                              NewEntry(e.addr, IF size = "4K" THEN native ELSE native \cup {"BIT7"}))
                /\ ptView' = [q \in DOMAIN ptView |->
                                 IF q \in Within(p, size) THEN [ptView[q] EXCEPT !.flags = native,
                                                                        !.combining = @ \/ "PAT_HUGE" \in native]
                                                          ELSE ptView[q]]
           ELSE UNCHANGED <<ptMem, ptView>>
        /\ ptAgrees' = (ptAgrees /\ (l.err = "none") = Maps(p, size))

PtNext ==
    \E p \in PtPages, size \in Sizes :
        \/ \E frame \in PtFrames, flags \in PtFlags : MapPage(p, frame, size, flags)
        \/ UnmapPage(p, size)
        \/ \E flags \in PtFlags : UpdateFlags(p, size, flags)

PtSpec == PtInit /\ [][PtNext]_ptVars

-----------------------------------------------------------------------------
\* What a walk of the tables may do at a page: user and write access need the
\* bit in every entry on the way.
PathFlags(p) ==
    LET size == ptView[p].size
        pdpt == Holder(ptMem, p, "1G").table
        pd == Holder(ptMem, p, "2M").table
    IN  {ptMem[Root][Ix(p, 4)].flags}
          \cup (IF size \in {"2M", "4K"} THEN {ptMem[pdpt][Ix(p, 3)].flags} ELSE {})
          \cup (IF size = "4K" THEN {ptMem[pd][Ix(p, 2)].flags} ELSE {})

\* Every page translates to what was mapped there last and no page translates
\* that was not mapped, whatever mix of sizes, remappings and unmappings came
\* before; a user page can be reached by user code through the tables above it
\* (ensure_table widens the flags of tables that kernel pages created).  Pages
\* that were write-combining have a property of their own.
TranslationAgrees ==
    /\ ptAgrees
    /\ \A p \in 0..15 :
          IF p \notin DOMAIN ptView THEN Translate(ptMem, p) = {}
          ELSE /\ \A t \in Translate(ptMem, p) :
                      ~ptView[p].combining => t.frame = ptView[p].frame
               /\ Translate(ptMem, p) # {}
               /\ "USER" \in ptView[p].flags => \A f \in PathFlags(p) : "USER" \in f

-----------------------------------------------------------------------------
(***************************************************************************)
(* The memory system calls (kernel/kernel/src/syscall/memory.rs), the shared *)
(* memory objects behind them (ipc/shm.rs) and the address spaces they       *)
(* change (kernel/mm/src/address_space.rs).                                  *)
(*                                                                         *)
(* Threads of one process share an address space, an mmap allocator and an   *)
(* fd table; every call takes the locks one after the other, so the calls of *)
(* other threads come in between.  The page tables are the functions         *)
(* PageTable shows them to be, the mmap area is a FreeRegionAllocator, the   *)
(* PMM is its set of free frames.                                            *)
(***************************************************************************)
CONSTANTS
    UmThreads,    \* threads
    UmHomes,      \* the ways they belong to processes: thread -> process
    UmProcs,      \* processes
    UmFrames,     \* the frames of the PMM
    UmDevice,     \* the frames of a device, in order
    UmArea,       \* [base, end, cap]: the mmap area of a process
    UmLengths,    \* lengths, in bytes, of what is mapped
    UmBreaks,     \* addresses brk is called with
    UmObjects,    \* shared memory objects that may be created
    UmCalls       \* bound: system calls

VARIABLES
    umHome,       \* the process of each thread
    umTable,      \* page tables: process -> page -> [frame, kind]
    umAlloc,      \* process -> mmap_alloc
    umMaps,       \* process -> mmap_mappings: base -> [kind, pages]
    umBreak,      \* process -> program_break
    umFree,       \* frames the PMM has
    umShm,        \* objects: object -> the frames it owns, << >> once dropped
    umFds,        \* process -> objects it has a descriptor of
    umPc,         \* where each thread is in its call
    umCall,       \* its arguments and locals: [base, pages, kind, obj, done]
    umLeaked,     \* history: frames whose only page table entry was overwritten
    umLeft        \* calls left

umVars == <<umHome, umTable, umAlloc, umMaps, umBreak, umFree, umShm, umFds, umPc, umCall,
            umLeaked, umLeft>>

NoObj == "none"
NoCall == [base |-> NoAddr, pages |-> 0, kind |-> "none", obj |-> NoObj, done |-> 0]

PageOf(addr) == addr \div PageSize
PagesOf(base, n) == PageOf(base)..(PageOf(base) + n - 1)

UmInit ==
    /\ umHome \in UmHomes
    /\ umTable = [p \in UmProcs |-> NoRanges]
    /\ umAlloc = [p \in UmProcs |-> NewRegions(UmArea)]
    /\ umMaps = [p \in UmProcs |-> NoRanges]
    /\ umBreak = [p \in UmProcs |-> 0]
    /\ umFree = UmFrames
    /\ umShm = NoRanges
    /\ umFds = [p \in UmProcs |-> {}]
    /\ umPc = [t \in UmThreads |-> "user"]
    /\ umCall = [t \in UmThreads |-> NoCall]
    /\ umLeaked = {}
    /\ umLeft = UmCalls

Goto(t, label) == umPc' = [umPc EXCEPT ![t] = label]
Enters(t) == umPc[t] = "user" /\ umLeft > 0 /\ umLeft' = umLeft - 1
Returns(t) == Goto(t, "user") /\ umCall' = [umCall EXCEPT ![t] = NoCall]

-----------------------------------------------------------------------------
(***************************************************************************)
(* Frames and page tables.                                                   *)
(***************************************************************************)
\* allocate_frame n times: the frames in the order of the bitmap.
TakeFrames(free, n) ==
    LET s == SetToSortSeq(free, <)
    IN  SubSeq(s, 1, IF n < Len(s) THEN n ELSE Len(s))

RangeOf(s) == {s[i] : i \in DOMAIN s}

\* map_user_page for the frames in s at the pages from first on: an entry that
\* is there already is overwritten.
MapAll(table, first, s, kind) ==
    [x \in DOMAIN table \cup first..(first + Len(s) - 1) |->
        IF x \in first..(first + Len(s) - 1)
        THEN [frame |-> s[x - first + 1], kind |-> kind] ELSE table[x]]

Overwritten(table, first, n) ==
    {table[x].frame : x \in {y \in DOMAIN table : y \in first..(first + n - 1) /\ table[y].kind = "anon"}}

FramesAt(table, pages) == {table[x].frame : x \in DOMAIN table \cap pages}

\* The objects some descriptor or some call in progress still refers to.
Referenced(fds, call) ==
    UNION {fds[p] : p \in UmProcs} \cup {call[t].obj : t \in UmThreads}

\* ShmObject::drop, when the last reference has gone: its frames are freed.
DropObjects(fds, call) ==
    LET gone == {o \in DOMAIN umShm : o \notin Referenced(fds, call)}
    IN  /\ umShm' = [o \in DOMAIN umShm |-> IF o \in gone THEN << >> ELSE umShm[o]]
        /\ umFree' = umFree \cup UNION {RangeOf(umShm[o]) : o \in gone}

-----------------------------------------------------------------------------
(***************************************************************************)
(* mem_map, mem_map_shared                                                   *)
(***************************************************************************)
\* What mem_map asks of a device and mem_map_shared of an object: that it is
\* open and as large as the mapping.
DeviceLargeEnough(n) == n <= Len(UmDevice)
ObjectLargeEnough(p, obj, n) == obj \in umFds[p] /\ n <= Len(umShm[obj])

\* The arguments are checked, then mmap_alloc gives the address range; the
\* object of a shared mapping is referenced from here to the return.
MapBegin(t, kind, length, obj) ==
    LET p == umHome[t]
        n == PageAlignUp(length) \div PageSize
        got == Allocate(UmArea, umAlloc[p], length)
    IN  /\ Enters(t)
        /\ kind = "device" => DeviceLargeEnough(n)
        /\ kind = "shared" => ObjectLargeEnough(p, obj, n)
        /\ umAlloc' = [umAlloc EXCEPT ![p] = got.alloc]
        /\ IF got.addr = NoAddr THEN UNCHANGED <<umPc, umCall>>
           ELSE /\ Goto(t, "map")
                /\ umCall' = [umCall EXCEPT ![t] =
                     [NoCall EXCEPT !.base = got.addr, !.pages = n, !.kind = kind, !.obj = obj]]
        /\ UNCHANGED <<umHome, umTable, umMaps, umBreak, umFree, umShm, umFds, umLeaked>>

\* The frames behind a mapping of a device and of an object.
DeviceFrames(m) == SubSeq(UmDevice, 1, m.pages)
ObjectFrames(m) == SubSeq(umShm[m.obj], 1, m.pages)

\* The pages are mapped under the PMM lock; an anonymous mapping that runs out
\* of frames stops where it is.
MapPages(t) ==
    LET p == umHome[t]
        m == umCall[t]
        s == CASE m.kind = "anon" -> TakeFrames(umFree, m.pages)
               [] m.kind = "device" -> DeviceFrames(m)
               [] m.kind = "shared" -> ObjectFrames(m)
    IN  /\ umPc[t] = "map"
        /\ umTable' = [umTable EXCEPT ![p] = MapAll(@, PageOf(m.base), s, m.kind)]
        /\ umFree' = umFree \ (IF m.kind = "anon" THEN RangeOf(s) ELSE {})
        /\ umLeaked' = umLeaked \cup Overwritten(umTable[p], PageOf(m.base), Len(s))
        /\ umCall' = [umCall EXCEPT ![t].done = Len(s)]
        /\ Goto(t, IF Len(s) = m.pages THEN "track" ELSE "unwind")
        /\ UNCHANGED <<umHome, umAlloc, umMaps, umBreak, umShm, umFds, umLeft>>

\* Out of frames: the pages mapped so far are unmapped and freed ...
Unwind(t) ==
    LET p == umHome[t]
        m == umCall[t]
        pages == PagesOf(m.base, m.done)
    IN  /\ umPc[t] = "unwind"
        /\ umTable' = [umTable EXCEPT ![p] = Without(@, pages)]
        /\ umFree' = umFree \cup FramesAt(umTable[p], pages)
        /\ Goto(t, "giveback")
        /\ UNCHANGED <<umHome, umAlloc, umMaps, umBreak, umShm, umFds, umCall, umLeaked, umLeft>>

\* ... and the range returns to mmap_alloc, here and at the end of mem_unmap;
\* the result of deallocate is ignored.
GiveBack(t) ==
    LET p == umHome[t]
        m == umCall[t]
    IN  /\ umPc[t] = "giveback"
        /\ umAlloc' = [umAlloc EXCEPT ![p] = Deallocate(UmArea, @, m.base, m.pages * PageSize).alloc]
        /\ Returns(t)
        /\ UNCHANGED <<umHome, umTable, umMaps, umBreak, umFree, umShm, umFds, umLeaked, umLeft>>

\* The mapping is recorded and the call returns; its reference to the object
\* ends, and nothing in the mapping holds another one.
Track(t) ==
    LET p == umHome[t]
        m == umCall[t]
    IN  /\ umPc[t] = "track"
        /\ umMaps' = [umMaps EXCEPT ![p] = With(@, m.base, [kind |-> m.kind, pages |-> m.pages])]
        /\ Returns(t)
        /\ DropObjects(umFds, [umCall EXCEPT ![t] = NoCall])
        /\ UNCHANGED <<umHome, umTable, umAlloc, umBreak, umFds, umLeaked, umLeft>>

-----------------------------------------------------------------------------
(***************************************************************************)
(* mem_unmap, of a mapping as mem_map returned it                            *)
(***************************************************************************)
UnmapBegin(t, base) ==
    LET p == umHome[t]
        m == umMaps[p][base]
    IN  /\ Enters(t)
        /\ umMaps' = [umMaps EXCEPT ![p] = Without(@, {base})]
        /\ umCall' = [umCall EXCEPT ![t] =
              [NoCall EXCEPT !.base = base, !.pages = m.pages, !.kind = m.kind]]
        /\ Goto(t, "unmap")
        /\ UNCHANGED <<umHome, umTable, umAlloc, umBreak, umFree, umShm, umFds, umLeaked>>

\* (mutant) The frames of every mapping are freed.
UnmapFrees(t) ==
    LET p == umHome[t]
        m == umCall[t]
        pages == PagesOf(m.base, m.pages)
    IN  /\ umPc[t] = "unmap"
        /\ umTable' = [umTable EXCEPT ![p] = Without(@, pages)]
        /\ umFree' = umFree \cup (FramesAt(umTable[p], pages) \cap UmFrames)
        /\ Goto(t, "giveback")
        /\ UNCHANGED <<umHome, umAlloc, umMaps, umBreak, umShm, umFds, umCall, umLeaked, umLeft>>

\* The frames of an anonymous mapping are freed; those of a device or an object
\* are not this mapping's.
UnmapPages(t) ==
    LET p == umHome[t]
        m == umCall[t]
        pages == PagesOf(m.base, m.pages)
    IN  /\ umPc[t] = "unmap"
        /\ umTable' = [umTable EXCEPT ![p] = Without(@, pages)]
        /\ umFree' = umFree \cup (IF m.kind = "anon" THEN FramesAt(umTable[p], pages) ELSE {})
        /\ Goto(t, "giveback")
        /\ UNCHANGED <<umHome, umAlloc, umMaps, umBreak, umShm, umFds, umCall, umLeaked, umLeft>>

-----------------------------------------------------------------------------
(***************************************************************************)
(* mem_brk, all of it under the program_break lock.  An expansion that runs  *)
(* out of frames leaves the pages it has mapped and the break as it was.     *)
(***************************************************************************)
Brk(t, addr) ==
    LET p == umHome[t]
        new == PageAlignUp(addr) \div PageSize
        old == PageAlignUp(umBreak[p]) \div PageSize
        s == TakeFrames(umFree, new - old)
    IN  /\ Enters(t) /\ addr > 0
        /\ IF new > old
           THEN /\ umTable' = [umTable EXCEPT ![p] = MapAll(@, old, s, "anon")]
                /\ umFree' = umFree \ RangeOf(s)
                /\ umLeaked' = umLeaked \cup Overwritten(umTable[p], old, Len(s))
                /\ umBreak' = [umBreak EXCEPT ![p] = IF Len(s) = new - old THEN addr ELSE @]
           ELSE /\ umTable' = [umTable EXCEPT ![p] = Without(@, new..(old - 1))]
                /\ umFree' = umFree \cup FramesAt(umTable[p], new..(old - 1))
                /\ umBreak' = [umBreak EXCEPT ![p] = addr]
                /\ UNCHANGED umLeaked
        /\ UNCHANGED <<umHome, umAlloc, umMaps, umShm, umFds, umPc, umCall>>

-----------------------------------------------------------------------------
(***************************************************************************)
(* Shared memory objects.                                                    *)
(***************************************************************************)
\* mem_create_shared: all frames or none, then a descriptor.
CreateShared(t, o, length) ==
    LET n == PageAlignUp(length) \div PageSize
        s == TakeFrames(umFree, n)
    IN  /\ Enters(t) /\ o \notin DOMAIN umShm
        /\ IF Len(s) = n
           THEN /\ umShm' = With(umShm, o, s)
                /\ umFree' = umFree \ RangeOf(s)
                /\ umFds' = [umFds EXCEPT ![umHome[t]] = @ \cup {o}]
           ELSE UNCHANGED <<umShm, umFree, umFds>>
        /\ UNCHANGED <<umHome, umTable, umAlloc, umMaps, umBreak, umPc, umCall, umLeaked>>

\* A descriptor reaches another process (over a channel), or is closed.
SendObject(t, o, p) ==
    /\ Enters(t) /\ o \in umFds[umHome[t]] \ umFds[p]
    /\ umFds' = [umFds EXCEPT ![p] = @ \cup {o}]
    /\ UNCHANGED <<umHome, umTable, umAlloc, umMaps, umBreak, umFree, umShm, umPc, umCall, umLeaked>>

CloseObject(t, o) ==
    LET fds == [umFds EXCEPT ![umHome[t]] = @ \ {o}]
    IN  /\ Enters(t) /\ o \in umFds[umHome[t]]
        /\ umFds' = fds
        /\ DropObjects(fds, umCall)
        /\ UNCHANGED <<umHome, umTable, umAlloc, umMaps, umBreak, umPc, umCall, umLeaked>>

UmNext ==
    \E t \in UmThreads :
        \/ \E kind \in {"anon", "device"}, length \in UmLengths : MapBegin(t, kind, length, NoObj)
        \/ \E o \in DOMAIN umShm, length \in UmLengths : MapBegin(t, "shared", length, o)
        \/ MapPages(t) \/ Unwind(t) \/ GiveBack(t) \/ Track(t)
        \/ \E base \in DOMAIN umMaps[umHome[t]] : UnmapBegin(t, base)
        \/ UnmapPages(t)
        \/ \E addr \in UmBreaks : Brk(t, addr)
        \/ \E o \in UmObjects, length \in UmLengths : CreateShared(t, o, length)
        \/ \E o \in DOMAIN umShm, p \in UmProcs : SendObject(t, o, p)
        \/ \E o \in DOMAIN umShm : CloseObject(t, o)

UmSpec == UmInit /\ [][UmNext]_umVars

-----------------------------------------------------------------------------
\* Everything that points to a frame of the PMM as its own.
Anonymous == {<<p, x>> \in UmProcs \X (0..PageOf(UmArea.end)) :
                 x \in DOMAIN umTable[p] /\ umTable[p][x].kind = "anon"}

\* The frame behind an anonymous page belongs to that page alone: it is not
\* free, backs no other page and is in no shared object, whatever mappings,
\* failures and unmappings of other threads came in between.
FramesExclusive ==
    /\ \A a \in Anonymous : umTable[a[1]][a[2]].frame \notin umFree
    /\ \A a, b \in Anonymous : a # b => umTable[a[1]][a[2]].frame # umTable[b[1]][b[2]].frame
    /\ \A a \in Anonymous, o \in DOMAIN umShm : umTable[a[1]][a[2]].frame \notin RangeOf(umShm[o])
    /\ \A o \in DOMAIN umShm : RangeOf(umShm[o]) \cap umFree = {}

\* When no call is in progress every page of the mmap area belongs to a recorded
\* mapping, every recorded mapping is mapped in full, the address ranges of
\* mmap_alloc are those of the mappings, and every frame is free, mapped, part
\* of an object, or was overwritten by a brk that followed one that failed.
MappingsTracked ==
    (\A t \in UmThreads : umPc[t] = "user") =>
        /\ \A p \in UmProcs :
              /\ {x \in DOMAIN umTable[p] : x >= PageOf(UmArea.base)} =
                    UNION {PagesOf(b, umMaps[p][b].pages) : b \in DOMAIN umMaps[p]}
              /\ \A b \in DOMAIN umMaps[p] : \A f \in DOMAIN umAlloc[p].free :
                    b + umMaps[p][b].pages * PageSize <= f \/ f + umAlloc[p].free[f] <= b
        /\ UmFrames = umFree \cup umLeaked
                        \cup {umTable[a[1]][a[2]].frame : a \in Anonymous}
                        \cup UNION {RangeOf(umShm[o]) : o \in DOMAIN umShm}
=============================================================================
