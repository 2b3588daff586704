---------------------------- MODULE ProgramStart ----------------------------
(*****************************************************************************)
(* How a program starts: its image, and what it is handed by its parent.     *)
(*****************************************************************************)
EXTENDS Integers, Sequences, FiniteSets, SequencesExt

-----------------------------------------------------------------------------
(***************************************************************************)
(* Loading a program: the ELF parser (crates/parse/elf), the binary formats   *)
(* (kernel/kernel/src/proc/binfmt) and the mapping of the image in             *)
(* kernel/kernel/src/proc/exec.rs, down to the cells of physical memory.       *)
(* A cell stands for some bytes: a page has IlPage of them, a 64-bit word two   *)
(* and a 32-bit word one; numbers wrap at Mod64 and Mod32.                     *)
(***************************************************************************)
CONSTANTS
    IlCases,        \* [file, order]: an image and the order in which frames are handed out
    IlPage,         \* PAGE_SIZE
    IlFrames,       \* frames of the machine, from 0
    IlMaxSegments,  \* MAX_SEGMENTS
    IlPieBase,      \* USER_PIE_BASE
    IlStackTop,     \* USER_STACK_TOP
    IlStackPages,   \* USER_STACK_SIZE in pages
    IlTrampoline,   \* SIGRETURN_TRAMPOLINE_ADDR
    Mod64, Mod32,
    EhdrSize, PhdrSize, ShdrSize, EntSize

VARIABLES
    ilFile, ilFree,  \* the image; the frames still to be handed out, in order
    ilImage,         \* what load_binary has made of it
    ilPages,         \* the pages map_segment has yet to map: [page, seg]
    ilRelas,         \* the relocations yet to apply
    ilMap,           \* the address space: page -> [frame, write, exec]
    ilPhys,          \* physical memory, cell by cell
    ilPc, ilResult

ilVars == <<ilFile, ilFree, ilImage, ilPages, ilRelas, ilMap, ilPhys, ilPc, ilResult>>

IlZero == <<"zero", 0, 0>>
Foreign == <<"foreign", 0, 0>>      \* memory of somebody else
FileCell(i) == <<"file", i, 0>>
NoImage == [entry |-> 0, base |-> 0, relocate |-> FALSE, segments |-> <<>>]
MinOf(a, b) == IF a < b THEN a ELSE b
Signed(x, m) == IF x >= m \div 2 THEN x - m ELSE x

-----------------------------------------------------------------------------
(* The ELF file. *)

\* Elf64Header::parse: the first thing that is wrong.
HeaderError(f) ==
    IF f.size < EhdrSize THEN "Truncated"
    ELSE IF ~f.magic THEN "BadMagic"
    ELSE IF f.class # 64 THEN "UnsupportedClass"
    ELSE IF ~f.little THEN "UnsupportedEncoding"
    ELSE IF f.type \notin {"REL", "EXEC", "DYN"} THEN "UnsupportedType"
    ELSE IF f.machine # "x86_64" THEN "UnsupportedMachine"
    ELSE IF \/ /\ f.type # "REL"
               /\ \/ f.phoff + Len(f.ph) * f.phent > f.size
                  \/ Len(f.ph) > 0 /\ f.phent < PhdrSize
            \/ /\ Len(f.sh) > 0
               /\ f.shent < ShdrSize \/ f.shoff + Len(f.sh) * f.shent > f.size
         THEN "InvalidOffset" ELSE "none"

\* load_segments: the cells of the file a PT_LOAD header names, cut at the end
\* of the file.
SegmentData(f, h) ==
    IF h.filesz = 0 THEN [off |-> 0, len |-> 0]
    ELSE IF h.off + h.filesz <= f.size THEN [off |-> h.off, len |-> h.filesz]
    ELSE [off |-> MinOf(h.off, f.size), len |-> f.size - MinOf(h.off, f.size)]

LoadSegments(f) ==
    LET loads == SelectSeq([i \in DOMAIN f.ph |-> <<i, f.ph[i]>>],
                           LAMBDA x : /\ f.phoff + (x[1] - 1) * f.phent + PhdrSize <= f.size
                                      /\ x[2].load)
    IN [i \in DOMAIN loads |->
          [vaddr |-> loads[i][2].vaddr, data |-> SegmentData(f, loads[i][2]),
           memsz |-> loads[i][2].memsz, flags |-> loads[i][2].flags]]

\* sections: it ends at the first header that is not in the file.
Sections(f) ==
    LET inside == {n \in 0..Len(f.sh) : \A i \in 1..n : f.shoff + (i - 1) * f.shent + ShdrSize <= f.size}
    IN SubSeq(f.sh, 1, CHOOSE n \in inside : \A k \in inside : k <= n)

\* section_data with the entries that fit: <<>> or <<the entries>>.
SectionEntries(f, s) ==
    IF s.off + s.size > f.size THEN <<>>
    ELSE <<SubSeq(s.entries, 1, s.size \div EntSize)>>

FindSectionByType(f, type) == SelectSeq(Sections(f), LAMBDA s : s.type = type)

RelaSections(f) == FindSectionByType(f, "RELA")

-----------------------------------------------------------------------------
(* The formats. *)

\* collect_segments.
CollectSegments(f, base) ==
    LET s == LoadSegments(f) IN [i \in DOMAIN s |-> [s[i] EXCEPT !.vaddr = @ + base]]

LoadExec(f) ==
    [entry |-> f.entry, base |-> 0, relocate |-> FALSE, segments |-> CollectSegments(f, 0)]

LoadDyn(f) ==
    [entry |-> IlPieBase + f.entry, base |-> IlPieBase, relocate |-> TRUE,
     segments |-> CollectSegments(f, IlPieBase)]

\* ElfHandler::load.
ElfLoad(f) ==
    IF HeaderError(f) # "none" THEN <<"ParseError", NoImage>>
    ELSE IF f.type = "REL" THEN <<"Unimplemented", NoImage>>
    ELSE IF Len(LoadSegments(f)) > IlMaxSegments THEN <<"TooManySegments", NoImage>>
    ELSE <<"ok", IF f.type = "EXEC" THEN LoadExec(f) ELSE LoadDyn(f)>>

\* load_binary: the handlers in turn; a script is recognised and refused.
LoadBinary(f) ==
    IF f.size >= 4 /\ f.magic THEN ElfLoad(f)
    ELSE <<IF f.script THEN "Unimplemented" ELSE "UnrecognizedFormat", NoImage>>

-----------------------------------------------------------------------------
IlInit ==
    /\ \E c \in IlCases : ilFile = c.file /\ ilFree = c.order
    /\ ilImage = NoImage /\ ilPages = <<>> /\ ilRelas = <<>>
    /\ ilMap = <<>>
    /\ ilPhys = [a \in 0..(IlFrames * IlPage - 1) |-> Foreign]
    /\ ilPc = "load" /\ ilResult = "none"

\* The pages of a segment, from vaddr rounded down to its end rounded up.
PagesOf(seg) ==
    LET first == seg.vaddr \div IlPage
        count == (seg.vaddr + seg.memsz + IlPage - 1) \div IlPage - first
    IN [i \in 1..count |-> [page |-> first + i - 1, seg |-> seg]]

\* create_process_from_binary and create_address_space_from_binary begin.
Load ==
    /\ ilPc = "load"
    /\ LET r == LoadBinary(ilFile) IN
          /\ ilImage' = r[2]
          /\ ilPages' = FlattenSeq([i \in DOMAIN r[2].segments |-> PagesOf(r[2].segments[i])])
          /\ ilResult' = r[1]
          /\ ilPc' = IF r[1] = "ok" THEN "map" ELSE "failed"
    /\ UNCHANGED <<ilFile, ilFree, ilRelas, ilMap, ilPhys>>

\* A frame that is mapped at page; without a frame, or with the page mapped
\* already, expect panics.
MapUserPage(page, write, exec) ==
    IF ilFree = <<>> \/ page \in DOMAIN ilMap
    THEN ilPc' = "panic" /\ UNCHANGED <<ilFree, ilMap>>
    ELSE /\ ilFree' = Tail(ilFree)
         /\ ilMap' = [p \in DOMAIN ilMap \cup {page} |->
                        IF p = page THEN [frame |-> Head(ilFree), write |-> write, exec |-> exec]
                        ELSE ilMap[p]]
         /\ UNCHANGED ilPc

\* The frame zeroed, then the cells put at an offset of it: as many as there are,
\* also past its end.
Filled(phys, frame, at, cells) ==
    LET base == frame * IlPage IN
    [a \in DOMAIN phys |->
        IF a \in (base + at)..(base + at + Len(cells) - 1) THEN cells[a - base - at + 1]
        ELSE IF a \in base..(base + IlPage - 1) THEN IlZero
        ELSE phys[a]]

\* The data that is copied for a page: up to a page of it from where the page is
\* in the segment (saturating_sub: from 0 on the first page).
SegmentCells(seg, page) ==
    LET start == IF page * IlPage > seg.vaddr THEN page * IlPage - seg.vaddr ELSE 0
        end == MinOf(start + IlPage, seg.data.len)
    IN IF start < seg.data.len THEN [i \in 1..(end - start) |-> FileCell(seg.data.off + start + i - 1)]
       ELSE <<>>

\* map_segment: one page of it.
MapSegmentPage ==
    /\ ilPc = "map" /\ ilPages # <<>>
    /\ LET page == Head(ilPages).page
           seg == Head(ilPages).seg
           at == IF page * IlPage < seg.vaddr THEN seg.vaddr - page * IlPage ELSE 0
       IN /\ MapUserPage(page, "W" \in seg.flags, "X" \in seg.flags)
          /\ ilPhys' = IF ilPc' = "panic" THEN ilPhys
                       ELSE Filled(ilPhys, Head(ilFree), at, SegmentCells(seg, page))
    /\ ilPages' = Tail(ilPages)
    /\ UNCHANGED <<ilFile, ilImage, ilRelas, ilResult>>

\* The relocations of all RELA sections that can be read, for a static PIE.
SegmentsMapped ==
    /\ ilPc = "map" /\ ilPages = <<>>
    /\ ilRelas' =
         IF ilImage.relocate
         THEN LET r == RelaSections(ilFile) IN FlattenSeq([i \in DOMAIN r |-> FlattenSeq(SectionEntries(ilFile, r[i]))])
         ELSE <<>>
    /\ ilPc' = "relocate"
    /\ UNCHANGED <<ilFile, ilFree, ilImage, ilPages, ilMap, ilPhys, ilResult>>

-----------------------------------------------------------------------------
\* resolve_symbol: <<value>>, or <<>> for an error.
ResolveSymbol(f, sym) ==
    LET tables == FindSectionByType(f, "DYNSYM") \o FindSectionByType(f, "SYMTAB")
        entries == IF tables = <<>> THEN <<>> ELSE FlattenSeq(SectionEntries(f, tables[1]))
    IN IF sym = 0 THEN <<0>>
       ELSE IF sym + 1 > Len(entries) \/ ~entries[sym + 1].defined THEN <<>>
       ELSE <<entries[sym + 1].value + ilImage.base>>

\* compute_x86_64_reloc: [w, v], a 64- or a 32-bit word, or w = 0 for an error.
\* NONE comes out as a word of zeros.
ComputeReloc(type, s, a, b, p) ==
    LET wide(x) == [w |-> 64, v |-> x % Mod64]
        narrow(x) == IF Signed(x % Mod32, Mod32) = x THEN [w |-> 32, v |-> x % Mod32] ELSE [w |-> 0, v |-> 0]
    IN CASE type = "NONE" -> wide(0)
         [] type = "64" -> wide(s + a)
         [] type \in {"PC32", "PLT32"} -> narrow(Signed((s + a - p) % Mod64, Mod64))
         [] type = "GLOB_DAT" -> wide(s)
         [] type = "RELATIVE" -> wide(b + a)
         [] type = "32" -> IF (s + a) % Mod64 < Mod32 THEN [w |-> 32, v |-> (s + a) % Mod64] ELSE [w |-> 0, v |-> 0]
         [] type = "32S" -> narrow(Signed((s + a) % Mod64, Mod64))
         [] OTHER -> [w |-> 0, v |-> 0]

Place(r) == ilImage.base + r.offset

IlWord(c) == IF c.w = 64 THEN <<<<"word64", c.v, 0>>, <<"word64", c.v, 1>>>> ELSE <<<<"word32", c.v, 0>>>>

\* apply_dyn_relocations and write_reloc_value: one entry.
Relocate ==
    /\ ilPc = "relocate" /\ ilRelas # <<>>
    /\ LET r == Head(ilRelas)
           s == ResolveSymbol(ilFile, r.sym)
           p == Place(r)
           c == ComputeReloc(r.type, IF s = <<>> THEN 0 ELSE s[1], r.addend, ilImage.base, p)
       IN IF s = <<>> \/ c.w = 0 \/ p \div IlPage \notin DOMAIN ilMap
          THEN /\ ilPc' = "failed" /\ ilResult' = "RelocError" /\ UNCHANGED ilPhys
          ELSE /\ LET at == ilMap[p \div IlPage].frame * IlPage + (p % IlPage) IN
                    ilPhys' = [a \in DOMAIN ilPhys |->
                                 IF a \in at..(at + Len(IlWord(c)) - 1) THEN IlWord(c)[a - at + 1] ELSE ilPhys[a]]
               /\ UNCHANGED <<ilPc, ilResult>>
    /\ ilRelas' = Tail(ilRelas)
    /\ UNCHANGED <<ilFile, ilFree, ilImage, ilPages, ilMap>>

\* map_user_stack: zeroed pages up to the top.
MapUserStack ==
    /\ ilPc = "relocate" /\ ilRelas = <<>>
    /\ LET n == Cardinality({p \in DOMAIN ilMap : p >= IlStackTop - IlStackPages /\ p < IlStackTop})
           page == IlStackTop - IlStackPages + n
       IN IF n = IlStackPages THEN ilPc' = "trampoline" /\ UNCHANGED <<ilFree, ilMap, ilPhys>>
          ELSE /\ MapUserPage(page, TRUE, FALSE)
               /\ ilPhys' = IF ilPc' = "panic" THEN ilPhys ELSE Filled(ilPhys, Head(ilFree), 0, <<>>)
    /\ UNCHANGED <<ilFile, ilImage, ilPages, ilRelas, ilResult>>

\* map_sigreturn_trampoline: the stub that calls sigreturn, readable and executable.
MapSigreturnTrampoline ==
    /\ ilPc = "trampoline"
    /\ IF ilFree = <<>> \/ IlTrampoline \in DOMAIN ilMap
       THEN ilPc' = "panic" /\ UNCHANGED <<ilFree, ilMap, ilPhys>>
       ELSE /\ ilMap' = [p \in DOMAIN ilMap \cup {IlTrampoline} |->
                           IF p = IlTrampoline THEN [frame |-> Head(ilFree), write |-> FALSE, exec |-> TRUE] ELSE ilMap[p]]
            /\ ilPhys' = Filled(ilPhys, Head(ilFree), 0, <<<<"stub", 0, 0>>>>)
            /\ ilFree' = Tail(ilFree)
            /\ ilPc' = "done"
    /\ UNCHANGED <<ilFile, ilImage, ilPages, ilRelas, ilResult>>

IlNext ==
    Load \/ MapSegmentPage \/ SegmentsMapped \/ Relocate \/ MapUserStack \/ MapSigreturnTrampoline

IlSpec == IlInit /\ [][IlNext]_ilVars

-----------------------------------------------------------------------------
\* What the program would read at an address.
Read(a) == ilPhys[ilMap[a \div IlPage].frame * IlPage + (a % IlPage)]

\* What the ELF and psABI documents say is there.
Relocs == LET r == RelaSections(ilFile) IN FlattenSeq([i \in DOMAIN r |-> FlattenSeq(SectionEntries(ilFile, r[i]))])

WidthOf(r) == IF r.type \in {"64", "GLOB_DAT", "RELATIVE"} THEN 2 ELSE 1

Covering(a) ==
    IF ~ilImage.relocate THEN {}
    ELSE {i \in DOMAIN Relocs : a \in ilImage.base + Relocs[i].offset .. ilImage.base + Relocs[i].offset + WidthOf(Relocs[i]) - 1}

\* The copy for the first page of a segment that starts inside a page takes up to a
\* page of data and runs past the frame, into the one behind it; it does no harm
\* there when that is the frame of the segment's next page, which is filled later.
Overrun(f) ==
    \E i \in DOMAIN ilImage.segments :
        LET seg == ilImage.segments[i]
            first == seg.vaddr \div IlPage
        IN  /\ (seg.vaddr % IlPage) + MinOf(IlPage, seg.data.len) > IlPage
            /\ f = ilMap[first].frame + 1 /\ f # ilMap[first + 1].frame

\* A loaded program finds its image as the file describes it: the cells of the
\* file at their addresses, zeros after them (.bss) and between the segments, and
\* in every page the protection of its segment; wherever its pages lie in memory,
\* but for a frame that such a copy has run into.
ImageRight ==
    ilPc = "done" =>
        \A i \in DOMAIN ilImage.segments :
            LET seg == ilImage.segments[i] IN
            /\ \A a \in seg.vaddr..(seg.vaddr + seg.memsz - 1) :
                  Covering(a) = {} /\ ~Overrun(ilMap[a \div IlPage].frame) =>
                      Read(a) = IF a - seg.vaddr < seg.data.len THEN FileCell(seg.data.off + a - seg.vaddr) ELSE IlZero
            /\ \A k \in DOMAIN PagesOf(seg) :
                  LET m == ilMap[PagesOf(seg)[k].page] IN
                  m.write = ("W" \in seg.flags) /\ m.exec = ("X" \in seg.flags)

\* A relocated word has the value that takes the place's user to the symbol: the
\* full sum in 64 bits, and in 32 bits a word that extends to the full one.
RelocsRight ==
    ilPc = "done" =>
        \A i \in DOMAIN Relocs :
            ilImage.relocate =>
            LET r == Relocs[i]
                p == ilImage.base + r.offset
                s == ResolveSymbol(ilFile, r.sym)[1]
                c == Read(p)
                sum == CASE r.type = "GLOB_DAT" -> s [] r.type = "RELATIVE" -> ilImage.base + r.addend
                         [] r.type \in {"PC32", "PLT32"} -> s + r.addend - p [] OTHER -> s + r.addend
            IN CASE WidthOf(r) = 2 -> /\ c = <<"word64", sum % Mod64, 0>> /\ Read(p + 1) = <<"word64", sum % Mod64, 1>>
                 [] r.type = "32" -> c[1] = "word32" /\ c[2] = sum % Mod64
                 [] OTHER -> c[1] = "word32" /\ Signed(c[2], Mod32) % Mod64 = sum % Mod64

\* A program that has been loaded has touched no memory but the frames it was given,
\* and those behind them that the copy of a segment's first page has run into.
OthersUntouched ==
    ilPc = "done" => \A a \in DOMAIN ilPhys :
        (\A p \in DOMAIN ilMap : ilMap[p].frame # a \div IlPage) /\ ~Overrun(a \div IlPage) => ilPhys[a] = Foreign

-----------------------------------------------------------------------------
(***************************************************************************)
(* How arguments, environment and descriptors get from a program to the one    *)
(* it starts: the environment of the runtime (userspace/lepton-syslib env.rs),  *)
(* its spawn calls (sys.rs), sys_task_spawn (kernel/kernel/src/syscall/         *)
(* process.rs), execve and the words on the new stack (proc/exec.rs), and the   *)
(* start-up code that reads them (start.rs).  The model follows the child.      *)
(* Strings are sequences of characters; a word of the stack is one cell, and so *)
(* is a character.                                                             *)
(***************************************************************************)
CONSTANTS
    LnKeys,          \* the names of variables, in order
    LnValues,        \* their values
    LnArgvs,         \* the argument lists
    LnMaps,          \* descriptor maps: sequences of [child, parent]
    LnMaxArgs, LnMaxEnvs,        \* MAX_SPAWN_ARGS, MAX_SPAWN_ENVS and the runtime's limits
    LnArgBytes, LnEnvBytes,      \* MAX_ARGV_TOTAL_BYTES, MAX_ENVP_TOTAL_BYTES
    LnMaxMap,                    \* the runtime's limit on the descriptor map
    LnTop, LnBottom,             \* the user stack
    LnCalls                      \* bound: calls of the programs

VARIABLES
    lnEnv,      \* ENV of the running program
    lnArgs,     \* the arguments its main got
    lnFds,      \* its descriptors: fd -> file
    lnWant,     \* history: the variables as set along the line of programs
    lnWantArgs, lnWantFds,       \* history: what the last spawn asked for
    lnInfo,     \* SpawnInfo under way
    lnStack,    \* the new stack: address -> cell
    lnRsp,
    lnPc,       \* "run", "spawn", "exec", "start", "failed"
    lnLeft

lnVars == <<lnEnv, lnArgs, lnFds, lnWant, lnWantArgs, lnWantFds, lnInfo, lnStack, lnRsp, lnPc, lnLeft>>

LaWord(n) == <<"word", "", n>>
Char(c) == <<"char", c, 0>>
LaZero == LaWord(0)
NoInfo == [argv |-> <<>>, envp |-> <<>>, map |-> <<>>]
Clear == [a \in LnBottom..(LnTop - 1) |-> LaZero]
Truncated(s, n) == SubSeq(s, 1, IF Len(s) < n THEN Len(s) ELSE n)
Console == "console"

LnInit ==
    /\ lnEnv = <<>> /\ lnArgs = <<>> /\ lnFds = [fd \in 0..3 |-> "f"]
    /\ lnWant = <<>> /\ lnWantArgs = <<>> /\ lnWantFds = lnFds
    /\ lnInfo = NoInfo /\ lnStack = Clear /\ lnRsp = 0
    /\ lnPc = "run" /\ lnLeft = LnCalls

Called == lnPc = "run" /\ lnLeft > 0 /\ lnLeft' = lnLeft - 1

-----------------------------------------------------------------------------
(* The runtime. *)
Put(f, k, v) == [x \in DOMAIN f \cup {k} |-> IF x = k THEN v ELSE f[x]]

SetEnv(k, v) ==
    /\ Called
    /\ lnEnv' = Put(lnEnv, k, v) /\ lnWant' = Put(lnWant, k, v)
    /\ UNCHANGED <<lnArgs, lnFds, lnWantArgs, lnWantFds, lnInfo, lnStack, lnRsp, lnPc>>

UnsetEnv(k) ==
    /\ Called /\ k \in DOMAIN lnEnv
    /\ lnEnv' = [x \in DOMAIN lnEnv \ {k} |-> lnEnv[x]]
    /\ lnWant' = [x \in DOMAIN lnWant \ {k} |-> lnWant[x]]
    /\ UNCHANGED <<lnArgs, lnFds, lnWantArgs, lnWantFds, lnInfo, lnStack, lnRsp, lnPc>>

\* build_env_block: "key=value" in the order of the keys.
BuildEnvBlock(env) ==
    LET keys == SelectSeq(LnKeys, LAMBDA k : k \in DOMAIN env)
    IN [i \in DOMAIN keys |-> <<keys[i], "=">> \o env[keys[i]]]

\* What the child's descriptors should be.
MapWanted(fds, map) ==
    LET src(fd) == {i \in DOMAIN map : map[i].child = fd /\ map[i].parent \in DOMAIN fds}
    IN IF map = <<>> THEN [fd \in 0..2 |-> IF fd \in DOMAIN fds THEN fds[fd] ELSE Console]
       ELSE [fd \in {c \in {map[i].child : i \in DOMAIN map} : src(c) # {}} |->
               fds[map[CHOOSE i \in src(fd) : \A j \in src(fd) : j <= i].parent]]

\* spawn, spawn_with_env and spawn_with_fds: lists are cut at the fixed arrays.
SpawnWithFds(argv, map) ==
    /\ Called
    /\ lnInfo' = [argv |-> Truncated(argv, LnMaxArgs),
                  envp |-> Truncated(BuildEnvBlock(lnEnv), LnMaxEnvs),
                  map |-> Truncated(map, LnMaxMap)]
    /\ lnWantArgs' = argv /\ lnWantFds' = MapWanted(lnFds, map)
    /\ lnPc' = "spawn"
    /\ UNCHANGED <<lnEnv, lnArgs, lnFds, lnWant, lnStack, lnRsp>>

\* execve: the same program goes on with the environment it has.
Execve(argv) ==
    /\ Called
    /\ lnInfo' = [argv |-> argv, envp |-> BuildEnvBlock(lnEnv), map |-> <<>>]
    /\ lnWantArgs' = argv /\ lnWantFds' = lnFds
    /\ lnPc' = "exec"
    /\ UNCHANGED <<lnEnv, lnArgs, lnFds, lnWant, lnStack, lnRsp>>

-----------------------------------------------------------------------------
(* The kernel. *)
Bytes(strings) == FoldLeft(LAMBDA n, s : n + Len(s), 0, strings)

\* read_spawn_args: too many strings or too many bytes are refused.
ArgsRefused(strings, max, storage) == Len(strings) > max \/ Bytes(strings) > storage

\* Where the strings go: the last one highest, each with room for its NUL; the
\* arguments' positions come first.
Positions(args, envs) ==
    LET all == args \o envs
    IN [i \in DOMAIN all |-> LnTop - FoldLeft(LAMBDA n, s : n + Len(s) + 1, 0, SubSeq(all, i, Len(all)))]

\* The words go below the strings: the count, the pointers, two NULLs; both
\* addresses aligned to 16 bytes.
Rsp(args, envs) ==
    LET low == IF args \o envs = <<>> THEN LnTop ELSE Positions(args, envs)[1]
    IN (((low \div 2) * 2 - (Len(args) + Len(envs) + 3)) \div 2) * 2

Words(args, envs) ==
    LET at == Positions(args, envs)
        n == Len(args)
    IN <<LaWord(n)>> \o [i \in 1..n |-> LaWord(at[i])] \o <<LaZero>>
         \o [i \in 1..Len(envs) |-> LaWord(at[n + i])] \o <<LaZero>>

\* write_startup_data on a zeroed stack; <<>> when it does not fit.
WriteStartupData(args, envs) ==
    LET all == args \o envs
        at == Positions(args, envs)
        rsp == Rsp(args, envs)
        w == Words(args, envs)
    IN IF Len(all) > LnMaxArgs + LnMaxEnvs \/ rsp < LnBottom THEN <<>>
       ELSE <<[a \in DOMAIN Clear |->
                 LET s == {i \in DOMAIN all : a \in at[i]..(at[i] + Len(all[i]) - 1)} IN
                 IF a \in rsp..(rsp + Len(w) - 1) THEN w[a - rsp + 1]
                 ELSE IF s # {} THEN LET i == CHOOSE i \in s : TRUE IN Char(all[i][a - at[i] + 1])
                 ELSE LaZero]>>

Started(stack, info) ==
    /\ lnStack' = stack[1] /\ lnRsp' = Rsp(info.argv, info.envp) /\ lnPc' = "start"

Refused == lnPc' = "failed" /\ UNCHANGED <<lnFds, lnStack, lnRsp>>

\* spawn_process: the descriptors of the child.
Inherited(fds, map) ==
    IF map = <<>> THEN [fd \in 0..2 |-> IF fd \in DOMAIN fds THEN fds[fd] ELSE Console]
    ELSE FoldLeft(LAMBDA t, m : IF m.parent \in DOMAIN fds THEN Put(t, m.child, fds[m.parent]) ELSE t, <<>>, map)

\* sys_task_spawn.
SysTaskSpawn ==
    /\ lnPc = "spawn"
    /\ IF \/ ArgsRefused(lnInfo.argv, LnMaxArgs, LnArgBytes)
          \/ ArgsRefused(lnInfo.envp, LnMaxEnvs, LnEnvBytes)
       THEN Refused
       ELSE LET s == WriteStartupData(lnInfo.argv, lnInfo.envp) IN
            IF s = <<>> THEN Refused
            ELSE Started(s, lnInfo) /\ lnFds' = Inherited(lnFds, lnInfo.map)
    /\ UNCHANGED <<lnEnv, lnArgs, lnWant, lnWantArgs, lnWantFds, lnInfo, lnLeft>>

\* handle_execve: no limits of its own, the descriptors stay.
HandleExecve ==
    /\ lnPc = "exec"
    /\ LET s == WriteStartupData(lnInfo.argv, lnInfo.envp) IN
       IF s = <<>> THEN Refused ELSE Started(s, lnInfo) /\ UNCHANGED lnFds
    /\ UNCHANGED <<lnEnv, lnArgs, lnWant, lnWantArgs, lnWantFds, lnInfo, lnLeft>>

\* A call that was refused returns an error to the program.
Return ==
    /\ lnPc = "failed"
    /\ lnPc' = "run" /\ lnInfo' = NoInfo /\ lnWantArgs' = lnArgs /\ lnWantFds' = lnFds
    /\ UNCHANGED <<lnEnv, lnArgs, lnFds, lnWant, lnStack, lnRsp, lnLeft>>

-----------------------------------------------------------------------------
(* The child's start-up code. *)
Cell(a) == lnStack[a]

\* c_strlen and the string before the NUL; an address past the top faults.
CString(a) ==
    LET end == CHOOSE e \in a..(LnTop - 1) : Cell(e) = LaZero /\ \A x \in a..(e - 1) : Cell(x) # LaZero
    IN [i \in 1..(end - a) |-> Cell(a + i - 1)[2]]

Strings(first, n) == [i \in 1..n |-> CString(Cell(first + i - 1)[3])]

EnvCount(envp) == CHOOSE n \in 0..(LnTop - envp) : Cell(envp + n) = LaZero /\ \A k \in 0..(n - 1) : Cell(envp + k) # LaZero

\* env::init: split at the first "="; an entry without one is dropped, and of two
\* with the same name the later one counts.
ParsedEnv(entries) ==
    FoldLeft(LAMBDA m, e : LET eq == {i \in DOMAIN e : e[i] = "="} IN
                 IF eq = {} THEN m
                 ELSE LET i == CHOOSE i \in eq : \A j \in eq : i <= j IN
                      Put(m, IF i = 1 THEN "" ELSE e[1], SubSeq(e, i + 1, Len(e))),
             <<>>, entries)

StartRust ==
    /\ lnPc = "start"
    /\ LET argc == Cell(lnRsp)[3]
           envp == lnRsp + 1 + argc + 1
       IN /\ lnArgs' = Truncated(Strings(lnRsp + 1, argc), LnMaxArgs)
          /\ lnEnv' = ParsedEnv(Truncated(Strings(envp, EnvCount(envp)), LnMaxEnvs))
    /\ lnPc' = "run" /\ lnStack' = Clear /\ lnRsp' = 0 /\ lnInfo' = NoInfo
    /\ UNCHANGED <<lnFds, lnWant, lnWantArgs, lnWantFds, lnLeft>>

LnNext ==
    \/ \E i \in DOMAIN LnKeys : UnsetEnv(LnKeys[i]) \/ \E v \in LnValues : SetEnv(LnKeys[i], v)
    \/ \E argv \in LnArgvs : Execve(argv) \/ \E map \in LnMaps : SpawnWithFds(argv, map)
    \/ SysTaskSpawn \/ HandleExecve \/ Return \/ StartRust

LnSpec == LnInit /\ [][LnNext]_lnVars

-----------------------------------------------------------------------------
\* A variable set in a program is there with its value in every program started
\* after it down the line, and one that was unset is not.
EnvironmentInherited == lnPc = "run" => lnEnv = lnWant

\* main gets the arguments the parent gave (the first MAX_ARGS of them), empty
\* ones included, and the descriptors the map asked for.
ArgumentsPassed ==
    lnPc = "run" => lnArgs = Truncated(lnWantArgs, LnMaxArgs) /\ lnFds = lnWantFds

\* A program starts with its stack pointer aligned to 16 bytes, on the count of
\* its arguments.
StackReady == lnPc = "start" => lnRsp % 2 = 0 /\ Cell(lnRsp) = LaWord(Len(lnInfo.argv))
=============================================================================
