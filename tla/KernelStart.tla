----------------------------- MODULE KernelStart ----------------------------
(*****************************************************************************)
(* What the kernel sets up when it starts: ACPI, PCI devices and their drivers,*)
(* the other processors, the clocks, and the order of it all.                *)
(*****************************************************************************)
EXTENDS Integers, Sequences, SequencesExt, FiniteSets

-----------------------------------------------------------------------------
(***************************************************************************)
(* From the root pointer to routed interrupts: the table walk of              *)
(* crates/parse/acpi (rsdp.rs, rsdt.rs, sdt.rs and the tables) and acpi::init   *)
(* of kernel/kernel/src/arch/x86_64/acpi.rs with the I/O APIC it programs.      *)
(* A machine is a root pointer and a memory of tables; the entries of a table    *)
(* are laid out in cells, one cell per byte, the first of an entry holding its    *)
(* type and the length the entry claims.  Byte-code tables are named, not        *)
(* read: AmlWalk is the walk over one of them.                                   *)
(***************************************************************************)
CONSTANTS
    AbMachines,     \* the machines
    AbElapsed,      \* what the calibration may count
    AbIsaIrqs,        \* number of ISA interrupts (16)
    AbMaxUnmask     \* bound: interrupts drivers unmask afterwards

VARIABLES
    abMachine,  \* the machine
    abPc,       \* the next step of init
    abRoot,     \* where the root table is, and whether it is an XSDT
    abMadt,     \* entries of the MADT, or none
    abHpet,     \* the HPET's address, or none
    abEcam,     \* ECAM_INFO
    abReport,   \* what SRAT, DMAR and IVRS have been summed up to
    abWalked,   \* byte-code tables given to the AML walk
    abPic,      \* the legacy controllers are remapped and masked
    abNext,     \* the MADT entry the I/O APIC loop is at
    abPins,     \* redirection tables: I/O APIC address -> pin -> entry
    abPlatform, \* the I/O APIC of PLATFORM: its address, or none
    abTimer,    \* the timer's initial count, and the clock it was measured with
    abUnmasked  \* interrupts drivers have unmasked

abVars == <<abMachine, abPc, abRoot, abMadt, abHpet, abEcam, abReport, abWalked, abPic, abNext, abPins, abPlatform, abTimer, abUnmasked>>

Mem(a) == abMachine.mem[a]
FirstOf(s) == IF s = <<>> THEN <<>> ELSE <<Head(s)>>
Mapped(a) == a \in DOMAIN abMachine.mem

-----------------------------------------------------------------------------
(* Tables.                                                                     *)

\* parse_rsdp: the signature, the sum over the first part, the revision, and for
\* revision 2 the sum over the whole.
ParseRsdp ==
    LET r == abMachine.rsdp IN
    IF ~r.signature THEN <<"InvalidRsdp">> ELSE IF ~r.sum THEN <<"InvalidChecksum">> ELSE
    CASE r.revision = 0 -> <<"ok", r.rsdt, FALSE>>
      [] r.revision = 2 -> IF r.sum2 THEN <<"ok", r.xsdt, TRUE>> ELSE <<"InvalidChecksum">>
      [] OTHER -> <<"InvalidRevision">>

\* RsdtIterator: whole entries only; the root table's own sum is not looked at.
RootEntries == Mem(abRoot[1]).entries

\* find_all_tables_in_rsdt, find_table_in_rsdt: by the signature in the header.
FindAll(signature) == SelectSeq(RootEntries, LAMBDA a : Mem(a).signature = signature)
FindTable(signature) == FirstOf(FindAll(signature))

\* load_table: the signature again, and the sum over the length it claims.
LoadTable(a, signature) == Mapped(a) /\ Mem(a).signature = signature /\ Mem(a).sum

\* A table the kernel can use: found, and loaded.  A second table with the same
\* signature is not tried.
Table(signature) == SelectSeq(FindTable(signature), LAMBDA a : LoadTable(a, signature))

\* MadtEntryIter, SratEntryIter (derived), DmarEntryIter, IvrsEntryIter: an entry
\* shorter than its header or longer than what is left ends the list; one that
\* is too short for its type is unknown.
EntriesFrom(cells, header, Shortest(_)) ==
    LET At(p) == cells[p]
        F[p \in Nat] ==
            IF p + header - 1 > Len(cells) THEN <<>>
            ELSE IF At(p).l < header \/ p - 1 + At(p).l > Len(cells) THEN <<>>
            ELSE <<IF At(p).l >= Shortest(At(p).t) THEN <<At(p).t, At(p).f>> ELSE <<-1, <<>>>>>> \o F[p + At(p).l]
    IN F[1]

MadtMin(t) == CASE t = 0 -> 8 [] t = 1 -> 12 [] t = 2 -> 10 [] t = 4 -> 8 [] t = 5 -> 6 [] OTHER -> 2
SratMin(t) == CASE t = 0 -> 16 [] t = 1 -> 40 [] t = 2 -> 24 [] OTHER -> 2
NoMin(t) == 0

-----------------------------------------------------------------------------
NoTimer == [count |-> 0, by |-> "none"]

AbInit ==
    /\ abMachine \in AbMachines
    /\ abPc = "rsdp" /\ abRoot = <<>> /\ abMadt = <<>> /\ abHpet = <<>> /\ abEcam = <<>>
    /\ abReport = [cpus |-> 0, regions |-> 0, domains |-> 0, drhd |-> 0, rmrr |-> 0, ivhd |-> 0, ivmd |-> 0]
    /\ abWalked = <<>> /\ abPic = FALSE /\ abNext = 1
    /\ abPins = [a \in DOMAIN abMachine.ioapics |->
                    [pin \in 0..abMachine.ioapics[a] |-> [vector |-> 0, low |-> FALSE, level |-> FALSE, masked |-> FALSE, to |-> 0]]]
    /\ abPlatform = <<>> /\ abTimer = NoTimer /\ abUnmasked = {}

Goes(pc) == abPc' = pc

\* init: without a root pointer, or with a bad one, nothing is done.
FindRoot ==
    /\ abPc = "rsdp"
    /\ IF abMachine.rsdp.present /\ ParseRsdp[1] = "ok"
       THEN abRoot' = Tail(ParseRsdp) /\ Goes("madt")
       ELSE Goes("done") /\ UNCHANGED abRoot
    /\ UNCHANGED <<abMachine, abMadt, abHpet, abEcam, abReport, abWalked, abPic, abNext, abPins, abPlatform, abTimer, abUnmasked>>

\* The MADT, the HPET and the first entry of the MCFG.
ReadPlatformTables ==
    /\ abPc = "madt" /\ Goes("report")
    /\ abMadt' = [i \in DOMAIN Table("APIC") |-> EntriesFrom(Mem(Table("APIC")[i]).cells, 2, MadtMin)]
    /\ abHpet' = [i \in DOMAIN Table("HPET") |-> Mem(Table("HPET")[i]).address]
    /\ abEcam' = IF Table("MCFG") = <<>> THEN <<>> ELSE FirstOf(Mem(Table("MCFG")[1]).entries)
    /\ UNCHANGED <<abMachine, abRoot, abReport, abWalked, abPic, abNext, abPins, abPlatform, abTimer, abUnmasked>>

Count(es, P(_)) == Len(SelectSeq(es, P))
CellsOf(signature) == IF Table(signature) = <<>> THEN <<>> ELSE Mem(Table(signature)[1]).cells

\* SRAT: enabled entries; the domains are one more than the largest of them.
Affinities == SelectSeq(EntriesFrom(CellsOf("SRAT"), 2, SratMin), LAMBDA e : e[1] \in 0..2 /\ e[2][1] % 2 = 1)
Domains == IF Affinities = <<>> THEN 0 ELSE 1 + FoldLeft(LAMBDA m, e : IF e[2][2] > m THEN e[2][2] ELSE m, 0, Affinities)

ReadReportTables ==
    /\ abPc = "report" /\ Goes("aml")
    /\ abReport' =
          [cpus |-> Count(Affinities, LAMBDA e : e[1] \in {0, 2}), regions |-> Count(Affinities, LAMBDA e : e[1] = 1), domains |-> Domains,
           drhd |-> Count(EntriesFrom(CellsOf("DMAR"), 4, NoMin), LAMBDA e : e[1] = 0),
           rmrr |-> Count(EntriesFrom(CellsOf("DMAR"), 4, NoMin), LAMBDA e : e[1] = 1),
           ivhd |-> Count(EntriesFrom(CellsOf("IVRS"), 4, NoMin), LAMBDA e : e[1] \in {16, 17, 64}),
           ivmd |-> Count(EntriesFrom(CellsOf("IVRS"), 4, NoMin), LAMBDA e : e[1] \in 32..34)]
    /\ UNCHANGED <<abMachine, abRoot, abMadt, abHpet, abEcam, abWalked, abPic, abNext, abPins, abPlatform, abTimer, abUnmasked>>

\* Fadt::dsdt_address: the 64-bit address when there is one.
DsdtAddress ==
    LET f == Mem(Table("FACP")[1]) IN
    IF Table("FACP") = <<>> THEN <<>>
    ELSE IF f.xdsdt # 0 THEN <<f.xdsdt>>
    ELSE IF f.dsdt # 0 THEN <<f.dsdt>> ELSE <<>>

\* parse_aml_namespace: the DSDT, and without one no SSDT either; an SSDT that
\* does not load is passed over.
ParseAmlNamespace ==
    /\ abPc = "aml" /\ Goes("pic")
    /\ LET dsdt == SelectSeq(DsdtAddress, LAMBDA a : LoadTable(a, "DSDT") /\ Mem(a).aml)
           ssdts == SelectSeq(FindAll("SSDT"), LAMBDA a : LoadTable(a, "SSDT"))
       IN abWalked' = IF dsdt = <<>> THEN <<>> ELSE dsdt \o ssdts
    /\ UNCHANGED <<abMachine, abRoot, abMadt, abHpet, abEcam, abReport, abPic, abNext, abPins, abPlatform, abTimer, abUnmasked>>

\* remap_and_disable; without a MADT there is no APIC to go on with.
DisablePic ==
    /\ abPc = "pic" /\ abPic' = TRUE
    /\ Goes(IF abMadt = <<>> THEN "done" ELSE "ioapic")
    /\ UNCHANGED <<abMachine, abRoot, abMadt, abHpet, abEcam, abReport, abWalked, abNext, abPins, abPlatform, abTimer, abUnmasked>>

Overrides(irq) == SelectSeq(abMadt[1], LAMBDA e : e[1] = 2 /\ e[2][1] = irq)

\* The first override of the interrupt gives its line, polarity and trigger;
\* without one it has the line of its own number, active high and on the edge.
Route(irq) ==
    LET o == Overrides(irq)
        flags == o[1][2][3]
    IN IF o = <<>> THEN [gsi |-> irq, low |-> FALSE, level |-> FALSE]
       ELSE [gsi |-> o[1][2][2], low |-> flags % 4 = 3, level |-> (flags \div 4) % 4 = 3]

\* (mutant) The interrupts are entered at their own numbers.
SetupIsaIrqsByNumber(pins) ==
    FoldLeft(LAMBDA t, irq : LET r == Route(irq) IN
                IF r.gsi \in DOMAIN t
                THEN [t EXCEPT ![irq] = [vector |-> (32 + r.gsi) % 256, low |-> r.low, level |-> r.level, masked |-> TRUE, to |-> abMachine.bsp]]
                ELSE t, pins, [i \in 1..AbIsaIrqs |-> i - 1])

\* setup_isa_irqs: in the order of their numbers, each where its line is, masked.
AbSetupIsaIrqs(pins) ==
    FoldLeft(LAMBDA t, irq : LET r == Route(irq) IN
                IF r.gsi \in DOMAIN t
                THEN [t EXCEPT ![r.gsi] = [vector |-> (32 + r.gsi) % 256, low |-> r.low, level |-> r.level, masked |-> TRUE, to |-> abMachine.bsp]]
                ELSE t, pins, [i \in 1..AbIsaIrqs |-> i - 1])

\* One entry of the MADT in the I/O APIC loop: all its pins are masked, the one
\* whose lines start at 0 gets the ISA interrupts, and it is remembered.
InitIoApic ==
    /\ abPc = "ioapic" /\ abNext <= Len(abMadt[1])
    /\ abNext' = abNext + 1
    /\ LET e == abMadt[1][abNext] IN
       IF e[1] # 1 THEN UNCHANGED <<abPins, abPlatform>>
       ELSE LET masked == [pin \in DOMAIN abPins[e[2][1]] |-> [abPins[e[2][1]][pin] EXCEPT !.masked = TRUE]] IN
            /\ abPins' = [abPins EXCEPT ![e[2][1]] = IF e[2][2] = 0 THEN AbSetupIsaIrqs(masked) ELSE masked]
            /\ abPlatform' = <<e[2][1]>>
    /\ UNCHANGED <<abMachine, abPc, abRoot, abMadt, abHpet, abEcam, abReport, abWalked, abPic, abTimer, abUnmasked>>

\* calibrate_and_start_timer: the count of ten milliseconds by the HPET or the
\* PIT; a count that comes to nothing leaves the timer stopped.
StartTimer(elapsed) ==
    /\ abPc = "ioapic" /\ abNext > Len(abMadt[1]) /\ Goes("done")
    /\ abTimer' = [count |-> (elapsed * 100) \div 1000, by |-> IF abHpet = <<>> THEN "pit" ELSE "hpet"]
    /\ UNCHANGED <<abMachine, abRoot, abMadt, abHpet, abEcam, abReport, abWalked, abPic, abNext, abPins, abPlatform, abUnmasked>>

\* with_io_apic(unmask): a driver opens the pin of its interrupt's number.
UnmaskIrq(irq) ==
    /\ abPc = "done" /\ abPlatform # <<>> /\ Cardinality(abUnmasked) < AbMaxUnmask
    /\ irq \in DOMAIN abPins[abPlatform[1]] \ abUnmasked
    /\ abPins' = [abPins EXCEPT ![abPlatform[1]][irq].masked = FALSE]
    /\ abUnmasked' = abUnmasked \cup {irq}
    /\ UNCHANGED <<abMachine, abPc, abRoot, abMadt, abHpet, abEcam, abReport, abWalked, abPic, abNext, abPlatform, abTimer>>

AbNext ==
    \/ FindRoot \/ ReadPlatformTables \/ ReadReportTables \/ ParseAmlNamespace \/ DisablePic \/ InitIoApic
    \/ \E n \in AbElapsed : StartTimer(n)
    \/ \E irq \in 0..AbIsaIrqs - 1 : UnmaskIrq(irq)

AbSpec == AbInit /\ [][AbNext]_abVars

-----------------------------------------------------------------------------
(* What the machine's description says, from the entries it was laid out from. *)

SourceMadt == Mem(Table("APIC")[1]).source
SourceRoute(irq) ==
    LET o == SelectSeq(SourceMadt, LAMBDA e : e.t = 2 /\ e.f[1] = irq) IN
    IF o = <<>> THEN <<irq, FALSE, FALSE>> ELSE <<o[1].f[2], o[1].f[3] % 4 = 3, (o[1].f[3] \div 4) % 4 = 3>>
Shared(irq) == \E other \in 0..AbIsaIrqs - 1 : other > irq /\ SourceRoute(other)[1] = SourceRoute(irq)[1]
IoApics == {e \in Range(SourceMadt) : e.t = 1 /\ e.l >= 12}

\* When init is over, every ISA interrupt that does not share its line with a
\* later one is routed as the first override for it in the table says: to its
\* line's pin on the I/O APIC that has line 0, with the vector of that line, to
\* the boot processor.
IsaRouted ==
    abPc = "done" /\ abMadt # <<>> =>
        \A a \in {e.f[1] : e \in {x \in IoApics : x.f[2] = 0}}, irq \in 0..AbIsaIrqs - 1 :
            LET r == SourceRoute(irq) IN
            r[1] \in DOMAIN abPins[a] /\ ~Shared(irq) =>
                LET x == abPins[a][r[1]] IN
                x.vector = 32 + r[1] /\ x.low = r[2] /\ x.level = r[3] /\ x.to = abMachine.bsp

\* No line is open that no driver has opened, on any I/O APIC of the table, and
\* the legacy controllers are silent before the first one is touched.
LinesClosed ==
    /\ abPc = "done" /\ abMadt # <<>> =>
          \A e \in IoApics : \A pin \in DOMAIN abPins[e.f[1]] : abPins[e.f[1]][pin].masked \/ (pin \in abUnmasked /\ <<e.f[1]>> = abPlatform)
    /\ (abPlatform # <<>> \/ abTimer # NoTimer) => abPic

\* With one I/O APIC, a driver that has unmasked the interrupt of its device has
\* opened the device's line, if no override moves it.
DriverLineOpen ==
    abPc = "done" /\ Cardinality({e.f[1] : e \in IF abMadt = <<>> THEN {} ELSE IoApics}) = 1 =>
        \A irq \in abUnmasked : SourceRoute(irq)[1] = irq => ~abPins[abPlatform[1]][irq].masked

\* The byte code that is walked is the DSDT first and then each sound SSDT, in
\* the root table's order, and none at all when the FADT or the DSDT is missing
\* or damaged.
ByteCodeWalked ==
    abPc \in {"pic", "ioapic", "done"} /\ abRoot # <<>> =>
        LET sound == {a \in Range(RootEntries) : Mem(a).sum} IN
        /\ abWalked # <<>> => /\ Mem(Head(abWalked)).signature = "DSDT" /\ Mem(Head(abWalked)).sum
                              /\ Range(Tail(abWalked)) = {a \in sound : Mem(a).signature = "SSDT"}
        /\ \A i, j \in 2..Len(abWalked) : i < j =>
              \E k, l \in DOMAIN RootEntries : k < l /\ RootEntries[k] = abWalked[i] /\ RootEntries[l] = abWalked[j]

-----------------------------------------------------------------------------
(***************************************************************************)
(* PCI enumeration (kernel/pci/src/enumerate.rs, caps.rs) and the matching of  *)
(* the functions it lists with the drivers (kernel/kernel/src/drivers/         *)
(* registry.rs, kernel/driver-api/src/pci.rs).  The walk is depth first: the   *)
(* call stack of enumerate_bus is pcStack.                                     *)
(***************************************************************************)
CONSTANTS
    PcDevices,      \* the last device number of a bus (31)
    PcFunctions,    \* the last function number (7)
    PcTopologies,   \* configurations of the machine: <<bus, dev, func>> -> [class, secondary, multi]
    PcDrivers       \* each driver's id table: a sequence of sequences of classes

VARIABLES
    pcTop,      \* the machine (external)
    pcPhase,    \* "root", "scan", "match", "done"
    pcRoot,     \* buses the root loop has still to start
    pcStack,    \* the calls of enumerate_bus: [bus, dev, func, below]
    pcList,     \* devices
    pcProbes    \* the probes made: <<driver, function>>

pcVars == <<pcTop, pcPhase, pcRoot, pcStack, pcList, pcProbes>>

Present(f) == f \in DOMAIN pcTop
MultiFunction(b, d) == pcTop[<<b, d, 0>>].multi
Call(bus) == [bus |-> bus, dev |-> 0, func |-> 0, below |-> FALSE]

PcInit ==
    /\ pcTop \in PcTopologies
    /\ pcPhase = "root" /\ pcRoot = <<>> /\ pcStack = <<>> /\ pcList = <<>> /\ pcProbes = <<>>

\* enumerate: one root bus, or one for each function of the host bridge.
Enumerate ==
    /\ pcPhase = "root" /\ pcPhase' = "scan"
    /\ pcRoot' = IF Present(<<0, 0, 0>>) /\ ~MultiFunction(0, 0) THEN <<0>>
                 ELSE SelectSeq([i \in 1..(PcFunctions + 1) |-> i - 1], LAMBDA f : Present(<<0, 0, f>>))
    /\ UNCHANGED <<pcTop, pcStack, pcList, pcProbes>>

StartRoot ==
    /\ pcPhase = "scan" /\ pcStack = <<>> /\ pcRoot # <<>>
    /\ pcStack' = <<Call(Head(pcRoot))>> /\ pcRoot' = Tail(pcRoot)
    /\ UNCHANGED <<pcTop, pcPhase, pcList, pcProbes>>

\* The function after f of the call c: the next function of a multi-function
\* device, or function 0 of the next device.
Advance(c) ==
    IF Present(<<c.bus, c.dev, 0>>) /\ MultiFunction(c.bus, c.dev) /\ c.func < PcFunctions
    THEN [c EXCEPT !.func = @ + 1, !.below = FALSE]
    ELSE [c EXCEPT !.dev = @ + 1, !.func = 0, !.below = FALSE]

\* A bridge with a configured secondary bus is walked before it is listed.
MustDescend(c) ==
    LET f == pcTop[<<c.bus, c.dev, c.func>>]
    IN  f.class = "bridge" /\ f.secondary # 0 /\ ~c.below

\* enumerate_bus and enumerate_device at the function of the innermost call.
ScanStep ==
    LET n == Len(pcStack)
        c == pcStack[n]
        f == <<c.bus, c.dev, c.func>>
        outer == SubSeq(pcStack, 1, n - 1)
    IN  /\ pcPhase = "scan" /\ pcStack # <<>>
        /\ CASE c.dev > PcDevices -> pcStack' = outer /\ UNCHANGED pcList
             [] c.dev <= PcDevices /\ ~Present(f) ->
                    pcStack' = Append(outer, Advance(c)) /\ UNCHANGED pcList
             [] c.dev <= PcDevices /\ Present(f) /\ MustDescend(c) ->
                    /\ pcStack' = outer \o <<[c EXCEPT !.below = TRUE], Call(pcTop[f].secondary)>>
                    /\ UNCHANGED pcList
             [] OTHER -> /\ pcStack' = Append(outer, Advance(c))
                         /\ pcList' = Append(pcList, f)
    /\ UNCHANGED <<pcTop, pcPhase, pcRoot, pcProbes>>

\* match_pci_drivers: every driver, every function, at most one probe for the
\* pair (the loop over the ids breaks at the first that matches).
ProbesOf(d, f) == IF \E i \in DOMAIN d : d[i] = pcTop[f].class THEN <<pcTop[f].class>> ELSE <<>>

MatchPciDrivers ==
    /\ pcPhase = "scan" /\ pcStack = <<>> /\ pcRoot = <<>>
    /\ pcPhase' = "done"
    /\ pcProbes' = FlattenSeq([d \in 1..Len(PcDrivers) |->
                      FlattenSeq([i \in 1..Len(pcList) |->
                          [k \in 1..Len(ProbesOf(PcDrivers[d], pcList[i])) |-> <<d, pcList[i]>>]])])
    /\ UNCHANGED <<pcTop, pcRoot, pcStack, pcList>>

PcNext == Enumerate \/ StartRoot \/ ScanStep \/ MatchPciDrivers

PcSpec == PcInit /\ [][PcNext]_pcVars

-----------------------------------------------------------------------------
\* The buses the walk can reach: the root buses and the secondary buses of
\* bridges on reachable ones.
ReachedIn[n \in Nat] ==
    IF n = 0 THEN IF MultiFunction(0, 0) THEN {f \in 0..PcFunctions : Present(<<0, 0, f>>)} ELSE {0}
    ELSE ReachedIn[n - 1] \cup {pcTop[f].secondary : f \in {g \in DOMAIN pcTop :
            g[1] \in ReachedIn[n - 1] /\ pcTop[g].class = "bridge" /\ pcTop[g].secondary # 0}}

\* At the end every function on a reachable bus is listed once, the functions
\* behind a bridge before the bridge; each driver probes each function at most
\* once, and a function that two drivers claim is probed by both.
EachFunctionOnce ==
    pcPhase = "done" =>
        /\ IsInjective(pcList)
        /\ ToSet(pcList) = {f \in DOMAIN pcTop : f[1] \in ReachedIn[4] /\ (f[3] = 0 \/ MultiFunction(f[1], f[2]))}
        /\ \A i, j \in DOMAIN pcList : pcTop[pcList[i]].class = "bridge"
                /\ pcList[j][1] = pcTop[pcList[i]].secondary /\ pcTop[pcList[i]].secondary # 0 => j < i
        /\ IsInjective(pcProbes)

-----------------------------------------------------------------------------
(***************************************************************************)
(* decode_bars (kernel/pci/src/enumerate.rs): the sizes of a function's base   *)
(* address registers, found by writing all ones and putting the old value     *)
(* back.  A register is a word of BarBits bits (32 in the code).  What the     *)
(* function declares is chosen in Init; its registers are external.            *)
(***************************************************************************)
CONSTANTS BarBits, BarRegs, BarDeclared

VARIABLES
    bdDecl,     \* each register: [kind, base, size], kinds "mem", "io", "mem64", "high", "none"
    bdReg,      \* the registers
    bdI, bdPc, bdOriginal, bdSizing, bdOriginalHigh, bdSizingHigh,
    bdBars      \* the result

bdVars == <<bdDecl, bdReg, bdI, bdPc, bdOriginal, bdSizing, bdOriginalHigh, bdSizingHigh, bdBars>>

Word == 2^BarBits
AllOnes == Word - 1
Flags(kind) == CASE kind = "io" -> 1 [] kind = "mem64" -> 4 [] OTHER -> 0

\* A register keeps the address bits the size leaves writable, and its flags.
\* d.size is the size modulo the word for the low half of a 64-bit register and
\* the size divided by the word for the high half.
Keeps(d, value) ==
    CASE d.kind = "none" -> 0
      [] d.kind = "high" -> IF d.size = 0 THEN value ELSE (value \div d.size) * d.size
      [] OTHER -> (IF d.size = 0 THEN 0 ELSE (value \div d.size) * d.size) + Flags(d.kind)

BdInit ==
    /\ bdDecl \in BarDeclared
    /\ bdReg = [i \in 0..(BarRegs - 1) |-> Keeps(bdDecl[i + 1], bdDecl[i + 1].base)]
    /\ bdI = 0 /\ bdPc = "low" /\ bdOriginal = 0 /\ bdSizing = 0 /\ bdOriginalHigh = 0 /\ bdSizingHigh = 0
    /\ bdBars = [i \in 0..(BarRegs - 1) |-> <<"Unused">>]

Masked(word, bits) == (word \div bits) * bits
Negated(mask, modulus) == (modulus - mask) % modulus

-----------------------------------------------------------------------------
\* Read, write all ones, read.
ProbeLow ==
    /\ bdPc = "low" /\ bdI < BarRegs
    /\ bdOriginal' = bdReg[bdI]
    /\ bdReg' = [bdReg EXCEPT ![bdI] = Keeps(bdDecl[bdI + 1], AllOnes)]
    /\ bdSizing' = bdReg'[bdI] /\ bdPc' = "restore"
    /\ UNCHANGED <<bdDecl, bdI, bdOriginalHigh, bdSizingHigh, bdBars>>

WriteBack(i, value) == bdReg' = [bdReg EXCEPT ![i] = Keeps(bdDecl[i + 1], value)]

Is64 == (bdOriginal \div 2) % 4 = 2

\* The old value again, then by the kind of the register.
RestoreLow ==
    LET io == Negated(Masked(bdSizing, 4), Word) % 2^(BarBits \div 2 + 2)
    IN  /\ bdPc = "restore" /\ WriteBack(bdI, bdOriginal)
        /\ CASE bdSizing \in {0, AllOnes} -> bdI' = bdI + 1 /\ bdPc' = "low" /\ UNCHANGED bdBars
             [] bdSizing \notin {0, AllOnes} /\ bdOriginal % 2 = 1 ->
                    /\ bdBars' = IF io > 0 THEN [bdBars EXCEPT ![bdI] = <<"Io", Masked(bdOriginal, 4), io>>] ELSE bdBars
                    /\ bdI' = bdI + 1 /\ bdPc' = "low"
             [] bdSizing \notin {0, AllOnes} /\ bdOriginal % 2 = 0 /\ Is64 /\ bdI + 1 < BarRegs ->
                    bdPc' = "high" /\ UNCHANGED <<bdBars, bdI>>
             [] OTHER ->
                    /\ bdBars' = [bdBars EXCEPT ![bdI] =
                            <<"Memory", Masked(bdOriginal, 16), Negated(Masked(bdSizing, 16), Word)>>]
                    /\ bdI' = bdI + 1 /\ bdPc' = "low"
        /\ UNCHANGED <<bdDecl, bdOriginal, bdSizing, bdOriginalHigh, bdSizingHigh>>

ProbeHigh ==
    /\ bdPc = "high"
    /\ bdOriginalHigh' = bdReg[bdI + 1]
    /\ bdReg' = [bdReg EXCEPT ![bdI + 1] = Keeps(bdDecl[bdI + 2], AllOnes)]
    /\ bdSizingHigh' = bdReg'[bdI + 1] /\ bdPc' = "restore_high"
    /\ UNCHANGED <<bdDecl, bdI, bdOriginal, bdSizing, bdBars>>

\* (mutant) The high register is read again as a register of its own.
NextAfterLow == bdI + 1

NextAfterPair == bdI + 2

RestoreHigh ==
    /\ bdPc = "restore_high" /\ WriteBack(bdI + 1, bdOriginalHigh)
    /\ bdBars' = [bdBars EXCEPT ![bdI] =
            <<"Memory", bdOriginalHigh * Word + Masked(bdOriginal, 16),
              Negated(bdSizingHigh * Word + Masked(bdSizing, 16), Word * Word)>>]
    /\ bdI' = NextAfterPair /\ bdPc' = "low"
    /\ UNCHANGED <<bdDecl, bdOriginal, bdSizing, bdOriginalHigh, bdSizingHigh>>

BdNext == ProbeLow \/ RestoreLow \/ ProbeHigh \/ RestoreHigh

BdSpec == BdInit /\ [][BdNext]_bdVars

-----------------------------------------------------------------------------
\* The result names base and size of every register the function declares, the
\* two halves of a 64-bit register as one, nothing where it declares nothing,
\* and every register holds again what it held.
BarsDecoded ==
    bdI >= BarRegs /\ bdPc = "low" =>
        /\ bdReg = [i \in 0..(BarRegs - 1) |-> Keeps(bdDecl[i + 1], bdDecl[i + 1].base)]
        /\ \A i \in 0..(BarRegs - 1) :
              LET d == bdDecl[i + 1]
              IN  bdBars[i] = CASE d.kind = "io" -> <<"Io", d.base, d.size>>
                                [] d.kind = "mem" -> <<"Memory", d.base, d.size>>
                                [] d.kind = "mem64" -> <<"Memory", bdDecl[i + 2].base * Word + d.base,
                                        IF d.size = 0 THEN bdDecl[i + 2].size * Word ELSE d.size>>
                                [] OTHER -> <<"Unused">>

-----------------------------------------------------------------------------
(***************************************************************************)
(* How the PCI drivers come to their interrupts at boot: the I/O APIC entries  *)
(* of the ISA interrupts (kernel/kernel/src/arch/x86_64/acpi.rs), the handler  *)
(* table (interrupts/dispatch.rs), MSI-X with a fall-back to the line (virtio, *)
(* e1000e) or the line alone (ahci), and the device registry.  Drivers probe   *)
(* one after the other; a probe that fails later keeps what it has taken.      *)
(***************************************************************************)
CONSTANTS
    DpIsaIrqs,        \* 0..n: ISA interrupts (0..15)
    DynVectors,     \* the vectors of the dynamic range, above those of the ISA range
    DpOverrides,    \* sets of MADT overrides: functions irq -> [gsi, level]
    DpMachines      \* sequences of functions [driver, msix, line, ports]

VARIABLES
    dpOver, dpDevs,     \* the machine (external)
    dpPins,     \* I/O APIC entries: pin -> [vector, level, masked], vector -1 at reset
    dpHandlers, \* vectors with irq_wakeup_handler
    dpMsix,     \* each function's MSI-X control: "off", "masked", "on"
    dpEntry,    \* each function's MSI-X entry 0: [vector, masked]
    dpAt,       \* the function being probed
    dpPc,       \* where its probe is
    dpIrq,      \* its IrqLine: a vector or -1
    dpIndex,    \* DISK_INDEX or NIC_INDEX of each driver
    dpRegistry  \* leaf name -> [dev, vector]

dpVars == <<dpOver, dpDevs, dpPins, dpHandlers, dpMsix, dpEntry, dpAt, dpPc, dpIrq, dpIndex, dpRegistry>>

IsaVector(irq) == 100 + irq
Drivers == {"virtio-blk", "virtio-net", "e1000e", "ahci"}

DpInit ==
    /\ dpOver \in DpOverrides /\ dpDevs \in DpMachines
    /\ dpPins = [p \in DpIsaIrqs |-> [vector |-> -1, level |-> FALSE, masked |-> TRUE]]
    /\ dpHandlers = {} /\ dpMsix = [d \in DOMAIN dpDevs |-> "off"]
    /\ dpEntry = [d \in DOMAIN dpDevs |-> [vector |-> -1, masked |-> TRUE]]
    /\ dpAt = 1 /\ dpPc = "isa" /\ dpIrq = -1
    /\ dpIndex = [r \in Drivers |-> 0] /\ dpRegistry = <<>>

-----------------------------------------------------------------------------
Gsi(irq) == IF irq \in DOMAIN dpOver THEN dpOver[irq].gsi ELSE irq

IsaEntry(irq) ==
    [vector |-> IsaVector(Gsi(irq)), level |-> irq \in DOMAIN dpOver /\ dpOver[irq].level, masked |-> TRUE]

\* setup_isa_irqs: the interrupts in order; of two with the same pin the later
\* one's entry stays.
DpSetupIsaIrqs ==
    LET here(p) == {i \in DpIsaIrqs : Gsi(i) = p}
        last(p) == CHOOSE i \in here(p) : \A j \in here(p) : j <= i
    IN  /\ dpPc = "isa" /\ dpPc' = "probe"
        /\ dpPins' = [p \in DpIsaIrqs |-> IF here(p) = {} THEN dpPins[p] ELSE IsaEntry(last(p))]
        /\ UNCHANGED <<dpOver, dpDevs, dpHandlers, dpMsix, dpEntry, dpAt, dpIrq, dpIndex, dpRegistry>>

Dev == dpDevs[dpAt]
NextDev == dpAt' = dpAt + 1 /\ dpPc' = "probe" /\ dpIrq' = -1

DpAt(driver, pc) == dpPc = pc /\ dpAt <= Len(dpDevs) /\ Dev.driver = driver

\* A probe up to its interrupt: it may fail (a BAR, the transport, MMIO).
Started(ok) ==
    /\ IF ok THEN dpPc' = "irq" /\ UNCHANGED <<dpAt, dpIrq>> ELSE NextDev
    /\ UNCHANGED <<dpOver, dpDevs, dpPins, dpHandlers, dpMsix, dpEntry, dpIndex, dpRegistry>>

BlkStart(ok) == DpAt("virtio-blk", "probe") /\ Started(ok)
NetStart(ok) == DpAt("virtio-net", "probe") /\ Started(ok)
E1000eStart(ok) == DpAt("e1000e", "probe") /\ Started(ok)
AhciStart(ok) == DpAt("ahci", "probe") /\ Started(ok)

\* alloc_vector finds a vector without a handler; it reserves nothing.
FreeVectors == DynVectors \ dpHandlers

\* MsixTable::setup turns MSI-X on with the function masked, unless the table's
\* BAR is no memory or cannot be mapped.
MsixSetup(mapped) == dpMsix' = [dpMsix EXCEPT ![dpAt] = IF Dev.msix /\ mapped THEN "masked" ELSE @]

\* unmask_irq takes the number of the ISA interrupt for the pin, whatever the
\* overrides say.
Pin(line) == line

\* bind_isa and unmask_irq: a second user of the line is refused.
BindLine ==
    LET v == IsaVector(Dev.line)
    IN  IF v \in dpHandlers
        THEN NextDev /\ UNCHANGED <<dpHandlers, dpPins>>
        ELSE /\ dpHandlers' = dpHandlers \cup {v}
             /\ dpPins' = [dpPins EXCEPT ![Pin(Dev.line)].masked = FALSE]
             /\ dpIrq' = v /\ dpPc' = "device" /\ UNCHANGED dpAt

\* setup_irq of a driver with MSI-X: set up, a vector, bind, set_entry; on an
\* error the line is tried, and MSI-X stays as it is.
MsixOrLine(mapped) ==
    LET v == CHOOSE x \in FreeVectors : \A y \in FreeVectors : x <= y
    IN  /\ MsixSetup(mapped)
        /\ IF Dev.msix /\ mapped /\ FreeVectors # {}
           THEN /\ dpHandlers' = dpHandlers \cup {v} /\ dpIrq' = v
                /\ dpEntry' = [dpEntry EXCEPT ![dpAt] = [vector |-> v, masked |-> TRUE]]
                /\ dpPc' = "device"
                /\ UNCHANGED <<dpPins, dpAt>>
           ELSE BindLine /\ UNCHANGED dpEntry
        /\ UNCHANGED <<dpOver, dpDevs, dpIndex, dpRegistry>>

BlkSetupIrq(mapped) == DpAt("virtio-blk", "irq") /\ MsixOrLine(mapped)
NetSetupIrq(mapped) == DpAt("virtio-net", "irq") /\ MsixOrLine(mapped)
E1000eSetupIrq(mapped) == DpAt("e1000e", "irq") /\ MsixOrLine(mapped)

AhciSetupIrq ==
    /\ DpAt("ahci", "irq") /\ BindLine
    /\ UNCHANGED <<dpOver, dpDevs, dpMsix, dpEntry, dpIndex, dpRegistry>>

\* MsixTable::unmask and enable, when the function has an entry.
EnableMsix ==
    /\ dpMsix' = [dpMsix EXCEPT ![dpAt] = IF dpEntry[dpAt].vector # -1 THEN "on" ELSE @]
    /\ dpEntry' = [dpEntry EXCEPT ![dpAt].masked = (dpEntry[dpAt].vector = -1)]

\* register_driver puts n devices into the registry, under the driver's name and
\* a running number.
DpRegister(n) ==
    LET i == dpIndex[Dev.driver]
    IN  /\ dpIndex' = [dpIndex EXCEPT ![Dev.driver] = @ + n]
        /\ dpRegistry' = dpRegistry \o
              [k \in 1..n |-> [name |-> <<Dev.driver, i + k - 1>>, dev |-> dpAt, vector |-> dpIrq]]

\* The rest of a probe: rings and queues (it may fail, and the handler stays),
\* MSI-X, the registration.
Finished(ok, n) ==
    /\ IF ok THEN EnableMsix /\ DpRegister(n) ELSE UNCHANGED <<dpMsix, dpEntry, dpIndex, dpRegistry>>
    /\ NextDev
    /\ UNCHANGED <<dpOver, dpDevs, dpPins, dpHandlers>>

BlkEnd(ok) == DpAt("virtio-blk", "device") /\ Finished(ok, 1)
NetEnd(ok) == DpAt("virtio-net", "device") /\ Finished(ok, 1)
E1000eEnd(ok) == DpAt("e1000e", "device") /\ Finished(ok, 1)

\* A disk for every port with a device, all on the controller's line.
AhciEnd == DpAt("ahci", "device") /\ Finished(TRUE, Dev.ports)

DpNext ==
    \/ DpSetupIsaIrqs \/ AhciSetupIrq \/ AhciEnd
    \/ \E ok \in BOOLEAN : \/ BlkStart(ok) \/ NetStart(ok) \/ E1000eStart(ok) \/ AhciStart(ok)
                           \/ BlkSetupIrq(ok) \/ NetSetupIrq(ok) \/ E1000eSetupIrq(ok)
                           \/ BlkEnd(ok) \/ NetEnd(ok) \/ E1000eEnd(ok)

DpSpec == DpInit /\ [][DpNext]_dpVars

-----------------------------------------------------------------------------
\* The vector a registered device's interrupt arrives at; -1 when it is lost.
Arrives(d) ==
    CASE dpMsix[d] = "on" /\ ~dpEntry[d].masked -> dpEntry[d].vector
      [] dpMsix[d] = "off" /\ ~dpPins[dpDevs[d].line].masked -> dpPins[dpDevs[d].line].vector
      [] OTHER -> -1

\* No two registered devices of different functions have one vector, names are
\* unique, and every device's interrupt arrives where it waits, as long as there
\* was a vector for every MSI-X function and the line is not moved by an
\* override; a level-triggered override reaches the pin unless a later interrupt
\* has the same pin.
InterruptsReach ==
    /\ \A i, j \in DOMAIN dpRegistry : i # j =>
          /\ dpRegistry[i].name # dpRegistry[j].name
          /\ dpRegistry[i].dev # dpRegistry[j].dev => dpRegistry[i].vector # dpRegistry[j].vector
    /\ \A i \in DOMAIN dpRegistry :
          LET d == dpRegistry[i].dev
          IN  dpMsix[d] # "masked" /\ (\A irq \in DOMAIN dpOver :
                      dpOver[irq].gsi = irq \/ dpDevs[d].line \notin {irq, dpOver[irq].gsi})
              => Arrives(d) = dpRegistry[i].vector /\ dpRegistry[i].vector \in dpHandlers
    /\ dpPc # "isa" => \A irq \in DOMAIN dpOver :
          (\A j \in DpIsaIrqs : j > irq => Gsi(j) # dpOver[irq].gsi) => dpPins[dpOver[irq].gsi].level = dpOver[irq].level

-----------------------------------------------------------------------------
(***************************************************************************)
(* Bringing up the other processors (kernel/kernel/src/arch/x86_64/smp.rs,     *)
(* kernel/kernel/src/percpu.rs, sched/smp.rs): the boot processor (BSP) parks  *)
(* the application processors (APs) on the kernel's page tables, prepares the  *)
(* per-CPU data of each, releases them together and counts those that report;  *)
(* both waits give up after a while and the late ones go on.                   *)
(***************************************************************************)
CONSTANT SmpCpus        \* boot_info.smp_cpus(): the LAPIC ids of the APs, in table order

VARIABLES
    abBsp,      \* what the BSP does next
    abNr,       \* the entry of SmpCpus it is at
    abCr3,      \* AP_KERNEL_CR3 has been stored
    abParked,   \* AP_PARKED_COUNT
    abTable,    \* AP_PERCPU_TABLE: LAPIC id -> CPU id of the PerCpu, 0 for none
    abApicIds,  \* CPU_APIC_IDS: CPU id -> LAPIC id, 0 for none
    abRelease,  \* AP_RELEASE
    abReady,    \* AP_READY_COUNT
    abCount,    \* CPU_COUNT
    abLate,     \* a wait has given up
    abAp,       \* what each AP does next
    abHas       \* what each AP has set up for itself

apVars == <<abBsp, abNr, abCr3, abParked, abTable, abApicIds, abRelease, abReady, abCount, abLate, abAp, abHas>>

Lapics == {SmpCpus[i] : i \in DOMAIN SmpCpus}

\* The steps of ap_entry that set up a part of the CPU's state, in their order;
\* "apic" includes the timer with the BSP's calibration.
EntryOrder == <<"gdt", "gs", "rsp", "idt", "fpu", "syscall", "pointers", "apic">>

ApInit ==
    /\ abBsp = "cr3" /\ abNr = 1 /\ abCr3 = FALSE
    /\ abParked = 0 /\ abReady = 0 /\ abCount = 1
    /\ abTable = [l \in Lapics |-> 0]
    /\ abApicIds = [c \in 1..Len(SmpCpus) |-> 0]
    /\ abRelease = FALSE /\ abLate = FALSE
    /\ abAp = [l \in Lapics |-> "off"]
    /\ abHas = [l \in Lapics |-> <<>>]

-----------------------------------------------------------------------------
\* park_aps: the page table is published before any AP is started.
StoreCr3 ==
    /\ abBsp = "cr3"
    /\ abCr3' = TRUE /\ abBsp' = "start"
    /\ UNCHANGED <<abNr, abParked, abTable, abApicIds, abRelease, abReady, abCount, abLate, abAp, abHas>>

StartAp ==
    /\ abBsp = "start"
    /\ abAp' = [abAp EXCEPT ![SmpCpus[abNr]] = "load_cr3"]
    /\ abNr' = IF abNr = Len(SmpCpus) THEN 1 ELSE abNr + 1
    /\ abBsp' = IF abNr = Len(SmpCpus) THEN "await_parked" ELSE "start"
    /\ UNCHANGED <<abCr3, abParked, abTable, abApicIds, abRelease, abReady, abCount, abLate, abHas>>

\* All have parked, or PARK_TIMEOUT is over.
AwaitParked(timeout) ==
    /\ abBsp = "await_parked"
    /\ timeout <=> abParked < Len(SmpCpus)
    /\ abLate' = (abLate \/ timeout)
    /\ abBsp' = "prepare"
    /\ UNCHANGED <<abNr, abCr3, abParked, abTable, abApicIds, abRelease, abReady, abCount, abAp, abHas>>

\* boot_aps: PerCpu::init with the CPU id, its LAPIC id registered for the IPIs,
\* its address stored in the table.
Prepare ==
    /\ abBsp = "prepare"
    /\ abApicIds' = [abApicIds EXCEPT ![abNr] = SmpCpus[abNr]]
    /\ abTable' = [abTable EXCEPT ![SmpCpus[abNr]] = abNr]
    /\ abNr' = IF abNr = Len(SmpCpus) THEN 1 ELSE abNr + 1
    /\ abBsp' = IF abNr = Len(SmpCpus) THEN "release" ELSE "prepare"
    /\ UNCHANGED <<abCr3, abParked, abRelease, abReady, abCount, abLate, abAp, abHas>>

Release ==
    /\ abBsp = "release"
    /\ abRelease' = TRUE /\ abBsp' = "await_ready"
    /\ UNCHANGED <<abNr, abCr3, abParked, abTable, abApicIds, abReady, abCount, abLate, abAp, abHas>>

\* All have reported, or SPIN_TIMEOUT is over ...
AwaitReady(timeout) ==
    /\ abBsp = "await_ready"
    /\ timeout <=> abReady < Len(SmpCpus)
    /\ abLate' = (abLate \/ timeout)
    /\ abBsp' = "count"
    /\ UNCHANGED <<abNr, abCr3, abParked, abTable, abApicIds, abRelease, abReady, abCount, abAp, abHas>>

\* ... and the count is taken from another load.
SetCount ==
    /\ abBsp = "count"
    /\ abCount' = 1 + abReady /\ abBsp' = "done"
    /\ UNCHANGED <<abNr, abCr3, abParked, abTable, abApicIds, abRelease, abReady, abLate, abAp, abHas>>

Bsp ==
    \/ StoreCr3 \/ StartAp \/ Prepare \/ Release \/ SetCount
    \/ \E b \in BOOLEAN : AwaitParked(b) \/ AwaitReady(b)

-----------------------------------------------------------------------------
\* ap_early_park.
LoadCr3(l) ==
    /\ abAp[l] = "load_cr3"
    /\ abAp' = [abAp EXCEPT ![l] = IF abCr3 THEN "park" ELSE "fault"]
    /\ UNCHANGED <<abBsp, abNr, abCr3, abParked, abTable, abApicIds, abRelease, abReady, abCount, abLate, abHas>>

Park(l) ==
    /\ abAp[l] = "park"
    /\ abParked' = abParked + 1
    /\ abAp' = [abAp EXCEPT ![l] = "parked"]
    /\ UNCHANGED <<abBsp, abNr, abCr3, abTable, abApicIds, abRelease, abReady, abCount, abLate, abHas>>

\* The spin on AP_RELEASE ends; the assertion on the table's entry.
Leave(l) ==
    /\ abAp[l] = "parked" /\ abRelease
    /\ abAp' = [abAp EXCEPT ![l] = IF abTable[l] = 0 THEN "fault" ELSE "entry"]
    /\ UNCHANGED <<abBsp, abNr, abCr3, abParked, abTable, abApicIds, abRelease, abReady, abCount, abLate, abHas>>

\* ap_entry: the next part of the CPU's state.
SetUp(l) ==
    /\ abAp[l] = "entry" /\ Len(abHas[l]) < Len(EntryOrder)
    /\ abHas' = [abHas EXCEPT ![l] = Append(@, EntryOrder[Len(@) + 1])]
    /\ UNCHANGED <<abBsp, abNr, abCr3, abParked, abTable, abApicIds, abRelease, abReady, abCount, abLate, abAp>>

\* It reports, enables interrupts and enters its executor.
Report(l) ==
    /\ abAp[l] = "entry" /\ Len(abHas[l]) = Len(EntryOrder)
    /\ abReady' = abReady + 1
    /\ abAp' = [abAp EXCEPT ![l] = "online"]
    /\ UNCHANGED <<abBsp, abNr, abCr3, abParked, abTable, abApicIds, abRelease, abCount, abLate, abHas>>

ApStep(l) == LoadCr3(l) \/ Park(l) \/ Leave(l) \/ SetUp(l) \/ Report(l)

ApNext == Bsp \/ \E l \in Lapics : ApStep(l)

ApSpec ==
    /\ ApInit /\ [][ApNext]_abVars
    /\ WF_abVars(Bsp)
    /\ \A l \in Lapics : WF_abVars(ApStep(l))

-----------------------------------------------------------------------------
Online == {l \in Lapics : abAp[l] = "online"}

\* An AP never runs without what it needs: it has the kernel's page tables and
\* its own PerCpu, whatever wait has given up; when it is counted it has set up
\* everything an interrupt needs; and the IPI table sends to CPU c the LAPIC id
\* of the processor whose PerCpu says c.
ApsPrepared ==
    /\ \A l \in Lapics : abAp[l] # "fault"
    /\ \A l \in Lapics : abAp[l] \in {"entry", "online"} =>
          abTable[l] # 0 /\ abApicIds[abTable[l]] = l
    /\ \A l, k \in Lapics : l # k /\ abTable[l] # 0 => abTable[l] # abTable[k]
    /\ Cardinality(Online) = abReady
    /\ \A l \in Online : {abHas[l][i] : i \in DOMAIN abHas[l]} = {EntryOrder[i] : i \in DOMAIN EntryOrder}

\* When no wait gave up, the CPU ids below CPU_COUNT are the ids of the
\* processors that are online: the set try_steal goes through.  (After a time-out
\* they need not be: the ids are positions in the table and the count is how many
\* reported.)
CountMeansIds ==
    abBsp = "done" /\ ~abLate => {abTable[l] : l \in Online} = 1..(abCount - 1)

\* Every AP comes online: also those the BSP gave up waiting for.
AllOnline == \A l \in Lapics : abAp[l] = "online"

-----------------------------------------------------------------------------
(***************************************************************************)
(* Reading the CMOS clock (kernel/kernel/src/arch/x86_64/hw/rtc.rs) while it   *)
(* runs: the registers are read one after the other and the clock may tick     *)
(* between any two of them.  The clock itself (its update flag, its calendar   *)
(* and its four number formats) is external.                                   *)
(***************************************************************************)
CONSTANTS
    RcAnchors,      \* [at: the date and time <<y, mo, d, h, mi, s>>, unix: its Unix time]
    RcTicks         \* bound: seconds that pass

VARIABLES
    rcAt,       \* the time the clock shows
    rcUnix,     \* external reference: its Unix time
    rcMode,     \* status B: [bcd, h24], and whether there is a century register
    rcUip,      \* status A: an update is in progress
    rcCalm,     \* the clock may tick: no tick in this pass yet
    rcReg,      \* the registers read in this pass
    rcPrev,     \* the last complete pass (empty: none)
    rcFrom,     \* rcUnix when read_rtc was called
    rcResult,   \* what it returned, -1 before
    rcLeft

rcVars == <<rcAt, rcUnix, rcMode, rcUip, rcCalm, rcReg, rcPrev, rcFrom, rcResult, rcLeft>>

-----------------------------------------------------------------------------
\* The clock (external).
Bcd(n) == (n \div 10) * 16 + (n % 10)

LeapYear(y) == y % 4 = 0 /\ (y % 100 # 0 \/ y % 400 = 0)

DaysIn(y, mo) == CASE mo = 2 -> (IF LeapYear(y) THEN 29 ELSE 28) [] mo \in {4, 6, 9, 11} -> 30 [] OTHER -> 31

NextSecond(t) ==
    CASE t[6] < 59 -> [t EXCEPT ![6] = @ + 1]
      [] t[6] = 59 /\ t[5] < 59 -> [t EXCEPT ![6] = 0, ![5] = @ + 1]
      [] t[6] = 59 /\ t[5] = 59 /\ t[4] < 23 -> [t EXCEPT ![6] = 0, ![5] = 0, ![4] = @ + 1]
      [] OTHER -> IF t[3] < DaysIn(t[1], t[2]) THEN <<t[1], t[2], t[3] + 1, 0, 0, 0>>
                  ELSE IF t[2] < 12 THEN <<t[1], t[2] + 1, 1, 0, 0, 0>> ELSE <<t[1] + 1, 1, 1, 0, 0, 0>>

Code(n) == IF rcMode.bcd THEN Bcd(n) ELSE n

HourCode(h) == IF rcMode.h24 THEN Code(h) ELSE Code(((h + 11) % 12) + 1) + (IF h >= 12 THEN 128 ELSE 0)

\* The registers in the order read_rtc_raw reads them: seconds to century.
RcRegister(t, k) ==
    CASE k = 1 -> Code(t[6]) [] k = 2 -> Code(t[5]) [] k = 3 -> HourCode(t[4])
      [] k = 4 -> Code(t[3]) [] k = 5 -> Code(t[2]) [] k = 6 -> Code(t[1] % 100)
      [] OTHER -> IF rcMode.century THEN Code(t[1] \div 100) ELSE 0

-----------------------------------------------------------------------------
bcd_to_bin(n) == (n % 16) + (n \div 16) * 10

Plain(n) == IF rcMode.bcd THEN bcd_to_bin(n) ELSE n

\* The hour: the PM bit is taken off before the conversion and put back as 12 h.
\* Twelve o'clock at night, code 12 without the bit, is left as 12.
Hours(raw) ==
    LET h == Plain(raw % 128) IN IF ~rcMode.h24 /\ raw >= 128 THEN (h % 12) + 12 ELSE h

\* What read_rtc_raw makes of the registers.
RtcTime(r) ==
    LET year == Plain(r[6])
        century == Plain(r[7])
    IN  << IF century > 0 THEN century * 100 + year ELSE 2000 + year,
           Plain(r[5]), Plain(r[4]), Hours(r[3]), Plain(r[2]), Plain(r[1]) >>

is_leap_year(y) == (y % 4 = 0 /\ y % 100 # 0) \/ y % 400 = 0

MonthDays == <<31, 28, 31, 30, 31, 30, 31, 31, 30, 31, 30, 31>>

datetime_to_unix(t) ==
    LET years == MapThenSumSet(LAMBDA y : IF is_leap_year(y) THEN 366 ELSE 365, 1970..(t[1] - 1))
        months == MapThenSumSet(LAMBDA m : MonthDays[m] + (IF m = 2 /\ is_leap_year(t[1]) THEN 1 ELSE 0), 1..(t[2] - 1))
    IN  (years + months + t[3] - 1) * 86400 + t[4] * 3600 + t[5] * 60 + t[6]

-----------------------------------------------------------------------------
RcInit ==
    /\ \E a \in RcAnchors : rcAt = a.at /\ rcUnix = a.unix /\ rcFrom = a.unix
    /\ rcMode \in [bcd : BOOLEAN, h24 : BOOLEAN, century : BOOLEAN]
    /\ rcMode.century \/ rcAt[1] \div 100 = 20
    /\ rcUip = FALSE /\ rcCalm = TRUE
    /\ rcReg = <<>> /\ rcPrev = <<>> /\ rcResult = -1
    /\ rcLeft = RcTicks

\* wait_for_rtc_ready, then the first register of a pass.
StartPass ==
    /\ rcReg = <<>> /\ rcResult = -1 /\ ~rcUip
    /\ rcReg' = <<RcRegister(rcAt, 1)>>
    /\ rcCalm' = TRUE
    /\ UNCHANGED <<rcAt, rcUnix, rcMode, rcUip, rcPrev, rcFrom, rcResult, rcLeft>>

\* cmos_read of the next register.
CmosRead ==
    /\ Len(rcReg) \in 1..6
    /\ rcReg' = Append(rcReg, RcRegister(rcAt, Len(rcReg) + 1))
    /\ UNCHANGED <<rcAt, rcUnix, rcMode, rcUip, rcCalm, rcPrev, rcFrom, rcResult, rcLeft>>

Accept(p, c) == p # <<>> /\ p = c

\* read_rtc: a pass that equals the one before it is the answer.
EndPass ==
    /\ Len(rcReg) = 7
    /\ rcReg' = <<>>
    /\ rcPrev' = RtcTime(rcReg)
    /\ rcResult' = IF Accept(rcPrev, RtcTime(rcReg)) THEN datetime_to_unix(RtcTime(rcReg)) ELSE -1
    /\ UNCHANGED <<rcAt, rcUnix, rcMode, rcUip, rcCalm, rcFrom, rcLeft>>

\* The update flag goes up some time before the registers change, all at once.
\* A pass takes less than a second (external).
UpdateBegins ==
    /\ ~rcUip /\ rcLeft > 0 /\ rcCalm /\ rcResult = -1
    /\ rcUip' = TRUE
    /\ UNCHANGED <<rcAt, rcUnix, rcMode, rcCalm, rcReg, rcPrev, rcFrom, rcResult, rcLeft>>

Update ==
    /\ rcUip /\ rcUip' = FALSE
    /\ rcAt' = NextSecond(rcAt) /\ rcUnix' = rcUnix + 1
    /\ rcCalm' = FALSE
    /\ rcLeft' = rcLeft - 1
    /\ UNCHANGED <<rcMode, rcReg, rcPrev, rcFrom, rcResult>>

RcNext == StartPass \/ CmosRead \/ EndPass \/ UpdateBegins \/ Update

RcSpec == RcInit /\ [][RcNext]_rcVars

-----------------------------------------------------------------------------
\* read_rtc returns the Unix time of an instant between its call and its return,
\* whatever format the clock uses and however its ticks fall between the
\* register reads.  The hour after midnight of a 12-hour clock is left out: it is
\* read as the hour after noon.
ReadingTrue ==
    rcResult # -1 /\ (rcMode.h24 \/ rcAt[4] # 0) => rcResult \in rcFrom..rcUnix

-----------------------------------------------------------------------------
(***************************************************************************)
(* Sleeping and polling with a time-out: the sleep queue of                   *)
(* kernel/sched/src/timer.rs, SleepFuture (kernel/kernel/src/sched/           *)
(* primitives.rs), clock_nanosleep, and event_wait_many with its trap         *)
(* (kernel/kernel/src/syscall/event.rs, TrapReason::Poll in proc/mod.rs).      *)
(* The timer interrupt wakes at most a batch of expired entries; a poll        *)
(* leaves an entry in the queue every time it is polled.                       *)
(***************************************************************************)
CONSTANTS
    WakeBatchSize,      \* WAKE_BATCH_SIZE
    SqSleepers,         \* tasks that sleep: task -> ticks
    SqPollers,          \* tasks that poll one descriptor or none
    SqTimeouts,         \* the time-outs they give (Forever: none)
    Forever,
    SqMaxTick,          \* bound: no call is made later than this
    SqEvents            \* bound: events on the descriptor

VARIABLES
    sqTick,     \* Time::timer_ticks
    sqQueue,    \* SLEEP_QUEUE: how many entries of each task, all with its deadline
    sqBatch,    \* entries the interrupt has taken out and not woken yet
    sqPc,       \* each task: "start", "run", "enter", "register", "check", "wait", "done"
    sqDeadline, \* its deadline
    sqEmpty,    \* pollers that have passed no descriptors
    sqWoken,    \* tasks whose waker was called since they were last polled
    sqReady,    \* the descriptor is ready
    sqSubs,     \* wakers the descriptor's wait queue holds
    sqAnswer,   \* what each poll has returned
    sqLeft      \* events left

sqVars == <<sqTick, sqQueue, sqBatch, sqPc, sqDeadline, sqEmpty, sqWoken, sqReady, sqSubs, sqAnswer, sqLeft>>

SqTasks == DOMAIN SqSleepers \cup SqPollers

NoEntries == [t \in SqTasks |-> 0]

SqInit ==
    /\ sqTick = 0 /\ sqQueue = NoEntries /\ sqBatch = NoEntries
    /\ sqPc = [t \in SqTasks |-> "start"]
    /\ sqDeadline = [t \in SqTasks |-> 0] /\ sqEmpty = {}
    /\ sqWoken = {} /\ sqReady = FALSE /\ sqSubs = {}
    /\ sqAnswer = [t \in SqPollers |-> -1]
    /\ sqLeft = SqEvents

\* sleep_ticks computes the deadline.
SleepStart(t) ==
    /\ t \in DOMAIN SqSleepers /\ sqPc[t] = "start"
    /\ sqDeadline' = [sqDeadline EXCEPT ![t] = sqTick + SqSleepers[t]]
    /\ sqPc' = [sqPc EXCEPT ![t] = "run"]
    /\ UNCHANGED <<sqTick, sqQueue, sqBatch, sqWoken, sqReady, sqSubs, sqAnswer, sqLeft, sqEmpty>>

\* SleepFuture::poll reads the time ...
SleepPoll(t) ==
    /\ t \in DOMAIN SqSleepers /\ sqPc[t] = "run"
    /\ sqPc' = [sqPc EXCEPT ![t] = IF sqTick >= sqDeadline[t] THEN "done" ELSE "register"]
    /\ UNCHANGED <<sqTick, sqQueue, sqBatch, sqDeadline, sqWoken, sqReady, sqSubs, sqAnswer, sqLeft, sqEmpty>>

\* register_sleep_waker: whatever the time is by now.
RegisterSleepWaker(t) == sqQueue' = [sqQueue EXCEPT ![t] = @ + 1]

\* ... and leaves its waker in the queue afterwards.
SleepPending(t) ==
    /\ t \in DOMAIN SqSleepers /\ sqPc[t] = "register"
    /\ RegisterSleepWaker(t)
    /\ sqPc' = [sqPc EXCEPT ![t] = "wait"]
    /\ UNCHANGED <<sqTick, sqBatch, sqDeadline, sqWoken, sqReady, sqSubs, sqAnswer, sqLeft, sqEmpty>>

\* sys_event_wait_many: no descriptors are answered at once, whatever the time-out;
\* else a look without a waker, and the answer when something is ready or no
\* time-out was given, the trap otherwise.
PollSyscall(t, nfds, timeout) ==
    /\ t \in SqPollers /\ sqPc[t] = "start"
    /\ sqDeadline' = [sqDeadline EXCEPT ![t] = IF timeout = Forever THEN Forever ELSE sqTick + timeout]
    /\ sqEmpty' = IF nfds = 0 THEN sqEmpty \cup {t} ELSE sqEmpty
    /\ IF nfds = 0 \/ sqReady \/ timeout = 0
       THEN /\ sqAnswer' = [sqAnswer EXCEPT ![t] = IF nfds > 0 /\ sqReady THEN 1 ELSE 0]
            /\ sqPc' = [sqPc EXCEPT ![t] = "done"]
       ELSE sqPc' = [sqPc EXCEPT ![t] = "run"] /\ UNCHANGED sqAnswer
    /\ UNCHANGED <<sqTick, sqQueue, sqBatch, sqWoken, sqReady, sqSubs, sqLeft>>

\* The closure of TrapReason::Poll: the sleep entry first, then the waker at the
\* descriptor with the look at it, then the time.
PollEnter(t) ==
    /\ t \in SqPollers /\ sqPc[t] = "run"
    /\ IF sqDeadline[t] = Forever THEN UNCHANGED sqQueue ELSE RegisterSleepWaker(t)
    /\ sqPc' = [sqPc EXCEPT ![t] = "enter"]
    /\ UNCHANGED <<sqTick, sqBatch, sqDeadline, sqWoken, sqReady, sqSubs, sqAnswer, sqLeft, sqEmpty>>

PollLook(t) ==
    /\ t \in SqPollers /\ sqPc[t] = "enter"
    /\ sqSubs' = sqSubs \cup {t}
    /\ sqAnswer' = [sqAnswer EXCEPT ![t] = IF sqReady THEN 1 ELSE 0]
    /\ sqPc' = [sqPc EXCEPT ![t] = "check"]
    /\ UNCHANGED <<sqTick, sqQueue, sqBatch, sqDeadline, sqWoken, sqReady, sqLeft, sqEmpty>>

PollEnds(t) == sqAnswer[t] > 0 \/ (sqDeadline[t] # Forever /\ sqTick >= sqDeadline[t])

PollDecide(t) ==
    /\ t \in SqPollers /\ sqPc[t] = "check"
    /\ sqPc' = [sqPc EXCEPT ![t] = IF PollEnds(t) THEN "done" ELSE "wait"]
    /\ UNCHANGED <<sqTick, sqQueue, sqBatch, sqDeadline, sqWoken, sqReady, sqSubs, sqAnswer, sqLeft, sqEmpty>>

\* The executor polls a task again after its waker was called (Executor shows
\* that a call during the poll is not lost).
Resume(t) ==
    /\ sqPc[t] = "wait" /\ t \in sqWoken
    /\ sqWoken' = sqWoken \ {t}
    /\ sqPc' = [sqPc EXCEPT ![t] = "run"]
    /\ UNCHANGED <<sqTick, sqQueue, sqBatch, sqDeadline, sqReady, sqSubs, sqAnswer, sqLeft, sqEmpty>>

-----------------------------------------------------------------------------
\* Time passes, until the last deadline.
Tick ==
    /\ sqTick < SqMaxTick \/ \E t \in SqTasks : sqPc[t] # "done" /\ sqDeadline[t] \in sqTick + 1 .. Forever - 1
    /\ sqTick' = sqTick + 1
    /\ UNCHANGED <<sqQueue, sqBatch, sqPc, sqDeadline, sqWoken, sqReady, sqSubs, sqAnswer, sqLeft, sqEmpty>>

\* timer_handler, wake_expired under the lock: the earliest entries whose time
\* has come, as many as the batch holds.
Expired == {t \in SqTasks : sqQueue[t] > 0 /\ sqDeadline[t] <= sqTick}
Entries(q, tasks) == MapThenSumSet(LAMBDA t : q[t], tasks)

TakeExpired ==
    /\ sqBatch = NoEntries /\ Expired # {}
    /\ \E b \in [SqTasks -> 0..WakeBatchSize] :
          /\ \A t \in SqTasks : b[t] <= IF t \in Expired THEN sqQueue[t] ELSE 0
          /\ Entries(b, SqTasks) = Min({WakeBatchSize, Entries(sqQueue, Expired)})
          /\ \A t, u \in Expired : b[t] > 0 /\ b[u] < sqQueue[u] => sqDeadline[t] <= sqDeadline[u]
          /\ sqBatch' = b
          /\ sqQueue' = [t \in SqTasks |-> sqQueue[t] - b[t]]
    /\ UNCHANGED <<sqTick, sqPc, sqDeadline, sqWoken, sqReady, sqSubs, sqAnswer, sqLeft, sqEmpty>>

\* The wakers are called after the lock is gone; a task that is done ignores it.
WakeOne ==
    /\ \E t \in SqTasks :
          /\ sqBatch[t] > 0
          /\ sqBatch' = [sqBatch EXCEPT ![t] = @ - 1]
          /\ sqWoken' = IF sqPc[t] = "done" THEN sqWoken ELSE sqWoken \cup {t}
    /\ UNCHANGED <<sqTick, sqQueue, sqPc, sqDeadline, sqReady, sqSubs, sqAnswer, sqLeft, sqEmpty>>

\* The descriptor becomes ready and wakes who has subscribed, or another reader
\* takes what was there.
Event ==
    /\ sqLeft > 0 /\ sqLeft' = sqLeft - 1
    /\ sqReady' = ~sqReady
    /\ IF sqReady THEN UNCHANGED <<sqSubs, sqWoken>>
       ELSE sqWoken' = sqWoken \cup {t \in sqSubs : sqPc[t] # "done"} /\ sqSubs' = {}
    /\ UNCHANGED <<sqTick, sqQueue, sqBatch, sqPc, sqDeadline, sqAnswer, sqEmpty>>

SqCall(t) == SleepStart(t) \/ \E n \in {0, 1}, o \in SqTimeouts : PollSyscall(t, n, o)

\* A task that is in a call goes on.
SqStep(t) == SleepPoll(t) \/ SleepPending(t) \/ PollEnter(t) \/ PollLook(t) \/ PollDecide(t) \/ Resume(t)

SqNext == Tick \/ TakeExpired \/ WakeOne \/ Event \/ \E t \in SqTasks : SqCall(t) \/ SqStep(t)

SqSpec ==
    /\ SqInit /\ [][SqNext]_sqVars
    /\ \A t \in SqTasks : WF_sqVars(SqStep(t))
    /\ WF_sqVars(Tick)
    /\ WF_sqVars(TakeExpired)
    /\ WF_sqVars(WakeOne)

-----------------------------------------------------------------------------
\* A task that waits for its time has an entry in the queue with its deadline,
\* or its waker is being called or has been called: no sleeper is forgotten when
\* the time comes between its look at the clock and its entry, when the batch is
\* smaller than the entries that expire together, or when an older entry of the
\* same poll is woken first.
NoneForgotten ==
    \A t \in SqTasks :
        sqPc[t] = "wait" /\ sqDeadline[t] # Forever /\ t \notin sqWoken =>
            sqQueue[t] + sqBatch[t] > 0

\* Every sleeper and every poll with a time-out that was called has returned: with
\* the timer interrupt and the executor going on it comes to this, for good.
AllServed == \A t \in SqTasks : sqPc[t] \in {"start", "done"} \/ sqDeadline[t] = Forever

\* A sleeper that has returned has slept its time, and a poll of a descriptor that
\* has returned 0 has waited until its deadline (a poll of none waits for nothing).
NoneEarly ==
    \A t \in SqTasks :
        sqPc[t] = "done" /\ (t \in DOMAIN SqSleepers \/ (sqAnswer[t] = 0 /\ t \notin sqEmpty)) => sqDeadline[t] <= sqTick

-----------------------------------------------------------------------------
(***************************************************************************)
(* The order of the start: kernel_init of kernel/kernel/src/boot.rs, on the     *)
(* boot processor, with the other processors running tasks as soon as they are  *)
(* up and the tasks are there.  A step is what the boot processor does between   *)
(* two points where another processor could notice.                             *)
(***************************************************************************)
CONSTANTS
    KiMachines,     \* what the loader and the probed drivers provide
    KiAps           \* the other processors

VARIABLES
    kiMachine,  \* the machine
    kiPc,       \* the next step, or "panic"
    kiUp,       \* what has been set up
    kiSinks,    \* the logger's sinks, by name
    kiVts,      \* the virtual terminals have their framebuffer consoles
    kiDisks,    \* block devices left in the device registry
    kiMounts,   \* mount points
    kiDevs,     \* names in /dev
    kiTasks,    \* tasks that are spawned and not yet run
    kiRan       \* task -> what was there when it first ran, and where

kiVars == <<kiMachine, kiPc, kiUp, kiSinks, kiVts, kiDisks, kiMounts, kiDevs, kiTasks, kiRan>>

KiInit ==
    /\ kiMachine \in KiMachines
    /\ kiPc = "memory" /\ kiUp = {} /\ kiSinks = <<>> /\ kiVts = FALSE /\ kiDisks = {}
    /\ kiMounts = {} /\ kiDevs = {} /\ kiTasks = {} /\ kiRan = <<>>

\* take_framebuffer: virtio-gpu before bochs-vga; the registry keeps it.
KiFramebuffer == kiMachine.devices \cap {"virtio-gpu-0", "bochs-vga-0"} # {}

\* The processor, the direct map, the TLB callback, frames, page tables, the
\* guarded stack and the heap: nothing else runs yet.
KiMemory ==
    /\ kiPc = "memory" /\ kiPc' = "log"
    /\ kiUp' = kiUp \cup {"cpu", "hhdm", "tlb_flush", "pmm", "vmm", "syscall_stack", "heap"}
    /\ UNCHANGED <<kiMachine, kiSinks, kiVts, kiDisks, kiMounts, kiDevs, kiTasks, kiRan>>

\* The device registry and the logger: serial, and the loader's framebuffer if
\* there is one the early console can draw on.
KiLog ==
    /\ kiPc = "log" /\ kiPc' = "platform"
    /\ kiUp' = kiUp \cup {"registry"}
    /\ kiSinks' = IF kiMachine.screen THEN <<"serial", "framebuffer">> ELSE <<"serial">>
    /\ UNCHANGED <<kiMachine, kiVts, kiDisks, kiMounts, kiDevs, kiTasks, kiRan>>

\* platform_init probes the drivers.  With a framebuffer device every virtual
\* terminal gets a console on it, and the sink called "framebuffer" is replaced
\* by the one that writes to the active terminal.
KiPlatform ==
    /\ kiPc = "platform" /\ kiPc' = "processors"
    /\ kiUp' = kiUp \cup {"drivers"}
    /\ kiDisks' = kiMachine.devices \cap {"virtio-blk-0", "ahci-0"}
    /\ kiVts' = KiFramebuffer
    /\ kiSinks' = [i \in DOMAIN kiSinks |-> IF KiFramebuffer /\ kiSinks[i] = "framebuffer" THEN "vt" ELSE kiSinks[i]]
    /\ UNCHANGED <<kiMachine, kiMounts, kiDevs, kiTasks, kiRan>>

\* The wake-up interrupt and the other processors, then the first tasks; the
\* network task takes the first network device.  There must be an initrd.
KiProcessors ==
    /\ kiPc = "processors"
    /\ kiPc' = IF kiMachine.initrd = "none" THEN "panic" ELSE "mounts"
    /\ kiUp' = kiUp \cup {"processors"}
    /\ kiTasks' = {"heartbeat"} \cup IF "e1000e-0" \in kiMachine.devices THEN {"net-rx"} ELSE {}
    /\ UNCHANGED <<kiMachine, kiSinks, kiVts, kiDisks, kiMounts, kiDevs, kiRan>>

\* The root with the archive in it, /dev with its devices, /proc and /sys with the
\* PCI devices found earlier.
KiMount ==
    /\ kiPc = "mounts" /\ kiPc' = "disks"
    /\ kiMounts' = {"/", "/dev", "/proc", "/sys"}
    /\ kiUp' = kiUp \cup {"pci_in_sys"} \cup IF kiMachine.unpacker THEN {"unpacked"} ELSE {}
    /\ kiDevs' = {"console", "tty0", "tty1", "tty2", "tty3", "tty4", "tty5", "ptmx", "pts", "mouse", "compositor", "compositor_listen"}
                    \cup IF KiFramebuffer THEN {"fb0"} ELSE {}
    /\ UNCHANGED <<kiMachine, kiSinks, kiVts, kiDisks, kiTasks, kiRan>>

\* mount_block_device: the device goes to the first file system driver, which
\* keeps it also when it cannot mount it; the other drivers are not asked.
MountBlockDevice(disk, point) ==
    IF kiMachine.drivers # <<>> /\ disk \in Head(kiMachine.drivers) THEN {point} ELSE {}

\* The disks that were found leave the registry.
KiDisk ==
    /\ kiPc = "disks" /\ kiPc' = "last"
    /\ kiDisks' = kiDisks \ {"virtio-blk-0", "ahci-0"}
    /\ kiMounts' = kiMounts
          \cup (IF "virtio-blk-0" \in kiDisks THEN MountBlockDevice("virtio-blk-0", "/mnt") ELSE {})
          \cup (IF "ahci-0" \in kiDisks THEN MountBlockDevice("ahci-0", "/cdrom") ELSE {})
    /\ UNCHANGED <<kiMachine, kiUp, kiSinks, kiVts, kiDevs, kiTasks, kiRan>>

\* The keyboard's interrupt, the kernel's page table for the way back from a
\* process, and the pointers of the assembly stubs.
KiTraps ==
    /\ kiPc = "last" /\ kiPc' = "init"
    /\ kiUp' = kiUp \cup {"keyboard", "kernel_cr3", "pointers"}
    /\ UNCHANGED <<kiMachine, kiSinks, kiVts, kiDisks, kiMounts, kiDevs, kiTasks, kiRan>>

\* spawn_init: /bin/init and /dev/console must be there.
KiSpawn ==
    /\ kiPc = "init"
    /\ IF "unpacked" \in kiUp /\ kiMachine.initrd = "init" /\ "console" \in kiDevs
       THEN kiPc' = "enable" /\ kiTasks' = kiTasks \cup {"init"}
       ELSE kiPc' = "panic" /\ UNCHANGED kiTasks
    /\ UNCHANGED <<kiMachine, kiUp, kiSinks, kiVts, kiDisks, kiMounts, kiDevs, kiRan>>

\* Interrupts of the boot processor are enabled, and it enters its executor.
KiEnable ==
    /\ kiPc = "enable" /\ kiPc' = "run"
    /\ kiUp' = kiUp \cup {"interrupts"}
    /\ UNCHANGED <<kiMachine, kiSinks, kiVts, kiDisks, kiMounts, kiDevs, kiTasks, kiRan>>

\* A processor whose executor runs takes a task: the others steal from the boot
\* processor's queue while it is still starting.
KiRun(cpu) ==
    /\ IF cpu \in KiAps THEN "processors" \in kiUp /\ kiPc # "panic" ELSE kiPc = "run"
    /\ \E t \in kiTasks :
          /\ kiTasks' = kiTasks \ {t}
          /\ kiRan' = [x \in DOMAIN kiRan \cup {t} |->
                IF x = t THEN [cpu |-> cpu, up |-> kiUp, mounts |-> kiMounts, devs |-> kiDevs] ELSE kiRan[x]]
    /\ UNCHANGED <<kiMachine, kiPc, kiUp, kiSinks, kiVts, kiDisks, kiMounts, kiDevs>>

KiNext ==
    \/ KiMemory \/ KiLog \/ KiPlatform \/ KiProcessors \/ KiMount \/ KiDisk \/ KiTraps \/ KiSpawn \/ KiEnable
    \/ \E cpu \in KiAps \cup {"bsp"} : KiRun(cpu)

\* The first process finds a whole system on whichever processor it first runs,
\* also on one that steals it before the boot processor has enabled its
\* interrupts: files, devices, the keyboard, the page table a trap returns to.
\* And the screen has one writer: once the terminals have consoles on it, the
\* early framebuffer sink is gone.  When the start is over every disk has been
\* given away, and is mounted only if the first driver took it.
StartInOrder ==
    /\ "init" \in DOMAIN kiRan =>
          LET r == kiRan["init"] IN
          /\ {"unpacked", "keyboard", "kernel_cr3", "pci_in_sys"} \subseteq r.up
          /\ {"/", "/dev", "/proc", "/sys"} \subseteq r.mounts /\ "console" \in r.devs
          /\ r.cpu = "bsp" => {"pointers", "interrupts"} \subseteq r.up
    /\ ~(kiVts /\ "framebuffer" \in {kiSinks[i] : i \in DOMAIN kiSinks})
    /\ "fb0" \in kiDevs => kiVts
    /\ kiPc = "run" =>
          /\ kiDisks = {}
          /\ "/mnt" \in kiMounts <=>
                "virtio-blk-0" \in kiMachine.devices /\ kiMachine.drivers # <<>> /\ "virtio-blk-0" \in Head(kiMachine.drivers)
-----------------------------------------------------------------------------
(***************************************************************************)
(* The boot stub before kernel_init: kernel/boot/limine/src/main.rs builds the  *)
(* kernel's page tables out of the largest usable region, switches to them and   *)
(* hands the memory map on.  Addresses are counted in pages of 4 KiB; a table     *)
(* has LdFan entries instead of 512, so a huge page is LdFan pages.  The tables    *)
(* are the functions the mapper implements, with the set of tables they need.     *)
(***************************************************************************)
CONSTANTS
    LdMachines,     \* what the loader answers: memory map, image, screens, modules, processors
    LdFan,          \* entries of a table (512)
    LdHhdm,         \* hhdm_offset
    LdKernel,       \* kernel_virt_base
    LdLeast,        \* the size the largest usable region must have (1 MiB)
    LdMaxScreens    \* MAX_FRAMEBUFFERS

VARIABLES
    ldMachine,  \* the machine
    ldPc,       \* the next step, or "panic"
    ldRegion,   \* the region the tables are taken from, from its end downwards
    ldScreens,  \* framebuffers kept
    ldTables,   \* tables allocated: level and the part of the address they stand for
    ldMap,      \* page -> frame and flags
    ldAt,       \* where the loop over addresses is
    ldCpu,      \* control bits set
    ldInfo      \* BootInfoData, once built

ldVars == <<ldMachine, ldPc, ldRegion, ldScreens, ldTables, ldMap, ldAt, ldCpu, ldInfo>>

LdHuge(p) == p \div LdFan
LdDown(p) == LdHuge(p) * LdFan
LdUp(p) == LdHuge(p + LdFan - 1) * LdFan

LdInit ==
    /\ ldMachine \in LdMachines
    /\ ldPc = "region" /\ ldRegion = [base |-> 0, len |-> 0] /\ ldScreens = <<>>
    /\ ldTables = {} /\ ldMap = <<>> /\ ldAt = 0 /\ ldCpu = {} /\ ldInfo = <<>>

\* build_framebuffers keeps as many as fit.
LdScreens == IF Len(ldMachine.screens) <= LdMaxScreens THEN ldMachine.screens ELSE SubSeq(ldMachine.screens, 1, LdMaxScreens)

\* The largest usable region, the first of those of one size; the framebuffers
\* and the root table.
LdChoose ==
    LET map == ldMachine.map
        usable == {i \in DOMAIN map : map[i].kind = "usable"}
        largest == {i \in usable : \A j \in usable : map[j].len < map[i].len \/ (map[j].len = map[i].len /\ i <= j)}
    IN  /\ ldPc = "region"
        /\ \/ \E i \in largest :
                /\ map[i].len >= LdLeast
                /\ ldPc' = "hhdm" /\ ldRegion' = [base |-> map[i].base, len |-> map[i].len]
           \/ /\ \A i \in usable : map[i].len < LdLeast
              /\ ldPc' = "panic" /\ UNCHANGED ldRegion
        /\ ldScreens' = LdScreens
        /\ ldTables' = {<<4, 0>>}
        /\ UNCHANGED <<ldMachine, ldMap, ldAt, ldCpu, ldInfo>>

\* The tables above an entry of a level, and alloc_frame for those that are
\* missing; the region may not be large enough.
LdAbove(page, level) ==
    {<<3, page \div LdFan^3>>, <<2, page \div LdFan^2>>} \cup IF level = 1 THEN {<<1, page \div LdFan>>} ELSE {}

LdMapped(pages, frame, flags, level, next) ==
    LET tables == ldTables \cup UNION {LdAbove(p, level) : p \in pages}
        first == CHOOSE p \in pages : \A q \in pages : p <= q
    IN  /\ ldTables' = tables
        /\ IF Cardinality(tables) <= ldRegion.len
           THEN /\ ldMap' = [p \in DOMAIN ldMap \cup pages |-> IF p \in pages THEN [frame |-> frame + p - first, flags |-> flags] ELSE ldMap[p]]
                /\ next
           ELSE ldPc' = "panic" /\ UNCHANGED <<ldMap, ldAt, ldScreens>>
        /\ UNCHANGED <<ldMachine, ldRegion, ldCpu, ldInfo>>

LdGoTo(pc, at, screens) == ldPc' = pc /\ ldAt' = at /\ ldScreens' = screens

\* The end of the memory map, rounded up to huge pages.
LdMaxPhys == LdUp(CHOOSE e \in {r.base + r.len : r \in Range(ldMachine.map)} : \A r \in Range(ldMachine.map) : r.base + r.len <= e)

\* One turn of the loop over the direct map: the directory of the address is filled
\* from the address on, to its end or to the end of memory.
LdDirect ==
    LET dir == LdFan^2
        end == ((LdHhdm + ldAt) \div dir + 1) * dir - LdHhdm
        to == IF end < LdMaxPhys THEN end ELSE LdMaxPhys
    IN  /\ ldPc = "hhdm"
        /\ LdMapped((LdHhdm + ldAt)..(LdHhdm + to - 1), ldAt, {"W", "NX", "G"}, 2,
                    IF to < LdMaxPhys THEN LdGoTo("hhdm", to, ldScreens) ELSE LdGoTo("text", LdKernel + ldMachine.text.from \div 2, ldScreens))

\* map_kernel_range: the pages a section touches, one at a time, each with the
\* section's rights.  Sections are given in half pages.
LdRange(section, flags, next) ==
    LET end == LdKernel + (section.to + 1) \div 2
    IN  LdMapped({ldAt}, ldAt - LdKernel + ldMachine.image, flags, 1,
                 IF ldAt + 1 < end THEN LdGoTo(ldPc, ldAt + 1, ldScreens) ELSE next)

LdText ==
    ldPc = "text" /\ LdRange(ldMachine.text, {"G"}, LdGoTo("rodata", LdKernel + ldMachine.rodata.from \div 2, ldScreens))

LdRodata ==
    ldPc = "rodata" /\ LdRange(ldMachine.rodata, {"G", "NX"}, LdGoTo("data", LdKernel + ldMachine.data.from \div 2, ldScreens))

\* The loop over the framebuffers that are left.
LdScreensFrom(screens) ==
    IF screens = <<>> THEN LdGoTo("identity", 0, screens) ELSE LdGoTo("screens", LdDown(Head(screens).at), screens)

LdData == ldPc = "data" /\ LdRange(ldMachine.data, {"W", "G", "NX"}, LdScreensFrom(ldScreens))

\* A framebuffer's huge pages are mapped anew, write-combining, one at a time.
LdScreen ==
    LET end == LdUp(Head(ldScreens).at + Head(ldScreens).size)
    IN  /\ ldPc = "screens"
        /\ LdMapped((LdHhdm + ldAt)..(LdHhdm + ldAt + LdFan - 1), ldAt, {"W", "NX", "WC"}, 2,
                    IF ldAt + LdFan < end THEN LdGoTo("screens", ldAt + LdFan, ldScreens) ELSE LdScreensFrom(Tail(ldScreens)))

\* The first huge page, mapped to itself for the switch.
LdIdentity ==
    ldPc = "identity" /\ LdMapped(0..(LdFan - 1), 0, {"W"}, 2, LdGoTo("control", 0, ldScreens))

\* set_cpu_control_bits, and entry 4 of the PAT; only then the new root is loaded.
LdControl ==
    /\ ldPc = "control" /\ ldPc' = "switch"
    /\ ldCpu' = {"NXE", "PGE", "WP", "PAT4_WC"}
    /\ UNCHANGED <<ldMachine, ldRegion, ldScreens, ldTables, ldMap, ldAt, ldInfo>>

LdSwitch ==
    /\ ldPc = "switch" /\ ldPc' = "info"
    /\ ldCpu' = ldCpu \cup {"CR3"}
    /\ UNCHANGED <<ldMachine, ldRegion, ldScreens, ldTables, ldMap, ldAt, ldInfo>>

\* build_memory_map: the region the tables came from ends where they begin.
LdMemoryMap ==
    [i \in DOMAIN ldMachine.map |->
        LET r == ldMachine.map[i]
        IN  IF r.kind = "usable" /\ r.base = ldRegion.base /\ r.len = ldRegion.len
            THEN [r EXCEPT !.len = @ - Cardinality(ldTables)] ELSE r]

\* build_smp_cpus: all but the boot processor, in the loader's order.
LdCpus == SelectSeq(ldMachine.cpus, LAMBDA c : c # ldMachine.boot)

\* The module called initrd, the last one if there are several.
LdInitrd ==
    LET initrds == {i \in DOMAIN ldMachine.modules : ldMachine.modules[i].name = "initrd"}
    IN  {ldMachine.modules[i].at : i \in {j \in initrds : \A k \in initrds : k <= j}}

\* build_boot_info; kernel_init is entered.
LdBootInfo ==
    /\ ldPc = "info" /\ ldPc' = "kernel"
    /\ ldInfo' = [map |-> LdMemoryMap, cpus |-> LdCpus, root |-> ldRegion.base + ldRegion.len - 1, initrd |-> LdInitrd]
    /\ UNCHANGED <<ldMachine, ldRegion, ldScreens, ldTables, ldMap, ldAt, ldCpu>>

LdNext ==
    \/ LdChoose \/ LdDirect \/ LdText \/ LdRodata \/ LdData \/ LdScreen \/ LdIdentity
    \/ LdControl \/ LdSwitch \/ LdBootInfo

-----------------------------------------------------------------------------
\* The frames the tables lie in.
LdTableFrames == (ldRegion.base + ldRegion.len - Cardinality(ldTables))..(ldRegion.base + ldRegion.len - 1)

LdFrames(map, kinds) == UNION {r.base..(r.base + r.len - 1) : r \in {x \in Range(map) : x.kind \in kinds}}

LdSectionPages(section) == (section.from \div 2)..((section.to + 1) \div 2 - 1)

LdCombining(p) == \E s \in Range(LdScreens) : p \in LdDown(s.at)..(LdUp(s.at + s.size) - 1)

\* When the new tables are loaded every frame of the loader's memory map is in the
\* direct map, write-combining exactly where a framebuffer has its huge pages;
\* every page of the image has its own frame and its section's rights; no page but
\* those of the identity map is writable and executable; and the control bits that
\* give the entries their meaning are set.  The kernel is then told of exactly the
\* usable frames the tables do not lie in, and of every processor but its own.
HandedOver ==
    /\ "CR3" \in ldCpu =>
        /\ {"NXE", "WP", "PAT4_WC"} \subseteq ldCpu
        /\ LdTableFrames \subseteq ldRegion.base..(ldRegion.base + ldRegion.len - 1)
        /\ \A r \in Range(ldMachine.map) : \A p \in r.base..(r.base + r.len - 1) :
              /\ LdHhdm + p \in DOMAIN ldMap /\ ldMap[LdHhdm + p].frame = p
              /\ {"W", "NX"} \subseteq ldMap[LdHhdm + p].flags
              /\ ("WC" \in ldMap[LdHhdm + p].flags) = LdCombining(p)
        /\ \A s \in {"text", "rodata", "data"} : \A p \in LdSectionPages(ldMachine[s]) :
              /\ LdKernel + p \in DOMAIN ldMap /\ ldMap[LdKernel + p].frame = ldMachine.image + p
              /\ ("W" \in ldMap[LdKernel + p].flags) = (s = "data")
              /\ ("NX" \in ldMap[LdKernel + p].flags) = (s # "text")
        /\ \A p \in DOMAIN ldMap : {"W"} \subseteq ldMap[p].flags /\ "NX" \notin ldMap[p].flags => p < LdFan
    /\ ldPc = "kernel" =>
        /\ LdFrames(ldInfo.map, {"usable"}) = LdFrames(ldMachine.map, {"usable"}) \ LdTableFrames
        /\ ldInfo.root \in LdTableFrames
        /\ Range(ldInfo.cpus) = Range(ldMachine.cpus) \ {ldMachine.boot}
        /\ ldInfo.initrd \subseteq LdFrames(ldMachine.map, {"kernel"})

=============================================================================
