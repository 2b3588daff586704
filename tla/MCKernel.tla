------------------------------ MODULE MCKernel ------------------------------
(*****************************************************************************)
(* Small instances of the kernel's memory, file, device and start-up components*)
(* for TLC.  They do not interact here, so a behaviour exercises one of them,*)
(* chosen in the initial state.  The context switch and the region allocator *)
(* have variables of their own and rest when another one is chosen; the others*)
(* share v1 to v20, with 0 in those they have no use for.                    *)
(*****************************************************************************)
EXTENDS ContextSwitch, RegionAlloc, TLC

CONSTANTS main, worker, none

VARIABLES
    part,
    v1, v2, v3, v4, v5, v6, v7, v8, v9, v10, v11, v12, v13, v14, v15, v16, v17, v18, v19,
    v20

Both == {0, 1}

One == {0}

FirstCpu == [t \in Threads |-> 0]

AllOps == {"Wait", "Accept", "Sleep", "Futex", "Poll", "Io", "SigReturn", "ExecFails", "Exec",
           "Signal"}

WaitOps == {"Wait"}

SmallRegion == [base |-> 2, end |-> 16, cap |-> 2]

AbPad == [t |-> 0, l |-> 0, f |-> <<>>]
AbSx == INSTANCE SequencesExt
AbCells(es) == AbSx!FlattenSeq([i \in DOMAIN es |-> <<[t |-> es[i].t, l |-> es[i].l, f |-> es[i].f]>> \o [j \in 1..es[i].room - 1 |-> AbPad]])
AbEntry(t, l, f) == [t |-> t, l |-> l, f |-> f, room |-> l]
AbTable(sig, sum, es) == [signature |-> sig, sum |-> sum, source |-> es, cells |-> AbCells(es)]
AbLapic == AbEntry(0, 8, <<1>>)
AbIo(a, base) == AbEntry(1, 12, <<a, base>>)
AbIso(irq, gsi, flags) == AbEntry(2, 10, <<irq, gsi, flags>>)
AbMadts ==
    {<<AbLapic, AbIo(50, 0), x, y>> : x \in {AbIso(0, 2, 0), AbIso(3, 3, 15), AbEntry(5, 6, <<>>), AbEntry(1, 11, <<50, 0>>)}, y \in {AbIso(1, 1, 13), AbIso(3, 1, 15), AbIso(0, 5, 7), AbIso(3, 9, 0), AbEntry(9, 3, <<>>)}}
    \cup {<<AbIso(1, 4, f), AbIso(1, 2, 15), AbIo(60, 6), AbIo(50, 0)>> : f \in {0, 10, 15, 3}}
    \cup {<<AbIo(50, 0), AbIo(60, 6), AbIso(2, 0, 12)>>, <<AbLapic, AbLapic>>}
AbBadTail(es, l) == Append(es, [t |-> 2, l |-> l, f |-> <<2, 4, 15>>, room |-> 5])
AbRsdp(p, sig, s1, s2, rev) == [present |-> p, signature |-> sig, sum |-> s1, sum2 |-> s2, revision |-> rev, rsdt |-> 1, xsdt |-> 2]
AbGood == AbRsdp(TRUE, TRUE, TRUE, TRUE, 2)
AbMachineWith(rsdp, rsdt, xsdt, madt, sum, fadt) ==
    [rsdp |-> rsdp, bsp |-> 7, ioapics |-> (50 :> 5 @@ 60 :> 2),
     mem |-> (1 :> [signature |-> "RSDT", sum |-> FALSE, entries |-> rsdt] @@ 2 :> [signature |-> "XSDT", sum |-> TRUE, entries |-> xsdt]
              @@ 10 :> [AbTable("APIC", sum, SelectSeq(madt, LAMBDA e : e.room = e.l)) EXCEPT !.cells = AbCells(madt)]
              @@ 11 :> [signature |-> "HPET", sum |-> TRUE, address |-> 80] @@ 12 :> [signature |-> "MCFG", sum |-> TRUE, entries |-> <<90, 91>>]
              @@ 13 :> fadt @@ 14 :> [signature |-> "DSDT", sum |-> TRUE, aml |-> TRUE] @@ 15 :> [signature |-> "DSDT", sum |-> FALSE, aml |-> TRUE]
              @@ 16 :> [signature |-> "SSDT", sum |-> TRUE] @@ 17 :> [signature |-> "SSDT", sum |-> FALSE] @@ 18 :> [signature |-> "SSDT", sum |-> TRUE]
              @@ 19 :> AbTable("SRAT", TRUE, <<AbEntry(0, 16, <<1, 2>>), AbEntry(0, 16, <<0, 5>>), AbEntry(2, 24, <<1, 0>>), AbEntry(7, 4, <<1, 9>>)>>)
              @@ 20 :> AbTable("DMAR", TRUE, <<AbEntry(0, 16, <<>>), AbEntry(1, 24, <<>>), AbEntry(0, 4, <<>>), AbEntry(2, 8, <<>>)>>)
              @@ 21 :> AbTable("IVRS", TRUE, <<AbEntry(16, 20, <<>>), AbEntry(33, 4, <<>>), AbEntry(0, 3, <<>>), AbEntry(64, 20, <<>>)>>))]
AbFadt(d, x) == [signature |-> "FACP", sum |-> TRUE, dsdt |-> d, xdsdt |-> x]
AbFull == <<10, 11, 12, 13, 16, 17, 18, 19, 20, 21>>
AbAll ==
    {AbMachineWith(AbGood, <<>>, x, m, TRUE, AbFadt(15, 14)) : x \in {AbFull, <<16, 10, 13>>}, m \in AbMadts}
    \cup {AbMachineWith(AbGood, <<>>, AbFull, AbBadTail(<<AbIso(1, 1, 15), AbIo(50, 0)>>, l), TRUE, AbFadt(14, 0)) : l \in {0, 1, 6}}
    \cup {AbMachineWith(r, <<13, 10>>, AbFull, <<AbIo(50, 0)>>, TRUE, AbFadt(14, 0)) :
            r \in {AbRsdp(TRUE, TRUE, TRUE, FALSE, 0), AbRsdp(TRUE, TRUE, TRUE, FALSE, 2), AbRsdp(TRUE, TRUE, FALSE, TRUE, 2), AbRsdp(TRUE, FALSE, TRUE, TRUE, 2), AbRsdp(TRUE, TRUE, TRUE, TRUE, 1), AbRsdp(FALSE, TRUE, TRUE, TRUE, 2)}}
    \cup {AbMachineWith(AbGood, <<>>, x, <<AbIo(50, 0)>>, s, f) : x \in {AbFull, <<11, 16, 13>>}, s \in BOOLEAN, f \in {AbFadt(0, 0), AbFadt(14, 15), AbFadt(0, 14), AbFadt(14, 99)}}

PcF(class, secondary, multi) == [class |-> class, secondary |-> secondary, multi |-> multi]
PcSlots == {<<1, 0, 0>>, <<1, 1, 0>>, <<1, 1, 1>>, <<2, 0, 0>>}
PcMachines ==
    {[f \in {<<0, 0, 0>>, <<0, 1, 0>>} \cup slots \cup x |->
        CASE f = <<0, 0, 0>> -> PcF("host", 0, FALSE)
          [] f = <<0, 1, 0>> -> PcF("bridge", s, x # {})
          [] f = <<0, 1, 1>> -> PcF("disk", 0, FALSE)
          [] f = <<1, 1, 0>> -> PcF("bridge", IF <<2, 0, 0>> \in slots THEN 2 ELSE 0, m)
          [] OTHER -> PcF(k, 0, FALSE)] :
        slots \in {g \in SUBSET PcSlots : <<1, 1, 1>> \in g => <<1, 1, 0>> \in g}, s \in {0, 1}, m \in BOOLEAN,
        x \in {{}, {<<0, 1, 1>>}}, k \in {"disk", "net"}}

BdR(kind, base, size) == [kind |-> kind, base |-> base, size |-> size]
BdSingles == {<<BdR("none", 0, 0)>>, <<BdR("mem", 32, 16)>>, <<BdR("mem", 64, 64)>>, <<BdR("mem", 0, 128)>>,
              <<BdR("io", 8, 4)>>, <<BdR("io", 32, 32)>>}
BdPairs == {<<BdR("mem64", 32, 32), BdR("high", 3, 0)>>, <<BdR("mem64", 0, 0), BdR("high", 4, 2)>>,
            <<BdR("mem64", 64, 64), BdR("high", 0, 0)>>}
BdFunctions == {p \o q \o r : p \in BdSingles, q \in BdSingles, r \in BdSingles}
    \cup {p \o q : p \in BdSingles, q \in BdPairs} \cup {q \o p : p \in BdSingles, q \in BdPairs}

DpD(driver, msix, line, ports) == [driver |-> driver, msix |-> msix, line |-> line, ports |-> ports]
DpFuncs == {DpD("virtio-blk", TRUE, 1, 0), DpD("e1000e", FALSE, 1, 0), DpD("ahci", FALSE, 2, 2)}
DpLast == {DpD("virtio-net", TRUE, 2, 0), DpD("e1000e", TRUE, 1, 0)}
DpOver == {<<>>, 0 :> [gsi |-> 2, level |-> FALSE], 1 :> [gsi |-> 1, level |-> TRUE],
           (1 :> [gsi |-> 1, level |-> TRUE]) @@ (3 :> [gsi |-> 0, level |-> TRUE])}

KiAll ==
    [screen : BOOLEAN, unpacker : BOOLEAN, initrd : {"none", "other", "init"},
     devices : {{}, {"bochs-vga-0", "virtio-blk-0"}, {"virtio-gpu-0", "bochs-vga-0", "ahci-0"}, {"virtio-blk-0", "ahci-0", "e1000e-0"}},
     drivers : {<<>>, <<{"virtio-blk-0"}, {"ahci-0"}>>, <<{"ahci-0"}, {"virtio-blk-0"}>>}]

LdSec(from, to) == [from |-> from, to |-> to]
LdReg(base, len, kind) == [base |-> base, len |-> len, kind |-> kind]
\* The image lies in frames 4 to 9; the regions are in the loader's order.
LdMaps(n) ==
    {<<LdReg(0, 3, "usable"), LdReg(3, 1, "reserved"), LdReg(4, 8, "kernel"), LdReg(12, n, "usable"), LdReg(12 + n, l, k)>> :
        l \in {1, n}, k \in {"reserved", "usable"}}
LdAll ==
    [map : UNION {LdMaps(n) : n \in {3, 8, 11, 12, 17}}, image : {4},
     text : {LdSec(0, 3)}, rodata : {LdSec(4, 5)}, data : {LdSec(6, 10)},
     screens : {<<>>, << [at |-> 21, size |-> 6]>>, << [at |-> 40, size |-> 4], [at |-> 17, size |-> 2], [at |-> 60, size |-> 1]>>},
     modules : {<<>>, << [name |-> "initrd", at |-> 10], [name |-> "notes", at |-> 11]>>, << [name |-> "initrd", at |-> 11], [name |-> "initrd", at |-> 10]>>},
     cpus : {<<7>>, <<1, 7, 2>>}, boot : {7}]

IlPh(load, flags, off, vaddr, filesz, memsz) ==
    [load |-> load, flags |-> flags, off |-> off, vaddr |-> vaddr, filesz |-> filesz, memsz |-> memsz]
IlText == IlPh(TRUE, {"X"}, 8, 4, 6, 6)
IlSym(v, d) == [value |-> v, defined |-> d]
IlRela(o, t, s, a) == [offset |-> o, type |-> t, sym |-> s, addend |-> a]
IlFile(ph, sh) ==
    [size |-> 24, magic |-> TRUE, script |-> FALSE, class |-> 64, little |-> TRUE, type |-> "EXEC", machine |-> "x86_64",
     entry |-> 4, phoff |-> 2, phent |-> 1, ph |-> ph, shoff |-> 20, shent |-> 1, sh |-> sh]
IlPie(ph, relas) ==
    [IlFile(ph, <<[type |-> "RELA", off |-> 10, size |-> Len(relas), entries |-> relas],
                  [type |-> "SYMTAB", off |-> 12, size |-> 3, entries |-> <<IlSym(0, FALSE), IlSym(5, TRUE), IlSym(6, FALSE)>>]>>)
     EXCEPT !.type = "DYN"]
IlOrders == {<<1, 2, 3, 4, 5, 6, 7>>, <<7, 5, 6, 3, 4, 1, 2>>, <<2, 4, 6, 8, 1, 3, 5>>}
IlAligned ==
    {IlFile(<<IlText, IlPh(FALSE, {}, 0, 0, 9, 9), IlPh(TRUE, {"W"}, 15, 12, f, m)>>, <<>>) : f \in {0, 3, 5}, m \in {5, 6}}
    \cup {IlFile(<<IlText, IlPh(TRUE, {"W"}, 21, 12, 5, 7)>>, <<>>), IlFile(<<IlText, IlPh(TRUE, {"W"}, 15, 13, 3, 5)>>, <<>>)}
IlPies ==
    {IlPie(<<IlText, IlPh(TRUE, {"W"}, 15, 12, 4, 8)>>, <<IlRela(12, t, s, a), IlRela(16, u, 1, 3)>>) :
        t \in {"64", "PC32", "GLOB_DAT", "RELATIVE", "32", "32S", "COPY"}, u \in {"64", "PLT32", "32"}, s \in 0..3, a \in {-7, 2, 20}}
IlBroken ==
    LET g == IlFile(<<IlText>>, <<>>) IN
    {[g EXCEPT !.size = 1], [g EXCEPT !.magic = FALSE], [g EXCEPT !.magic = FALSE, !.script = TRUE], [g EXCEPT !.class = 32],
     [g EXCEPT !.little = FALSE], [g EXCEPT !.type = "CORE"], [g EXCEPT !.machine = "arm"], [g EXCEPT !.phoff = 24],
     [g EXCEPT !.phent = 0], [g EXCEPT !.type = "REL"], [g EXCEPT !.sh = <<[type |-> "RELA", off |-> 30, size |-> 1, entries |-> <<>>]>>, !.shoff = 24],
     IlFile(<<IlText, IlText, IlText, IlText>>, <<>>), IlFile(<<IlText, IlText>>, <<>>),
     [IlPie(<<IlText>>, <<>>) EXCEPT !.sh[1].off = 24, !.sh[1].size = 1], IlPie(<<IlText>>, <<IlRela(40, "64", 1, 0)>>)}
IlSkewed == {IlFile(<<IlText, IlPh(TRUE, {"W"}, 15, 13, f, 9)>>, <<>>) : f \in {2, 4, 5, 8}}
IlAll ==
    {[file |-> f, order |-> o] : f \in IlAligned \cup IlSkewed, o \in IlOrders}
    \cup {[file |-> f, order |-> <<2, 4, 6, 8, 1, 3, 5>>] : f \in IlPies}
    \cup {[file |-> f, order |-> <<1, 2, 3>>] : f \in IlBroken}

VtAbs(names) == [abs |-> TRUE, names |-> names]
VtRel(names) == [abs |-> FALSE, names |-> names]
VtDo(op, path) == [op |-> op, path |-> path, target |-> VtAbs(<<"dev", "null">>), base |-> <<"n", 0>>]

FcAll ==
    {[cpus |-> {1}, ops |-> {"print", "control", "csi"}, write |-> 2, switch |-> 1],
     [cpus |-> {1, 2}, ops |-> {"print"}, write |-> 2, switch |-> 2]}

InKey == {<<"E0", "make">>, <<"up", "make">>, <<"up", "break">>}
InSent == [kind \in {"serial", "keyboard", "mouse"} |->
    CASE kind = "serial" -> {<<"a", "b", "a", "c">>}
      [] kind = "keyboard" -> {<<a, b, c, d>> : a \in InKey, b \in InKey \ {<<"E0", "make">>}, c \in InKey, d \in InKey \ {<<"E0", "make">>}}
      [] OTHER -> {<<s, x, 3, t, 0, y>> : s \in {0, 16, 48}, t \in {0, 32}, x \in {5}, y \in {0, 255}}]

U(s, n) == [start |-> s, size |-> n, usable |-> TRUE]
X(s, n) == [start |-> s, size |-> n, usable |-> FALSE]

Boot == INSTANCE KernelStart WITH
    abMachine <- v1, abPc <- v2, abRoot <- v3, abMadt <- v4, abHpet <- v5, abEcam <- v6,
    abReport <- v7, abWalked <- v8, abPic <- v9, abNext <- v10, abPins <- v11,
    abPlatform <- v12, abTimer <- v13, abUnmasked <- v14, sqTick <- v1, sqQueue <- v2,
    sqBatch <- v3, sqPc <- v4, sqDeadline <- v5, sqWoken <- v6, sqReady <- v7,
    sqSubs <- v8, sqAnswer <- v9, sqLeft <- v10, sqEmpty <- v11, rcAt <- v1, rcUnix <- v2, rcMode <- v3,
    rcUip <- v4, rcCalm <- v5, rcReg <- v6, rcPrev <- v7, rcFrom <- v8, rcResult <- v9,
    rcLeft <- v10, abBsp <- v1, abNr <- v2, abCr3 <- v3, abParked <- v4, abTable <- v5,
    abApicIds <- v6, abRelease <- v7, abReady <- v8, abCount <- v9, abLate <- v10,
    abAp <- v11, abHas <- v12, pcTop <- v1, pcPhase <- v2, pcRoot <- v3, pcStack <- v4,
    pcList <- v5, pcProbes <- v6, bdDecl <- v1, bdReg <- v2, bdI <- v3, bdPc <- v4,
    bdOriginal <- v5, bdSizing <- v6, bdOriginalHigh <- v7, bdSizingHigh <- v8,
    bdBars <- v9, dpOver <- v1, dpDevs <- v2, dpPins <- v3, dpHandlers <- v4, dpMsix <- v5,
    dpEntry <- v6, dpAt <- v7, dpPc <- v8, dpIrq <- v9, dpIndex <- v10, dpRegistry <- v11,
    kiMachine <- v1, kiPc <- v2, kiUp <- v3, kiSinks <- v4, kiVts <- v5, kiDisks <- v6,
    kiMounts <- v7, kiDevs <- v8, kiTasks <- v9, kiRan <- v10, LdMachines <- LdAll, LdFan <- 4, LdHhdm <- 64, LdKernel <- 192, LdLeast <- 4, LdMaxScreens <- 2,
    ldMachine <- v1, ldPc <- v2, ldRegion <- v3, ldScreens <- v4, ldTables <- v5, ldMap <- v6, ldAt <- v7, ldCpu <- v8, ldInfo <- v9,
    KiMachines <- KiAll,
    KiAps <- {"ap1"},
    AbMachines <- AbAll, AbElapsed <- {3, 57}, AbIsaIrqs <- 4, AbMaxUnmask <- 2,
    WakeBatchSize <- 1, SqSleepers <- [t \in {"s"} |-> 1], SqPollers <- {"p"},
    SqTimeouts <- {0, 1, 99}, Forever <- 99, SqMaxTick <- 1, SqEvents <- 2,
    RcAnchors <- {[at |-> <<1970, 1, 1, 9, 9, 9>>, unix |-> 32949], [at |-> <<1999, 12, 31, 23, 59, 59>>, unix |-> 946684799], [at |-> <<2000, 2, 29, 11, 59, 59>>, unix |-> 951825599], [at |-> <<2024, 2, 28, 23, 59, 59>>, unix |-> 1709164799], [at |-> <<2026, 2, 28, 12, 59, 59>>, unix |-> 1772283599]},
    RcTicks <- 2, SmpCpus <- <<2, 1>>, PcDevices <- 1, PcFunctions <- 1,
    PcTopologies <- PcMachines,
    PcDrivers <- <<<<"disk", "disk">>, <<"net">>, <<"bridge", "net">>>>, BarBits <- 8,
    BarRegs <- 3, BarDeclared <- BdFunctions, DpIsaIrqs <- 0..3, DynVectors <- {200, 201},
    DpOverrides <- DpOver,
    DpMachines <- {<<a, b, c>> : a \in DpFuncs, b \in DpFuncs, c \in DpLast}

Dev == INSTANCE Devices WITH
    gpRam <- v1, gpWanted <- v2, gpHost <- v3, gpBuf <- v4, gpLock <- v5, gpPc <- v6,
    gpCmd <- v7, gpShown <- v8, gpLeft <- v9, gpProbe <- v10, gpDisplay <- v11, vqNext <- v1, vqMore <- v2, vqAddr <- v3,
    vqFreeHead <- v4, vqNumFree <- v5, vqLastUsed <- v6, vqAvailIdx <- v7, vqAvail <- v8,
    vqUsed <- v9, vqUsedIdx <- v10, vqDevIdx <- v11, vqTaken <- v12, vqOwner <- v13,
    vqStatus <- v14, vqPc <- v15, vqFrame <- v16, vqWaiters <- v17, vqLeft <- v18,
    ahInUse <- v1, ahTable <- v2, ahCi <- v3, ahIs <- v4, ahPc <- v5, ahSeen <- v6,
    ahSlot <- v7, ahFrame <- v8, ahOwner <- v9, ahWaiters <- v10, ahResult <- v11,
    ahDone <- v12, ahTwice <- v13, ahStale <- v14, ahLeft <- v15, enRx <- v1, enBad <- v2, enRxTail <- v3, enRxHead <- v4,
    enSent <- v5, enGot <- v6, enTx <- v7, enTxTail <- v8, enTxHead <- v9, enPc <- v10,
    enIdx <- v11, enFrame <- v12, enOwner <- v13, enWaiters <- v14, enRecvPc <- v15,
    enLeft <- v16, nrEntries <- v1, nrNext <- v2, nrFrame <- v3, nrReply <- v4,
    nrHeard <- v5, nrLeft <- v6, GpWidth <- 3, GpHeight <- 2, GpColors <- {1},
    GpMaxSpan <- 2, GpCpus <- {1, 2}, GpCalls <- 2, GpArgs <- {0, 1, 3}, QueueSize <- 5,
    IndexModulus <- 10, ChainLen <- 2, VqTasks <- {1, 2}, VqFrames <- {1, 2},
    VqRequests <- 4, AhTasks <- {1, 2}, AhSlots <- {0, 1}, AhFrames <- {1, 2},
    AhEndings <- {"DHRS", "TFES"}, AhReads <- 3, RxRingSize <- 3, TxRingSize <- 2,
    EnSenders <- {1, 2}, EnFrames <- {1, 2}, EnPackets <- 4, EnSends <- 2, NrByte <- 4,
    NrIps <- {1, 2, 3}, NrMacs <- {1, 2}, NrSize <- 2,
    NrIds <- {<<0, 1, 2, 3>>, <<3, 3, 3, 3>>}, NrData <- {<<>>, <<3>>, <<3, 2, 3>>},
    NrFrames <- 3

Cons == INSTANCE Console WITH
    fcCon <- v1, fcActive <- v2, fcVt <- v3, fcScreen <- v4, fcHeld <- v5, fcPc <- v6,
    fcOn <- v7, fcSaw <- v8, fcOld <- v9, fcUser <- v10, fcLate <- v11, fcCrossed <- v12, fcPanic <- v13, fcLeft <- v14, anState <- v1, anParams <- v2,
    anCount <- v3, anStarted <- v4, anOut <- v5, anBody <- v6, msBit3 <- v1, msQueue <- v2,
    msPhase <- v3, msBytes <- v4, msEvents <- v5, msWaker <- v6, msIrq <- v7, msTask <- v8,
    msPacket <- v9, msGot <- v10, msBoot <- v11, msKey <- v12, kbFault <- v1,
    kbPort1 <- v2, kbPort2 <- v3, kbIrqs <- v4, kbOut <- v5, kbPc <- v6, kbResult <- v7,
    kbProbe <- v8, kbKeysLeft <- v9, inKind <- v1, inLeft <- v2, inFifo <- v3,
    inLost <- v4, inLine <- v5, inWaiting <- v6, inPc <- v7, inExtended <- v8,
    inHeld <- v9, inTaken <- v10, inEvents <- v11, FcVts <- {1, 2}, FcCpus <- {1, 2},
    FcCols <- 2, FcRows <- 2, FcWord <- 3, FcWords <- 2,
    FcSgr <- {0, 1, 7, 31, 39, 41, 49, 91, 101}, FcPlans <- FcAll,
    AnMaxParams <- 2, AnMaxValue <- 15, AnLength <- 5, EventBufSize <- 1, MsPackets <- 3,
    KbProbes <- 2, KbKeys <- 2, InFifo <- 2, InStreams <- InSent, InChecks <- BOOLEAN

Start == INSTANCE ProgramStart WITH
    ilFile <- v1, ilFree <- v2, ilImage <- v3, ilPages <- v4, ilRelas <- v5, ilMap <- v6,
    ilPhys <- v7, ilPc <- v8, ilResult <- v9, lnEnv <- v1, lnArgs <- v2, lnFds <- v3,
    lnWant <- v4, lnWantArgs <- v5, lnWantFds <- v6, lnInfo <- v7, lnStack <- v8,
    lnRsp <- v9, lnPc <- v10, lnLeft <- v11, IlCases <- IlAll, IlPage <- 4, IlFrames <- 9,
    IlMaxSegments <- 3, IlPieBase <- 8, IlStackTop <- 16, IlStackPages <- 1,
    IlTrampoline <- 12, Mod64 <- 64, Mod32 <- 16, EhdrSize <- 2, PhdrSize <- 1,
    ShdrSize <- 1, EntSize <- 1, LnKeys <- <<"A", "B">>, LnValues <- {<<>>, <<"=", "x">>},
    LnArgvs <- {<<>>, <<<<"p">>, <<>>, <<"q", "r">>, <<"s">>>>, <<<<"p", "p", "p", "p", "p">>>>},
    LnMaps <- {<<>>, <<[child |-> 0, parent |-> 3], [child |-> 3, parent |-> 0], [child |-> 1, parent |-> 7]>>},
    LnMaxArgs <- 3, LnMaxEnvs <- 2, LnArgBytes <- 4, LnEnvBytes <- 8, LnMaxMap <- 3,
    LnTop <- 32, LnBottom <- 0, LnCalls <- 3

Files == INSTANCE FileSystem WITH
    ftFds <- v1, ftNext <- v2, ftUsed <- v3, ftIds <- v4, ftLate <- v5, ftSize <- v6,
    ftCall <- v7, ftLeft <- v8, vtNodes <- v1, vtMounts <- v2, vtAlive <- v3, vtCall <- v4,
    vtLog <- v5, vtLeft <- v6, FtThreads <- {"t1", "t2"},
    FtInodes <- [i \in {"reader", "writer", "f"} |-> IF i = "f" THEN "File" ELSE "CharDevice"],
    FtModes <- {{"R", "W"}}, FtDeltas <- {-1}, FtFds <- 0..2, FtMaxSize <- 2, FtCalls <- 3,
    MaxSymlinkDepth <- 2, VtDevices <- << <<"null">>, <<"dri", "card0">> >>,
    VtLinks <- << <<"loop", VtAbs(<<"loop">>)>>, <<"twice", VtAbs(<<"loop", "null">>)>>, <<"rel", VtRel(<<"d">>)>> >>,
    VtThreads <- [t \in {"t1", "t2"} |-> "7"], VtProcs <- {"7", "8"},
    VtExe <- VtAbs(<<"loop">>),
    VtCalls <- {VtDo("mkdir", VtAbs(<<"d">>)), VtDo("mkdir", VtAbs(<<"d", "dev">>)), VtDo("symlink", VtAbs(<<"d", "x">>)), VtDo("unlink", VtAbs(<<"d">>)),
   VtDo("mkdir", VtAbs(<<"dev", "x">>)), VtDo("unlink", VtAbs(<<"dev", "null">>)), VtDo("symlink", VtAbs(<<"sys", "x">>)), VtDo("open", VtAbs(<<"d", "x", "">>)),
   VtDo("open", VtAbs(<<"twice", "null">>)), VtDo("fstatat", VtAbs(<<"proc", "8", "exe">>)), VtDo("fstatat", VtAbs(<<"sys", "class", "drm", "card0", "vendor">>)),
   [VtDo("fstatat", VtRel(<<"dri", "card0">>)) EXCEPT !.base = <<"n", 2>>], VtDo("open", VtRel(<<"d">>)), VtDo("readlink", VtAbs(<<"proc", "self">>)),
   VtDo("rename", VtAbs(<<"d", "x">>)), VtDo("link", VtAbs(<<"d", "y">>)), VtDo("open", VtAbs(<<"rel">>)), VtDo("open", VtAbs(<<"proc", "self", "status">>)), VtDo("unlink", VtAbs(<<"d", "">>)), VtDo("mkdir", VtRel(<<"d">>)),
   VtDo("readdir", VtAbs(<<"proc", "8">>)), VtDo("write", VtAbs(<<"sys", "class">>)), VtDo("truncate", VtAbs(<<"d">>)), VtDo("read", VtAbs(<<"proc", "meminfo">>))},
    VtWidth <- 5, VtBudget <- 2

Heap == INSTANCE KernelHeap WITH
    hpPoison <- v1, hpFree <- v2, hpLive <- v3, hpBytes <- v4, hpEnd <- v5, hpNext <- v6,
    hpFrames <- v7, hpPc <- v8, hpWant <- v9, hpGrown <- v10, hpLeft <- v11,
    PageSize <- 16, AddressWord <- 4096, MinBlock <- 4, BlockAlign <- 2, RedZone <- 2, MinGrow <- 16,
    HeapRegion <- [base |-> 16, end |-> 96], HeapSize <- 16, HeapCpus <- {1, 2},
    HeapLayouts <- {[size |-> 1, align |-> 1], [size |-> 5, align |-> 2], [size |-> 6, align |-> 4], [size |-> 12, align |-> 8]},
    HeapFrames <- 3, HeapCalls <- 3

Mem == INSTANCE KernelMemory WITH
    fbMap <- v1, fbBits <- v2, fbTotal <- v3, fbCount <- v4, fbHint <- v5, fbOwned <- v6,
    fbZone <- v7, fbBlocks <- v8, fbExact <- v9, fbLeft <- v10, kvTable <- v1,
    kvStacks <- v2, kvMmio <- v3, kvFree <- v4, kvLive <- v5, kvOpen <- v6, kvStray <- v7,
    kvLeft <- v8, ptMem <- v1, ptView <- v2, ptAgrees <- v3, ptLeft <- v4, umHome <- v1,
    umTable <- v2, umAlloc <- v3, umMaps <- v4, umBreak <- v5, umFree <- v6, umShm <- v7,
    umFds <- v8, umPc <- v9, umCall <- v10, umLeaked <- v11, umLeft <- v12, FbWord <- 3,
    FbWordsPerFrame <- 2,
    FbMemoryMaps <- {<<U(0, 1), X(1, 1), U(2, 6)>>, <<X(0, 2), U(2, 2), U(4, 7)>>, <<X(0, 3)>>},
    FbCounts <- {0, 1, 2, 4}, FbFrameSize <- 4, FbClasses <- {2, 4},
    FbLayouts <- {[size |-> 1, align |-> 2], [size |-> 3, align |-> 1], [size |-> 5, align |-> 1]},
    FbCalls <- 5, PageSize <- 2, AddressWord <- 4096, KvStacks <- [base |-> 2, end |-> 16, cap |-> 1],
    KvMmio <- [base |-> 20, end |-> 30, cap |-> 1], KvStackPages <- 2, KvFrames <- 1..5,
    KvWindows <- {[phys |-> 20, size |-> 2, cache |-> "uc"], [phys |-> 24, size |-> 3, cache |-> "wc"]},
    KvOps <- 7, PtPages <- {0, 1, 12}, PtFrames <- {4, 8},
    PtFlags <- {{"WRITABLE"}, {"USER"}}, PtOps <- 4, UmThreads <- {1, 2},
    UmHomes <- {<<1, 1>>, <<1, 2>>}, UmProcs <- {1, 2}, UmFrames <- 1..3,
    UmDevice <- <<11, 12>>, UmArea <- [base |-> 8, end |-> 16, cap |-> 1],
    UmLengths <- {2, 3}, UmBreaks <- {1, 4}, UmObjects <- {"a"}, UmCalls <- 3

\* The variables from v_n on are not used, or left alone.
Zero20 == v20 = 0

Zero19 == v19 = 0 /\ Zero20

Zero18 == v18 = 0 /\ Zero19

Zero17 == v17 = 0 /\ Zero18

Zero16 == v16 = 0 /\ Zero17

Zero15 == v15 = 0 /\ Zero16

Zero14 == v14 = 0 /\ Zero15

Zero13 == v13 = 0 /\ Zero14

Zero12 == v12 = 0 /\ Zero13

Zero11 == v11 = 0 /\ Zero12

Zero10 == v10 = 0 /\ Zero11

Zero9 == v9 = 0 /\ Zero10

Zero8 == v8 = 0 /\ Zero9

Zero7 == v7 = 0 /\ Zero8

Zero6 == v6 = 0 /\ Zero7

Zero5 == v5 = 0 /\ Zero6

Zero4 == v4 = 0 /\ Zero5

Zero3 == v3 = 0 /\ Zero4

Zero2 == v2 = 0 /\ Zero3

Zero1 == v1 = 0 /\ Zero2

Keep20 == UNCHANGED v20

Keep19 == UNCHANGED v19 /\ Keep20

Keep18 == UNCHANGED v18 /\ Keep19

Keep17 == UNCHANGED v17 /\ Keep18

Keep16 == UNCHANGED v16 /\ Keep17

Keep15 == UNCHANGED v15 /\ Keep16

Keep14 == UNCHANGED v14 /\ Keep15

Keep13 == UNCHANGED v13 /\ Keep14

Keep12 == UNCHANGED v12 /\ Keep13

Keep11 == UNCHANGED v11 /\ Keep12

Keep10 == UNCHANGED v10 /\ Keep11

Keep9 == UNCHANGED v9 /\ Keep10

Keep8 == UNCHANGED v8 /\ Keep9

Keep7 == UNCHANGED v7 /\ Keep8

Keep6 == UNCHANGED v6 /\ Keep7

Keep5 == UNCHANGED v5 /\ Keep6

Keep4 == UNCHANGED v4 /\ Keep5

Keep3 == UNCHANGED v3 /\ Keep4

Keep2 == UNCHANGED v2 /\ Keep3

Keep1 == UNCHANGED v1 /\ Keep2

KernelVars ==
    <<vars, raVars, part,
      v1, v2, v3, v4, v5, v6, v7, v8, v9, v10, v11, v12, v13, v14, v15, v16, v17, v18, v19,
      v20>>

KernelInit ==
    /\ Init /\ RaInit
    /\ \/ part \in {"context", "regions"} /\ Zero1
       \/ part = "acpi" /\ Boot!AbInit /\ Zero15
       \/ part = "sleep" /\ Boot!SqInit /\ Zero12
       \/ part = "rtc" /\ Boot!RcInit /\ Zero11
       \/ part = "smp" /\ Boot!ApInit /\ Zero13
       \/ part = "gpu" /\ Dev!GpInit /\ Zero12
       \/ part = "fbcon" /\ Cons!FcInit /\ Zero15
       \/ part = "ansi" /\ Cons!AnInit /\ Zero7
       \/ part = "virtqueue" /\ Dev!VqInit /\ Zero19
       \/ part = "ahci" /\ Dev!AhInit /\ Zero16
       \/ part = "e1000e" /\ Dev!EnInit /\ Zero17
       \/ part = "pciscan" /\ Boot!PcInit /\ Zero7
       \/ part = "bars" /\ Boot!BdInit /\ Zero10
       \/ part = "probe" /\ Boot!DpInit /\ Zero12
       \/ part = "kinit" /\ Boot!KiInit /\ Zero11
       \/ part = "loader" /\ Boot!LdInit /\ Zero10
       \/ part = "image" /\ Start!IlInit /\ Zero10
       \/ part = "launch" /\ Start!LnInit /\ Zero12
       \/ part = "fdtable" /\ Files!FtInit /\ Zero9
       \/ part = "vfs" /\ Files!VtInit /\ Zero7
       \/ part = "mouse" /\ Cons!MsInit /\ Zero13
       \/ part = "i8042" /\ Cons!KbInit /\ Zero10
       \/ part = "input" /\ Cons!InInit /\ Zero12
       \/ part = "heap" /\ Heap!HpInit /\ Zero12
       \/ part = "frames" /\ Mem!FbInit /\ Zero11
       \/ part = "vmm" /\ Mem!KvInit /\ Zero9
       \/ part = "paging" /\ Mem!PtInit /\ Zero5
       \/ part = "usermem" /\ Mem!UmInit /\ Zero13
       \/ part = "net" /\ Dev!NrInit /\ Zero7

KernelNext ==
    \/ part = "context" /\ Next /\ UNCHANGED <<raVars, part>> /\ Keep1
    \/ part = "regions" /\ RaNext /\ UNCHANGED <<vars, part>> /\ Keep1
    \/ part = "acpi" /\ Boot!AbNext /\ UNCHANGED <<vars, raVars, part>> /\ Keep15
    \/ part = "sleep" /\ Boot!SqNext /\ UNCHANGED <<vars, raVars, part>> /\ Keep12
    \/ part = "rtc" /\ Boot!RcNext /\ UNCHANGED <<vars, raVars, part>> /\ Keep11
    \/ part = "smp" /\ Boot!ApNext /\ UNCHANGED <<vars, raVars, part>> /\ Keep13
    \/ part = "gpu" /\ Dev!GpNext /\ UNCHANGED <<vars, raVars, part>> /\ Keep12
    \/ part = "fbcon" /\ Cons!FcNext /\ UNCHANGED <<vars, raVars, part>> /\ Keep15
    \/ part = "ansi" /\ Cons!AnNext /\ UNCHANGED <<vars, raVars, part>> /\ Keep7
    \/ part = "virtqueue" /\ Dev!VqNext /\ UNCHANGED <<vars, raVars, part>> /\ Keep19
    \/ part = "ahci" /\ Dev!AhNext /\ UNCHANGED <<vars, raVars, part>> /\ Keep16
    \/ part = "e1000e" /\ Dev!EnNext /\ UNCHANGED <<vars, raVars, part>> /\ Keep17
    \/ part = "pciscan" /\ Boot!PcNext /\ UNCHANGED <<vars, raVars, part>> /\ Keep7
    \/ part = "bars" /\ Boot!BdNext /\ UNCHANGED <<vars, raVars, part>> /\ Keep10
    \/ part = "probe" /\ Boot!DpNext /\ UNCHANGED <<vars, raVars, part>> /\ Keep12
    \/ part = "kinit" /\ Boot!KiNext /\ UNCHANGED <<vars, raVars, part>> /\ Keep11
    \/ part = "loader" /\ Boot!LdNext /\ UNCHANGED <<vars, raVars, part>> /\ Keep10
    \/ part = "image" /\ Start!IlNext /\ UNCHANGED <<vars, raVars, part>> /\ Keep10
    \/ part = "launch" /\ Start!LnNext /\ UNCHANGED <<vars, raVars, part>> /\ Keep12
    \/ part = "fdtable" /\ Files!FtNext /\ UNCHANGED <<vars, raVars, part>> /\ Keep9
    \/ part = "vfs" /\ Files!VtNext /\ UNCHANGED <<vars, raVars, part>> /\ Keep7
    \/ part = "mouse" /\ Cons!MsNext /\ UNCHANGED <<vars, raVars, part>> /\ Keep13
    \/ part = "i8042" /\ Cons!KbNext /\ UNCHANGED <<vars, raVars, part>> /\ Keep10
    \/ part = "input" /\ Cons!InNext /\ UNCHANGED <<vars, raVars, part>> /\ Keep12
    \/ part = "heap" /\ Heap!HpNext /\ UNCHANGED <<vars, raVars, part>> /\ Keep12
    \/ part = "frames" /\ Mem!FbNext /\ UNCHANGED <<vars, raVars, part>> /\ Keep11
    \/ part = "vmm" /\ Mem!KvNext /\ UNCHANGED <<vars, raVars, part>> /\ Keep9
    \/ part = "paging" /\ Mem!PtNext /\ UNCHANGED <<vars, raVars, part>> /\ Keep5
    \/ part = "usermem" /\ Mem!UmNext /\ UNCHANGED <<vars, raVars, part>> /\ Keep13
    \/ part = "net" /\ Dev!NrNext /\ UNCHANGED <<vars, raVars, part>> /\ Keep7

KernelSpec ==
    /\ KernelInit /\ [][KernelNext]_KernelVars
    /\ \A t \in {"s", "p"} : WF_KernelVars(part = "sleep" /\ Boot!SqStep(t) /\ UNCHANGED <<vars, raVars, part>> /\ Keep12)
    /\ WF_KernelVars(part = "sleep" /\ Boot!Tick /\ UNCHANGED <<vars, raVars, part>> /\ Keep12)
    /\ WF_KernelVars(part = "sleep" /\ Boot!TakeExpired /\ UNCHANGED <<vars, raVars, part>> /\ Keep12)
    /\ WF_KernelVars(part = "sleep" /\ Boot!WakeOne /\ UNCHANGED <<vars, raVars, part>> /\ Keep12)
    /\ WF_KernelVars(part = "smp" /\ Boot!Bsp /\ UNCHANGED <<vars, raVars, part>> /\ Keep13)
    /\ \A l \in {1, 2} : WF_KernelVars(part = "smp" /\ Boot!ApStep(l) /\ UNCHANGED <<vars, raVars, part>> /\ Keep13)

ContextSpec == part = "context" /\ KernelInit /\ [][KernelNext]_KernelVars

-----------------------------------------------------------------------------
(* The properties of the components, where they are chosen. *)

\* What one party owns nobody else has: heap blocks and frames, the windows of kernel memory,
\* the frames of user mappings, descriptors and command slots shared with a device, the
\* per-CPU area of a processor that starts.
OwnedOnce ==
    CASE part = "smp" -> Boot!ApsPrepared /\ Boot!CountMeansIds
      [] part = "virtqueue" -> Dev!RingSound
      [] part = "ahci" -> Dev!SlotsExclusive /\ Dev!ReadsCarriedOut
      [] part = "e1000e" -> Dev!SentFromOwnFrame
      [] part = "image" -> Start!OthersUntouched
      [] part = "heap" -> Heap!HeapDisjoint
      [] part = "frames" -> Mem!FramesOwnedOnce
      [] part = "vmm" -> Mem!WindowsIntact
      [] part = "usermem" -> Mem!FramesExclusive
      [] OTHER -> TRUE

\* What a caller or a device is told is so: translations, names and offsets in files, packets,
\* interrupts and registers, events, the time, and what is drawn.
AnswersRight ==
    CASE part = "regions" -> NothingForgotten /\ Coalesced /\ WithinArray
      [] part = "acpi" -> Boot!IsaRouted /\ Boot!LinesClosed /\ Boot!DriverLineOpen /\ Boot!ByteCodeWalked
      [] part = "sleep" -> Boot!NoneForgotten /\ Boot!NoneEarly
      [] part = "rtc" -> Boot!ReadingTrue
      [] part = "gpu" -> Dev!DrawnExactly /\ Dev!DisplayReady /\ Dev!FlushAlone
      [] part = "fbcon" -> Cons!ScreenCurrent
      [] part = "ansi" -> Cons!ParamsRight
      [] part = "e1000e" -> Dev!ReceivedInOrder
      [] part = "pciscan" -> Boot!EachFunctionOnce
      [] part = "bars" -> Boot!BarsDecoded
      [] part = "probe" -> Boot!InterruptsReach
      [] part = "kinit" -> Boot!StartInOrder
      [] part = "loader" -> Boot!HandedOver
      [] part = "image" -> Start!ImageRight /\ Start!RelocsRight
      [] part = "launch" -> Start!EnvironmentInherited /\ Start!ArgumentsPassed /\ Start!StackReady
      [] part = "fdtable" -> Files!LateOnlyOnDup /\ Files!OffsetsCounted
      [] part = "vfs" -> Files!NamesCounted /\ Files!ListedAsFound
      [] part = "mouse" -> Cons!EventsWhole /\ Cons!PollerWoken
      [] part = "i8042" -> Cons!ControllerReady
      [] part = "input" -> Cons!EventsMatchBytes
      [] part = "heap" -> Heap!HeapAccounted
      [] part = "frames" -> Mem!FramesAccounted
      [] part = "paging" -> Mem!TranslationAgrees
      [] part = "usermem" -> Mem!MappingsTracked
      [] part = "net" -> Dev!TableFresh /\ Dev!RepliesRight
      [] OTHER -> TRUE

\* What has become due happens: a sleeper or a poll whose time is over returns, a started
\* processor comes online, and a walk in the file system gets shorter with every step.
EventsServed ==
    /\ <>[](part = "sleep" => Boot!AllServed)
    /\ <>(part = "smp" => Boot!AllOnline)
    /\ [][part = "vfs" => Files!WalkShrinks]_KernelVars
=============================================================================
