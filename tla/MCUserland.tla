------------------------------ MODULE MCUserland ------------------------------
(*****************************************************************************)
(* Small instances of the user programs, the C library, the parsers and the  *)
(* build tool for TLC.  They do not interact here, so a behaviour exercises one*)
(* of them, chosen in the initial state.  They share v1 to v20, with 0 in those*)
(* they have no use for.                                                     *)
(*****************************************************************************)
EXTENDS Integers, Sequences, FiniteSets, TLC

VARIABLES
    part,
    v1, v2, v3, v4, v5, v6, v7, v8, v9, v10, v11, v12, v13, v14, v15, v16, v17, v18, v19,
    v20

AmObj(k, name, bytes, value, template, body) ==
    [k |-> k, name |-> name, arg |-> [bytes |-> bytes, value |-> value, template |-> template], body |-> body]
AmSeg(c) == <<95, 65, 65, c>>
AmHid == <<95, 72, 73, 68>>
AmAdr == <<95, 65, 68, 82>>
AmCrs == <<95, 67, 82, 83>>
AmName(seg, bytes, value) == AmObj("name", seg, bytes, value, <<>>, <<>>)
AmDev(c, body) == AmObj("device", AmSeg(c), <<>>, <<>>, <<>>, body)
AmScope(pre, c, body) == AmObj("scope", AmSeg(c), pre, <<>>, <<>>, body)
AmZone(c, body) == AmObj("thermal", AmSeg(c), <<>>, <<>>, <<>>, body)
AmSkip(bytes) == AmObj("skip", AmSeg(49), bytes, <<>>, <<>>, <<>>)
AmBad(bytes) == AmObj("bad", AmSeg(49), bytes, <<>>, <<>>, <<>>)
AmString(n) == <<13>> \o [i \in 1..n |-> 65 + i] \o <<0>>
AmTemplate == <<71, 1, 8, 8, 1, 8, 121, 0>>
AmNames(seg) ==
    {AmName(seg, b[1], b[2]) : b \in {
        <<<<0>>, <<"int", 0>>>>, <<<<255>>, <<"int", -1>>>>, <<<<10, 8>>, <<"int", 8>>>>, <<<<11, 16, 1>>, <<"int", 272>>>>,
        <<<<12, 65, 208, 3, 3>>, <<"int", 50581569>>>>, <<<<14, 1, 2, 0, 0, 0, 0, 0, 0>>, <<"int", 513>>>>,
        <<AmString(3), <<"string", <<66, 67, 68>>>>>>, <<AmString(6), <<"string", <<66, 67, 68, 69>>>>>>,
        <<<<17, 7, 10, 4, 65, 208, 3, 3>>, <<"eisa", 50581569>>>>, <<<<17, 8, 10, 4, 12, 65, 208, 3, 3>>, <<"eisa", 50581569>>>>,
        <<<<17, 6, 10, 3, 1, 2, 121>>, <<"none">>>>, <<<<18, 5, 2, 0, 1, 8>>, <<"none">>>>, <<<<91, 48>>, <<"int", 2>>>>,
        <<<<92, 65, 65, 65, 65>>, <<"none">>>>}}
AmEntry(a, p, s, g) == LET b == <<4>> \o a \o p \o s \o g IN <<18, Len(b) + 1>> \o b
AmPrt(entries, value) ==
    LET b == <<Len(entries)>> \o entries[1] \o entries[2] IN
    AmObj("prt", <<95, 80, 82, 84>>, <<18, Len(b) + 1>> \o b, value, <<>>, <<>>)
AmPrts ==
    {AmPrt(<<AmEntry(<<12, 255, 255, 1, 0>>, <<p>>, <<0>>, <<10, 16>>), AmEntry(<<11, 3, 1>>, <<10, 3>>, s, <<g>>)>>,
           <<<<131071, p, 16>>>> \o (IF s = <<0>> THEN <<<<259, 3, g>>>> ELSE <<>>)) :
        p \in {0, 1}, s \in {<<0>>, <<92, 95, 83, 66, 95>>}, g \in {0, 1}}
AmOther ==
    {AmObj("method", AmSeg(c), <<f, 16, 20, 164, 0>>, <<>>, <<>>, <<>>) : c \in {65, 66}, f \in {0, 9}}
    \cup {AmObj("processor", AmSeg(65), <<3, 0, 0, 0, 0, 6>>, <<>>, <<>>, <<>>), AmObj("power", AmSeg(66), <<0, 1, 0>>, <<>>, <<>>, <<>>),
          AmObj("name", AmCrs, <<17, 11, 10, 8>> \o AmTemplate, <<"none">>, AmTemplate, <<>>)}
AmSkips ==
    {AmSkip(b) : b \in {<<91, 128, 65, 65, 65, 65, 1, 11, 0, 6, 10, 4>>, <<91, 128, 92, 46, 65, 65, 65, 65, 66, 66, 66, 66, 0, 12, 1, 1, 1, 1, 65, 65, 65, 65>>,
        <<91, 129, 7, 65, 65, 65, 65, 1, 8>>, <<91, 1, 94, 65, 65, 65, 65, 0>>, <<91, 134, 3, 16, 8>>, <<160, 6, 0, 16, 8, 20, 91>>, <<162, 68, 0, 8, 20>>,
        <<92, 47, 3, 65, 65, 65, 65, 66, 66, 66, 66, 67, 67, 67, 67>>, <<46, 65, 65, 65, 65, 66, 66, 66, 66>>, <<164, 13, 16, 20, 0>>,
        <<10, 8>>, <<11, 8, 20>>, <<13, 16, 0>>, <<14, 8, 8, 8, 8, 8, 8, 8, 8>>, <<96>>, <<163>>, <<17, 4, 10, 1, 16>>}}
AmBads == {AmBad(b) : b \in {<<91, 19, 1, 2>>, <<94, 94, 3>>, <<91, 1, 10>>}}
AmLeaves == AmNames(AmHid) \cup AmOther \cup AmSkips \cup AmBads \cup AmPrts
AmTail == AmName(AmAdr, <<11, 2, 1>>, <<"int", 258>>)
AmNested ==
    {<<AmScope(<<92>>, 66, <<AmDev(c, <<x, AmDev(66, <<AmTail>>)>>), AmDev(68, <<AmTail, x>>)>>), AmZone(65, <<x>>)>> : x \in AmLeaves, c \in {65, 66}}
    \cup {<<AmScope(pre, c, <<AmDev(67, <<AmTail>>), x>>), AmTail>> : pre \in {<<>>, <<94, 94>>, <<46, 66, 66, 66, 66>>, <<92, 47, 2, 65, 65, 65, 65>>}, c \in {65, 66}, x \in AmBads \cup {AmTail}}
    \cup {<<AmDev(67, <<x, AmDev(66, <<y, AmTail>>)>>)>> : x \in AmNames(AmHid), y \in AmNames(AmAdr)}
AmAll == {<<x, AmTail>> : x \in AmLeaves} \cup AmNested

ArD(bytes, means) == [bytes |-> bytes, means |-> means]
ArQ(n) == <<n, 0, 0, 0, 0, 0, 0, 0>>
ArKnown ==
    {ArD(<<34, 16, 0>>, <<<<"irq", 4, TRUE, FALSE>>>>), ArD(<<35, 0, 2, 24>>, <<<<"irq", 9, FALSE, TRUE>>>>), ArD(<<36, 1, 0, 1, 121>>, <<<<"irq", 0, TRUE, FALSE>>>>),
     ArD(<<34, 0, 0>>, <<>>), ArD(<<42, 4, 4>>, <<<<"dma", 2, TRUE>>>>), ArD(<<43, 128, 0, 71>>, <<<<"dma", 7, FALSE>>>>), ArD(<<42, 0, 4>>, <<>>),
     ArD(<<71, 1, 248, 3, 248, 3, 1, 8>>, <<<<"io", 1016, 8>>>>), ArD(<<75, 207, 12, 2>>, <<<<"fixedio", 3279, 2>>>>), ArD(<<76, 207, 12, 2, 121>>, <<<<"fixedio", 3279, 2>>>>),
     ArD(<<33, 71>>, <<>>), ArD(<<48>>, <<>>), ArD(<<56>>, <<>>), ArD(<<114, 34, 1>>, <<>>)}
ArLarge ==
    {ArD(<<134, 9, 0, 1, 0, 0, 16, 0, 0, 16, 0, 0>>, <<<<"fixedmemory", 1048576, 4096, TRUE>>>>),
     ArD(<<133, 17, 0, 0, 0, 16, 0, 0, 255, 255, 0, 0, 1, 0, 0, 0, 0, 32, 0, 0>>, <<<<"memory", 4096, 8192, FALSE>>>>),
     ArD(<<133, 9, 0, 0, 0, 16, 0, 0, 121, 121, 0, 0>>, <<>>),
     ArD(<<135, 23, 0, 0, 12, 1>> \o <<0, 0, 0, 0, 0, 16, 0, 0, 255, 255, 0, 0, 0, 0, 0, 0, 0, 32, 0, 0>>, <<<<"memory", 4096, 8192, TRUE>>>>),
     ArD(<<135, 24, 0, 1, 12, 3>> \o <<0, 0, 0, 0, 0, 13, 0, 0, 255, 255, 0, 0, 0, 0, 0, 0, 0, 243, 1, 0, 121>>, <<<<"io", 3328, 62208>>>>),
     ArD(<<135, 23, 0, 2, 12, 0>> \o <<0, 0, 0, 0, 0, 0, 0, 0, 255, 0, 0, 0, 0, 0, 0, 0, 0, 1, 0, 0>>, <<>>),
     ArD(<<137, 6, 0, 2, 1, 17, 0, 0, 0>>, <<<<"extirq", 17, TRUE, FALSE>>>>), ArD(<<137, 10, 0, 8, 2, 17, 0, 0, 0, 18, 0, 0, 0>>, <<<<"extirq", 17, FALSE, TRUE>>>>),
     ArD(<<137, 6, 0, 2, 0, 17, 0, 0, 0>>, <<>>),
     ArD(<<138, 43, 0, 0, 12, 1>> \o ArQ(0) \o ArQ(64) \o ArQ(255) \o ArQ(0) \o ArQ(32), <<<<"memory64", 64, 32, TRUE>>>>),
     ArD(<<132, 3, 0, 121, 34, 1>>, <<>>), ArD(<<129, 9, 0, 0, 0, 0, 0, 0, 0, 0, 0, 0>>, <<>>)}
ArEnd == ArD(<<121, 0>>, <<>>)
ArAll == {<<x, y, ArEnd>> : x \in ArKnown \cup ArLarge, y \in ArKnown \cup ArLarge} \cup {<<x, ArEnd, y>> : x \in ArLarge, y \in ArKnown} \cup {<<x>> : x \in ArLarge}

DwSx == INSTANCE SequencesExt
DwOp(m, b) == [m |-> m, b |-> b]
DwLe(n, w) == [k \in 1..w |-> (n \div 256^(k - 1)) % 256]
DwLe8(n) == DwLe(n, 4) \o <<0, 0, 0, 0>>
DwSetup == <<DwOp(<<"move", 0, 200>>, <<3, 200, 1>>), DwOp(<<"file", 1>>, <<4, 1>>)>>
DwOps == {DwOp(<<"row", 4, 1>>, <<24>>), DwOp(<<"row", 4, -1>>, <<26>>), DwOp(<<"move", 260, 0>>, <<2, 130, 1>>), DwOp(<<"move", 0, -65>>, <<3, 191, 127>>),
    DwOp(<<"file", 2>>, <<4, 2>>), DwOp(<<"column", 65535>>, <<5, 255, 255, 3>>), DwOp(<<"stop">>, <<5, 128, 128, 4>>), DwOp(<<"stop">>, <<2, 128, 128, 128, 1>>), DwOp(<<"stmt">>, <<6>>),
    DwOp(<<"move", 256, 0>>, <<9, 0, 1>>), DwOp(<<"move", 120, 0>>, <<12>>), DwOp(<<"none">>, <<13, 129, 1, 5>>), DwOp(<<"none">>, <<0, 3, 128, 1, 1>>),
    DwOp(<<"at", 300>>, <<0, 9, 2>> \o DwLe8(300)), DwOp(<<"end">>, <<0, 1, 1>>), DwOp(<<"stop">>, <<0, 0>>), DwOp(<<"stop">>, <<0, 99, 128>>)}
DwLast == <<DwOp(<<"row", 0, 0>>, <<1>>), DwOp(<<"end">>, <<0, 1, 1>>)>>
DwMeant(ops) == LET stops == {i \in DOMAIN ops : ops[i].m[1] = "stop"}
                    n == IF stops = {} THEN Len(ops) ELSE (CHOOSE i \in stops : \A j \in stops : i <= j) - 1
                IN [i \in 1..n |-> ops[i].m]
DwFlat(ss) == DwSx!FlattenSeq(ss)
DwBytes(version, tables, ops) ==
    LET prog == DwFlat([i \in DOMAIN ops |-> ops[i].b])
        fixed == <<4, 2, 1, 255, 4, 14, 0, 1, 1, 1, 1, 0, 0, 0, 1, 0, 0, 1, 2>> \o tables
        rest == DwLe(version, 2) \o (IF version = 5 THEN <<8, 0>> ELSE <<>>) \o DwLe(Len(fixed), 4) \o fixed \o prog
    IN DwLe(Len(rest), 4) \o rest
DwUnit(version, tables, files, ops) == [version |-> version, files |-> files, ops |-> DwMeant(ops), bytes |-> DwBytes(version, tables, ops)]
DwTables4 == {<<<<97, 0, 98, 99, 0, 0, 102, 0, 1, 0, 0, 103, 0, 2, 5, 129, 1, 0>>, <<<<1, <<102>>, <<<<98, 99>>>>>>, <<2, <<103>>, <<>>>>>>>>}
DwTables5 == {<<<<1, 1, 8, 2, 97, 0, 98, 0>> \o <<2, 1, 8, 2, 11, 3, 102, 0, 0, 103, 0, 1, 104, 0, 9>>, <<<<0, <<102>>, <<<<97>>>>>>, <<1, <<103>>, <<<<98>>>>>>, <<9, <<104>>, <<>>>>>>>>,
    <<<<1, 1, 31, 1, 0, 0, 0, 0>> \o <<3, 2, 15, 1, 31, 5, 5, 2, 0, 1, 0, 0, 0, 7, 7, 128, 1, 2, 0, 0, 0, 7, 7>>, <<<<0, <<60, 62>>, <<<<60, 62>>>>>>, <<128, <<60, 62>>, <<>>>>>>>>}
DwProgram(x) == DwSetup \o <<x>> \o DwLast
DwBad == {DwUnit(3, <<0, 0>>, <<>>, <<>>), DwUnit(4, <<97>>, <<>>, <<>>), DwUnit(4, <<0, 102, 0, 1, 0>>, <<>>, <<>>), DwUnit(5, <<1, 1, 30, 1, 0, 0, 0, 0>>, <<>>, <<>>),
    DwUnit(4, <<97, 0, 97, 0, 97, 0, 97, 0, 0, 0>>, <<>>, <<>>), DwUnit(5, <<0, 0, 1, 1, 8, 4, 97, 0, 97, 0, 97, 0, 97, 0>>, <<>>, <<>>), DwUnit(5, <<1, 1>>, <<>>, <<>>),
    [DwUnit(4, <<0, 0>>, <<>>, <<>>) EXCEPT !.bytes = [@ EXCEPT ![7] = 99]], [DwUnit(4, <<>>, <<>>, <<>>) EXCEPT !.bytes = <<2, 0, 0, 0, 4, 0>>]}
DwTails == {[DwUnit(4, <<>>, <<>>, <<>>) EXCEPT !.bytes = b] : b \in {<<>>, <<1, 0, 0>>, <<0, 0, 0, 0, 1>>, <<9, 0, 0, 0, 4>>}}
DwGood == {DwUnit(4, t[1], t[2], DwProgram(x)) : t \in DwTables4, x \in DwOps} \cup {DwUnit(5, t[1], t[2], DwProgram(x)) : t \in DwTables5, x \in DwOps}
DwPair == {DwUnit(v, t[1], t[2], DwSetup \o <<x, y>> \o DwLast) : v \in {4}, t \in DwTables4, x \in {o \in DwOps : o.m # <<"end">>}, y \in DwOps}
DwAll == {<<x, y, z>> : x \in DwGood, y \in DwBad, z \in {CHOOSE g \in DwGood : g.version = 5}} \cup {<<x, y>> : x \in DwGood, y \in DwTails} \cup {<<x>> : x \in DwPair}

BtSym(t, d, a, s, n) == [type |-> t, defined |-> d, addr |-> a, size |-> s, name |-> n]
BtRow(a, f, l, e) == [addr |-> a, file |-> f, line |-> l, end |-> e]
BtSyms == <<BtSym("func", TRUE, 1030, 20, <<102>>), BtSym("data", TRUE, 1032, 4, <<100>>), BtSym("func", TRUE, 1000, 30, <<103, 104>>), BtSym("func", FALSE, 1010, 4, <<105>>),
    BtSym("func", TRUE, 0, 4, <<106>>), BtSym("func", TRUE, 900, 4, <<107>>), BtSym("func", TRUE, 1004, 1, <<>>), BtSym("func", TRUE, 1060, 0, <<102>>), BtSym("func", TRUE, 1030, 20, <<108>>)>>
BtRows == <<BtRow(1004, <<1, 107, 99, 2>>, 7, FALSE), BtRow(1000, <<9, 99, 3>>, 5, FALSE), BtRow(1008, <<9, 99, 3>>, 0, FALSE), BtRow(1012, <<>>, 8, FALSE), BtRow(1030, <<4, 115, 5, 115, 6>>, 9, FALSE),
    BtRow(1030, <<4, 6>>, 10, FALSE), BtRow(1050, <<4, 6>>, 11, TRUE), BtRow(990, <<4, 6>>, 12, FALSE), BtRow(1040, <<4, 6>>, 13, FALSE)>>
BtAll == {[base |-> 1000, symbols |-> s, rows |-> r] : s \in {BtSyms, <<BtSyms[3]>>, <<>>}, r \in {BtRows, SubSeq(BtRows, 1, 2), <<>>}}
BtPairs == {<<x, y>> : x \in {1000, 1029, 1050, 1070}, y \in {1003, 1030, 1041, 500}}
BtStacks == {[rbp |-> 2000, frames |-> (2000 :> <<2016, p[1]>>) @@ (2016 :> <<0, p[2]>>)] : p \in BtPairs}
    \cup {[rbp |-> 2000, frames |-> (2000 :> <<2016, 1030>>) @@ (2016 :> <<last, 1003>>)] : last \in {2016, 2020, 8}}
    \cup {[rbp |-> 2000, frames |-> (2000 :> <<2016, 1000>>) @@ (2016 :> <<2000, 1031>>)], [rbp |-> 0, frames |-> 2000 :> <<0, 0>>]}

DtNop == {<<>>, <<0, 0, 0, 4>>}
DtLeafs == {[name |-> n, props |-> ps, children |-> <<>>, pad |-> d] : n \in {<<97>>, <<98, 98, 98>>}, d \in DtNop,
    ps \in {<<>>, <<<<<<99, 111>>, <<117, 0, 118, 118, 0>>>>>>, <<<<<<114>>, <<1, 2, 3, 4>>>>, <<<<99, 111>>, <<118>>>>, <<<<114>>, <<>>>>>>}}
DtMids == {[name |-> <<109>>, props |-> ps, children |-> <<c>>, pad |-> <<>>] : c \in DtLeafs, ps \in {<<>>, <<<<<<120>>, <<0, 0, 0, 2>>>>>>}}
DtRoots == {[name |-> <<>>, props |-> <<<<<<114>>, <<7>>>>>>, children |-> <<m, c>>, pad |-> d] : m \in DtMids, c \in {l \in DtLeafs : l.pad = <<>>}, d \in DtNop}
    \cup {[name |-> <<>>, props |-> <<>>, children |-> cs, pad |-> <<>>] : cs \in {<<>>} \cup {<<c>> : c \in DtLeafs}}
DtAsks == {<<"path", <<>>>>, <<"path", <<<<109>>, <<>>, <<97>>>>>>, <<"path", <<<<98, 98, 98>>>>>>, <<"compatible", <<118, 118>>>>, <<"compatible", <<118>>>>, <<"reserved">>}
DtBreaks == {<<>>, <<39>>, <<60>>}

GbProject(graph, rules, programs, editable, modes, budget) ==
    [graph |-> graph, rules |-> rules, boot |-> "boot", programs |-> programs,
     editable |-> editable, modes |-> modes, budget |-> budget]
GbWork(edits, builds, forces, fails) ==
    [edits |-> edits, builds |-> builds, forces |-> forces, fails |-> fails]
\* A kernel with a host crate, a cycle, and a kernel with a program in its initrd.
GbProjects ==
    {GbProject(g, {"hkif"}, {}, {"mac", "lib"}, {"build", "check"}, GbWork(1, 3, 0, 1)) : g \in
        {"mac" :> [deps |-> {}, host |-> TRUE, conf |-> FALSE] @@ "lib" :> [deps |-> {"mac"}, host |-> FALSE, conf |-> FALSE] @@ "boot" :> [deps |-> {"lib"}, host |-> FALSE, conf |-> TRUE],
         "a" :> [deps |-> {"b"}, host |-> FALSE, conf |-> FALSE] @@ "b" :> [deps |-> {"a"}, host |-> FALSE, conf |-> FALSE]}}
    \cup {GbProject("lib" :> [deps |-> {}, host |-> FALSE, conf |-> FALSE] @@ "boot" :> [deps |-> {"lib"}, host |-> FALSE, conf |-> TRUE] @@ "init" :> [deps |-> {}, host |-> FALSE, conf |-> FALSE],
                    {"hkif", "initrd"}, {"init"}, {"lib", "init"}, {"build"}, GbWork(1, 2, 1, 0))}

KpA == <<"sym", "a">>
KpE1 == {KpA, <<"sym", "b">>, <<"not", KpA>>}
KpE2 == KpE1 \cup {<<o, x, y>> : o \in {"and", "or"}, x \in KpE1, y \in KpE1}
KpE3 == KpE1 \cup {<<o, x, y>> : o \in {"and", "or"}, x \in {KpA, <<"or", KpA, KpA>>, <<"and", KpA, KpA>>}, y \in {KpA, <<"or", KpA, KpA>>, <<"and", KpA, KpA>>}} \cup {<<"not", x>> : x \in KpE2}
KpC(n) == [item |-> "config", name |-> n, ty |-> "bool", variants |-> <<>>, default |-> <<>>, depends |-> <<>>, selects |-> <<>>, range |-> <<>>, bindings |-> <<>>]
KpB == {[KpC("c") EXCEPT !.ty = ty, !.variants = IF ty = "choice" THEN <<"v", "w">> ELSE <<>>, !.default = d, !.selects = s, !.range = r, !.bindings = b] :
          ty \in {"bool", "u32", "str", "choice"}, d \in {<<>>, <<<<"yes", "">>>>, <<<<"integer", "7">>>>, <<<<"string", "w">>>>},
          s \in {<<>>, <<"a", "b">>}, r \in {<<>>, <<"1", "9">>}, b \in {<<>>, <<"cfg", "cumulative">>}}
KpP == [item |-> "preset", name |-> "p", inherits |-> "q", overrides |-> <<<<"c", <<"integer", "3">>>>, <<"d", <<"no", "">>>>>>]
KpS == [item |-> "source", name |-> "sub"]
KpM(t, is) == [item |-> "menu", name |-> t, items |-> is]
KpDocSet == {<<[KpC("c") EXCEPT !.depends = <<e>>]>> : e \in KpE3} \cup {<<b, KpC("d")>> : b \in KpB}
  \cup {<<x, y>> : x, y \in {KpC("c"), KpP, KpS, KpM("m", <<>>), KpM("n", <<KpC("e"), KpM("o", <<KpS, KpC("f")>>), KpP>>)}}
KpLn == {<<<<"config", "">>, <<"ident", "c">>, <<"nl", "">>>>, <<<<"bool", "">>, <<"nl", "">>>>, <<<<"menu", "">>, <<"string", "t">>, <<"nl", "">>>>, <<<<"endmenu", "">>, <<"nl", "">>>>, <<<<"set", "">>, <<"nl", "">>>>, <<<<"choice", "">>, <<"lbracket", "">>, <<"nl", "">>>>}

GmOption(ty, d, r, c) == [ty |-> ty, default |-> <<ty, d>>, range |-> r, choices |-> c, depends |-> {}, selects |-> {}, prefix |-> <<>>]
GmCrate(deps, t) == [deps |-> deps, devDeps |-> {}, target |-> t, requires |-> {}, sysroot |-> FALSE]
MoProfile(i, p, c) == [inherits |-> i, preset |-> p, config |-> c, target |-> <<>>]
GmPreset(i, o) == [inherits |-> i, overrides |-> o]
GmBase == [options |-> [o |-> GmOption("bool", FALSE, <<>>, {}), n |-> GmOption("num", 2, <<1, 3>>, {}), s |-> GmOption("choice", "u", <<>>, {"u", "w"}), g |-> GmOption("group", 0, <<>>, {})],
  presets |-> [p |-> GmPreset(<<>>, <<>>), q |-> GmPreset(<<>>, <<>>)],
  profiles |-> [default |-> MoProfile(<<>>, <<>>, <<>>), x |-> MoProfile(<<>>, <<>>, <<>>)], profile |-> "x", file |-> <<>>,
  targets |-> <<"t">>, groups |-> [h |-> [target |-> "host", crates |-> <<>>], k |-> [target |-> "t", crates |-> <<"a", "b", "c">>]],
  crates |-> [a |-> GmCrate(<<>>, "t"), b |-> GmCrate(<<>>, "t"), c |-> GmCrate(<<>>, "t")], externals |-> {},
  rules |-> [r |-> [inputs |-> {"a"}, depends |-> {}]], pipeline |-> <<[kind |-> "stage", names |-> <<"h", "k">>], [kind |-> "rule", names |-> <<"r">>]>>,
  tests |-> [host |-> {}, kernel |-> <<>>, dir |-> TRUE, script |-> TRUE]]
GmMaps == {<<>>, [n |-> <<"num", 3>>], [n |-> <<"num", 7>>]}
GmInherit == {[GmBase EXCEPT !.presets = [p |-> GmPreset(i, mp), q |-> GmPreset(j, mq)], !.profiles.x = MoProfile(k, l, mx), !.profiles.default = MoProfile(<<>>, <<"q">>, md)] :
   i \in {<<>>, <<"p">>, <<"q">>}, j \in {<<>>, <<"p">>, <<"zz">>}, k \in {<<>>, <<"default">>, <<"x">>}, l \in {<<"p">>}, mp \in {<<>>, [n |-> <<"num", 3>>]}, mq \in {[o |-> <<"bool", TRUE>>], [n |-> <<"num", 1>>]}, mx \in GmMaps, md \in {<<>>, [n |-> <<"num", 2>>]}}
GmDeps == {<<>>, <<"b">>, <<"c">>, <<"b", "c">>, <<"b", "b">>}
GmGraphs == {[GmBase EXCEPT !.crates.a.deps = da, !.crates.b.deps = db, !.crates.c.deps = dc, !.crates.a.requires = ra, !.crates.b.requires = rb, !.file = f, !.crates.b.sysroot = sb] :
   da \in GmDeps, db \in {<<>>, <<"c">>, <<"a">>}, dc \in {<<>>, <<"a", "b">>}, ra \in {{}, {"o"}}, rb \in {{}}, f \in {<<>>, [o |-> <<"bool", TRUE>>]}, sb \in {FALSE}}
GmBad == {[GmBase EXCEPT !.options.n.range = <<3, 1>>], [GmBase EXCEPT !.crates.b.sysroot = TRUE], [GmBase EXCEPT !.options.o.selects = {"zz"}], [GmBase EXCEPT !.options.s.choices = {}], [GmBase EXCEPT !.profiles.x.target = <<"zz">>],
   [GmBase EXCEPT !.groups.k.crates = <<"a", "zz">>], [GmBase EXCEPT !.crates.a.deps = <<"zz">>], [GmBase EXCEPT !.rules.r.inputs = {"zz"}], [GmBase EXCEPT !.pipeline = <<>>], [GmBase EXCEPT !.tests.host = {"zz"}],
   [GmBase EXCEPT !.tests.kernel = <<"a">>], [GmBase EXCEPT !.profile = "zz"], [GmBase EXCEPT !.file = [s |-> <<"choice", "zz">>]], [GmBase EXCEPT !.options.s.prefix = <<"g">>], [GmBase EXCEPT !.options.s.prefix = <<"o">>]}

SmPre == <<<<"option", "o", "bool">>, <<"compound", "c", "group">>, <<"group", "g">>, <<"group", "h">>, <<"profile", "p">>, <<"dependency", "d">>, <<"rule", "r">>, <<"target", "t", "spec">>>>
SmParts == {<<<<"add", "g", "k">>, <<"set", "group", "g", "target", "t">>>>, <<<<"set", "group", "g", "target", "t">>, <<"add", "g", "k">>>>, <<<<"add", "h", "k">>, <<"set", "crate", "k", "root", "x">>>>,
    <<<<"option", "o", "u32">>, <<"menu", "o", "m">>>>, <<<<"set", "option", "o", "help", "a">>, <<"menu", "c", "n">>, <<"field", "c", "f", "bool">>>>, <<<<"kconfig", "o", "n">>, <<"menu", "c", "m">>>>,
    <<<<"profile", "p">>, <<"image", "path", "x">>>>, <<<<"set", "profile", "p", "lto", "y">>, <<"step", "one">>>>, <<<<"source", "d", "git">>, <<"ref", "d", "v1">>>>, <<<<"ref", "d", "v2">>, <<"set", "dependency", "d", "features", "x">>>>,
    <<<<"dependency", "d">>, <<"source", "d", "path">>>>, <<<<"rule", "r">>, <<"set", "rule", "r", "handler", "x">>, <<"step", "two">>>>, <<<<"include", "b">>, <<"qemu", "memory", "1">>>>, <<<<"include", "a">>, <<"tests", "dir", "x">>>>}
SmAll == {("main" :> (SmPre \o a \o <<<<"include", "a">>, <<"include", "b">>>>)) @@ ("a" :> (b \o <<<<"include", "a">>>>)) @@ ("b" :> (c \o <<<<"include", "a">>, <<"include", "main">>, <<"profile", "p">>>>)) : a \in SmParts, b \in SmParts, c \in SmParts}

TrBads == {[x \in {} |-> "pass"], ("h2" :> "panic"), ("k1" :> "panic"), ("k2" :> "panic"), ("k3" :> "hang"), ("t1" :> "panic"), ("t2" :> "panic"), ("t3" :> "hang"), ("u2" :> "panic"), ("compile" :> "hang"), ("h1" :> "panic") @@ ("u1" :> "hang")}
TrCmds == {<<>>, <<<<"word", <<1, 2>>>>>>, <<<<"flag", "exact">>, <<"word", <<1, 2>>>>>>, <<<<"flag", "list">>>>, <<<<"flag", "test-threads">>, <<"word", <<3>>>>>>}
TrTests == <<[name |-> "t3", stage |-> "with_executor", kind |-> "async", work |-> <<>>], [name |-> "t1", stage |-> "early_boot", kind |-> "sync", work |-> <<>>], [name |-> "t2", stage |-> "with_executor", kind |-> "instanced", work |-> <<2, 3>>]>>
TrN == ("k1" :> <<1, 2>>) @@ ("k2" :> <<1, 2, 3>>) @@ ("k3" :> <<4>>)

Parse == INSTANCE Parsers WITH
    amProgram <- v1, amData <- v2, amStack <- v3, amPath <- v4, amEvents <- v5,
    amNodes <- v6, arSource <- v1, arData <- v2, arPos <- v3, arOut <- v4, arOver <- v5,
    dwSource <- v1, dwData <- v2, dwAt <- v3, dwPc <- v4, dwEnd <- v5, dwCur <- v6,
    dwHead <- v7, dwForms <- v8, dwLeft <- v9, dwDirs <- v10, dwFiles <- v11,
    dwRegs <- v12, dwRows <- v13, btImage <- v1, btLines <- v2, btBlob <- v3,
    btState <- v4, btBusy <- v5, btStack <- v6, btWalk <- v7, btSearch <- v8,
    btSymbol <- v9, btPrinted <- v10, btPc <- v11, dtTree <- v1, dtReserved <- v2,
    dtDamage <- v3, dtBlob <- v4, dtFdt <- v5, dtAsked <- v6, dtPc <- v7,
    AmPrograms <- AmAll, MaxPathDepth <- 3, InlineCap <- 4, ArTemplates <- ArAll,
    DwWord <- 16, MaxDirectories <- 3, MaxFiles <- 3, MaxLengths <- 24,
    DwSections <- DwAll, BtImages <- BtAll, BtChains <- BtStacks, BtKernel <- 1000,
    MaxFrames <- 3, DtTrees <- DtRoots, DtReservations <- {<<<<4096, 512>>, <<0, 16>>>>},
    DtQuestions <- DtAsks, DtDamages <- DtBreaks

Prog == INSTANCE Programs WITH
    wsPc <- v1, wsIn <- v2, wsSeen <- v3, wsUp <- v4, wsFds <- v5, wsDown <- v6,
    wsConn <- v7, wsReady <- v8, wsSrv <- v9, wsPools <- v10, wsLost <- v11,
    wsShown <- v12, wsLeft <- v13, shPc <- v1, shLine <- v2, shAt <- v3, shFds <- v4,
    shSaved <- v5, shPipes <- v6, shKids <- v7, shJobs <- v8, shEnvNow <- v9,
    shFront <- v10, shLeft <- v11, shLeaked <- v12, tmGrid <- v1, tmShown <- v2, tmLast <- v3, tmKeys <- v4,
    tmPc <- v5, tmLeft <- v6, tmFds <- v7, WsClients <- {1}, WsChunks <- {1, 3, 8, 99}, WsCommits <- 1,
    WsMayDie <- TRUE, MaxTokens <- 8, MaxArgs <- 2, MaxStages <- 3, ExpandBufSize <- 4,
    PathBufSize <- 8, VarChars <- {"v", "w"},
    ShLines <- {<<"a", "|", "b">>, <<"a", "<", "f">>, <<"a", ">", "f", "|", "b", "<", "g">>, <<"<", "f", "|", "b", ">", ">", "g", "&">>, <<"a", "|", "b", "|", "v">>, <<"a", "|", "b", "|", "c", "|", "d">>, <<"$", "v", "|", "\"", "v", " ", "|", "\"", "b">>, <<"e">>, <<"c", "d", " ", "x">>, <<"k", " ", "w", "=", "v">>, <<"a", "&">>},
    ShBuiltins <- (<<"e">> :> "exit" @@ <<"c", "d">> :> "cd" @@ <<"k">> :> "export"),
    ShEnv <- (<<"P">> :> <<"/">> @@ <<"v">> :> <<"x", "y">>), ShTty <- <<"tty">>,
    MaxJobs <- 2, ShCalls <- 2, ShPipeFails <- TRUE, TmCols <- 3,
    TmRows <- 2, TmMaxParams <- 2,
    TmDigit <- [d \in {"1", "2", "3"} |-> IF d = "1" THEN 1 ELSE IF d = "2" THEN 2 ELSE 3],
    TmReads <- 3,
    TmChunks <- {<<"x">>, <<"x", "x", "\n", "x">>, <<"ESC", "[">>, <<"ESC", "[", "2", ";", "3", "H">>, <<"3", "1", "m", "x", "\t">>, <<"ESC", "[", "1", ";", ";", "2", "B", "BS">>, <<"ESC", "[", "K", "ESC", "[", "1", "J">>, <<"ESC", "]", "x", "BEL", "x">>, <<"ESC", "c", "ESC", "[", " ", "D", "\r">>, <<"m", "C", "x">>}

Build == INSTANCE GluonBuild WITH
    gbSetup <- v1, gbSrc <- v2, gbGen <- v3, gbFile <- v4, gbTime <- v5, gbDisk <- v6,
    gbCache <- v7, gbPc <- v8, gbCmd <- v9, gbWaits <- v10, gbBatch <- v11, gbReady <- v12,
    gbJobs <- v13, gbResults <- v14, gbDone <- v15, gbRebuilt <- v16, gbKernel <- v17,
    gbLeft <- v18, vnListed <- v1, vnDir <- v2, vnLock <- v3, vnPc <- v4, vnRound <- v5,
    vnQueue <- v6, vnResolved <- v7, vnFetch <- v8, vnKept <- v9, vnLeft <- v10,
    gmModel <- v1, gmPc <- v2, gmWhy <- v3, gmWork <- v4, gmDegree <- v5, gmReady <- v6,
    gmOut <- v7, gmOptions <- v8, gmAll <- v9, mcNow <- v1, mcFiles <- v2, mcTwice <- v3,
    mcLock <- v4, mcTmp <- v5, mcCache <- v6, mcProc <- v7, mcEdits <- v8, mcKills <- v9,
    mcCleared <- v10, trBad <- v1, trFlags <- v2, trArgs <- v3, trPc <- v4, trNext <- v5,
    trBusy <- v6, trChan <- v7, trResults <- v8, trObjects <- v9, trKtestObjects <- v10,
    trBin <- v11, trAt <- v12, trInst <- v13, trLeft <- v14, trFailed <- v15, trRan <- v16,
    trVerdict <- v17, GbSetups <- GbProjects, GbWorkers <- 2,
    VnManifests <- [a |-> (<<1,0>> :> [deps |-> <<[name |-> "b", req |-> [exact |-> TRUE, version |-> <<1,0>>], features |-> {}, defaults |-> FALSE, optional |-> FALSE, gate |-> "-"],[name |-> "c", req |-> [exact |-> FALSE, version |-> <<1,0>>], features |-> {}, defaults |-> FALSE, optional |-> FALSE, gate |-> "-"]>>, features |-> [z |-> {}], default |-> {}]), b |-> (<<1,0>> :> [deps |-> <<[name |-> "c", req |-> [exact |-> FALSE, version |-> <<1,0>>], features |-> {"x"}, defaults |-> TRUE, optional |-> FALSE, gate |-> "-"]>>, features |-> [z |-> {}], default |-> {}]), c |-> (<<1,0>> :> [deps |-> <<[name |-> "d", req |-> [exact |-> TRUE, version |-> <<0,2>>], features |-> {}, defaults |-> FALSE, optional |-> TRUE, gate |-> "dep:d"]>>, features |-> [x |-> {"y"}, y |-> {"dep:d"}], default |-> {}] @@ <<1,1>> :> [deps |-> <<[name |-> "d", req |-> [exact |-> TRUE, version |-> <<0,2>>], features |-> {}, defaults |-> FALSE, optional |-> TRUE, gate |-> "dep:d"]>>, features |-> [x |-> {"y"}, y |-> {"dep:d"}], default |-> {}]), d |-> (<<0,2>> :> [deps |-> <<>>, features |-> [z |-> {}], default |-> {}])],
    VnRoots <- <<[name |-> "a", req |-> [exact |-> TRUE, version |-> <<1,0>>], features |-> {}]>>,
    VnPublished <- [a |-> {<<1,0>>}, b |-> {<<1,0>>}, c |-> {<<1,0>>}, d |-> {<<0,2>>}],
    VnBatch <- 2, VnBudget <- [runs |-> 2, fails |-> 1, publishes |-> 1, removes |-> 1],
    GmModels <- GmInherit \cup GmGraphs \cup GmBad, McProcs <- {1, 2},
    McTracked <- {"gluon.rhai", "kconfig"}, McUntracked <- {}, McForce <- {2},
    StaleLockSecs <- 1, McMaxTime <- 2, McMaxEdits <- 1, McMaxKills <- 1,
    TrCrates <- <<"h1", "h2", "h3">>, TrWorkers <- {1, 2},
    TrKernel <- <<<<"k1", "k2">>, <<"k3">>>>, TrKtests <- TrTests,
    TrUser <- <<<<"u1">>, <<"u2", "u3">>>>, TrNames <- TrN, TrArgs <- TrCmds,
    TrBad <- TrBads, TrFlags <- {{}, {"kernel"}, {"host", "user"}}, TrYields <- 3

Config == INSTANCE GluonConfig WITH
    gmValues <- v1, gmNav <- v2, gmMode <- v3, gmAbout <- v4, gmResults <- v5,
    gmFound <- v6, gmDirty <- v7, gmFile <- v8, gmRounds <- v9, gmLeft <- v10,
    kpInput <- v1, kpResult <- v2, smScripts <- v1, smStack <- v2, smVisited <- v3,
    smTables <- v4, smMenus <- v5, smSteps <- v6, smGlobals <- v7,
    GmOptions <- [smp |-> [ty |-> "bool", default |-> <<"bool", "false">>, depends |-> {"acpi"}, selects |-> {}, choices |-> <<>>], acpi |-> [ty |-> "bool", default |-> <<"bool", "true">>, depends |-> {}, selects |-> {}, choices |-> <<>>], cpus |-> [ty |-> "u32", default |-> <<"u32", "5">>, depends |-> {"smp"}, selects |-> {}, choices |-> <<>>], log |-> [ty |-> "choice", default |-> <<"choice", "info">>, depends |-> {}, selects |-> {}, choices |-> <<"info","warn">>], name |-> [ty |-> "str", default |-> <<"str", "x">>, depends |-> {}, selects |-> {}, choices |-> <<>>], base |-> [ty |-> "u64", default |-> <<"u64", "0x5">>, depends |-> {}, selects |-> {}, choices |-> <<>>]],
    GmTree <- (<<>> :> <<"acpi","menu","log","name">> @@ <<2>> :> <<"smp","cpus","base">>),
    GmOrder <- <<"acpi","smp","cpus","base","log","name">>,
    GmProfile <- [log |-> <<"choice","warn">>],
    GmQueries <- [s |-> {"smp","cpus","base"}, zz |-> {}], GmTexts <- {"16","true","0x10"},
    GmHeight <- 2, GmKeys <- 7, KpDocs <- KpDocSet,
    KpFiles <- [sub |-> <<KpC("s"), KpM("u", <<KpC("v")>>)>>],
    KpLines <- {<<a, b, c>> : a, b, c \in KpLn}, SmScripts <- SmAll, SmMain <- "main"

Text == INSTANCE LibcText WITH
    lsMem <- v1, lsOld <- v2, lsCall <- v3, lsSave <- v4, lsToks <- v5, lcText <- v1,
    lcBase <- v2, lcScan <- v3, lcResult <- v4, lqBase <- v1, lqGiven <- v2, lqTodo <- v3,
    lqFound <- v4, leEntries <- v1, leMap <- v2, leRet <- v3, leLeft <- v4, lpFmt <- v1,
    lpArgs <- v2, lpPos <- v3, lpOut <- v4, lpDir <- v5, lpLast <- v6,
    LsMemories <- {[i \in 0..4 |-> IF i = 4 THEN 0 ELSE s[i + 1]] : s \in {x \in [1..4 -> {0, 1, 2}] : x[1] = 1 /\ x[4] # 1}},
    LsDelims <- {[i \in 0..1 |-> IF i = 0 THEN 2 ELSE 0]},
    LsLower <- [b \in 0..2 |-> IF b = 2 THEN 1 ELSE b], LsMaxN <- 3, LsTokCalls <- 4,
    LcMax <- 255,
    LcDigit <- [c \in {"0", "1", "8", "9", "e"} |-> IF c = "0" THEN 0 ELSE IF c = "1" THEN 1 ELSE IF c = "8" THEN 8 ELSE IF c = "9" THEN 9 ELSE 14],
    LcTexts <- UNION {[1..n -> {"0", "1", "9", "e", "x", "-", "."}] : n \in 0..3} \cup {<<" ", "-", "1", "9", "9">>, <<"-", "1", "1", "9", "9">>, <<"-", "0", "x", "8", "0">>, <<"-", "0", "x", "8", "1">>, <<"0", "x", "e", "e", "e">>, <<"1", ".", "9", "e", "1">>, <<"1", "e", "-", "9">>, <<"-", "0", "x", "1", "0", "0">>},
    LcBases <- {0, 1, 10, 16}, LqArrays <- UNION {[0..n -> 1..3] : n \in 0..4},
    LqThreshold <- 3, LqDepth <- 0..1, LqKeys <- {2},
    LeStart <- {<<>>, <<<<"A", "B", "=", "x">>, <<"A", "=">>, <<"A", "=", "y">>>>},
    LeNames <- {<<"A">>, <<"A", "B">>, <<"=">>}, LeValues <- {<<"v">>, <<>>},
    LeMaxEnv <- 3, LeCalls <- 3,
    LpFormats <- {<<<<"%">> \o fl \o w \o <<sp>>, <<v>>>> : fl \in {<<>>, <<"-">>, <<"0">>, <<"+">>, <<"0", "+">>, <<"-", "0">>, <<" ">>, <<"#">>}, w \in {<<>>, <<"5">>}, sp \in {"d", "u", "x", "o"}, v \in {0, 12, 200}} \cup {<<<<"%", "*", "d", "a">>, <<4, 200>>>>, <<<<"%", ".", "*", "s">>, <<2, 7>>>>, <<<<"%", "5", "s", "%", "%">>, <<7>>>>, <<<<"%", "2", ".", "1", "s">>, <<0>>>>, <<<<"%", "c", "%", "l", "l", "i">>, <<9, 3>>>>, <<<<"%", "p", "%", "n", "%", "a">>, <<31>>>>, <<<<"%", "8", "p", "%", "#", "X">>, <<0, 250>>>>},
    LpDigit <- [c \in {"0", "1", "2", "3", "4", "5", "6", "7", "8", "9", "a", "b", "c", "d", "e", "f"} |-> CASE c = "0" -> 0 [] c = "1" -> 1 [] c = "2" -> 2 [] c = "3" -> 3 [] c = "4" -> 4 [] c = "5" -> 5 [] c = "6" -> 6 [] c = "7" -> 7 [] c = "8" -> 8 [] c = "9" -> 9 [] c = "a" -> 10 [] c = "b" -> 11 [] c = "c" -> 12 [] c = "d" -> 13 [] c = "e" -> 14 [] OTHER -> 15],
    LpUpper <- [c \in {"a", "f"} |-> IF c = "a" THEN "A" ELSE "F"],
    LpStrings <- (7 :> <<"x", "y", "z">>), LpWord <- 256, LpSizes <- 0..3

Libc == INSTANCE LibcRuntime WITH
    lfKind <- v1, lfS <- v2, lfFile <- v3, lfOff <- v4, lfCall <- v5, lfGot <- v6,
    lfExpect <- v7, lfAt <- v8, lfLast <- v9, lfFailed <- v10, lfLeft <- v11, laBump <- v1,
    laEnd <- v2, laFree <- v3, laSize <- v4, laLive <- v5, laMem <- v6, laTop <- v7,
    laLeft <- v8, ccErrno <- v1, ccRet <- v2, ccAnswer <- v3, ccName <- v4, ccFds <- v5,
    ccHeld <- v6, ccLeft <- v7, smValue <- v1, smLock <- v2, smPc <- v3, smSeen <- v4,
    smTry <- v5, smLeft <- v6, thPc <- v1, thRegion <- v2, thNew <- v3, thTcb <- v4,
    thParent <- v5, thStored <- v6, thRan <- v7, thAsked <- v8, thJoined <- v9,
    ThIds <- 1..3, ThRegions <- 1..3, ThJobs <- {"f", "g"}, LfKinds <- {"stdout", "stderr", "r", "w"},
    LfContent <- {<<"a", "n", "b">>, <<"a", "b", "n", "n">>},
    LfTexts <- {<<"a">>, <<"b", "n", "b">>}, LfCounts <- {0, 1, 3}, BufSize <- 2,
    LfOps <- 3, LfCloses <- TRUE, LfFaults <- TRUE, LaSizes <- {0, 1, 4, 7}, LaUnit <- 2,
    LaChunk <- 6, LaPage <- 2, LaSpace <- 18, LaCalls <- 4, CcValues <- {-24, 0, 1, 2},
    CcFdLimit <- 2, CcCalls <- 2, SmThreads <- {1, 2, 3}, SmPermits <- 2, SmRounds <- 1

\* The variables from v_n on are not used, or left alone.
Zero20 == v20 = 0

Zero19 == v19 = 0 /\ Zero20

Zero18 == v18 = 0 /\ Zero19

Zero17 == v17 = 0 /\ Zero18

Zero16 == v16 = 0 /\ Zero17

Zero15 == v15 = 0 /\ Zero16

Zero14 == v14 = 0 /\ Zero15

Zero13 == v13 = 0 /\ Zero14

Zero12 == v12 = 0 /\ Zero13

Zero11 == v11 = 0 /\ Zero12

Zero10 == v10 = 0 /\ Zero11

Zero9 == v9 = 0 /\ Zero10

Zero8 == v8 = 0 /\ Zero9

Zero7 == v7 = 0 /\ Zero8

Zero6 == v6 = 0 /\ Zero7

Zero5 == v5 = 0 /\ Zero6

Zero4 == v4 = 0 /\ Zero5

Zero3 == v3 = 0 /\ Zero4

Zero2 == v2 = 0 /\ Zero3

Zero1 == v1 = 0 /\ Zero2

Keep20 == UNCHANGED v20

Keep19 == UNCHANGED v19 /\ Keep20

Keep18 == UNCHANGED v18 /\ Keep19

Keep17 == UNCHANGED v17 /\ Keep18

Keep16 == UNCHANGED v16 /\ Keep17

Keep15 == UNCHANGED v15 /\ Keep16

Keep14 == UNCHANGED v14 /\ Keep15

Keep13 == UNCHANGED v13 /\ Keep14

Keep12 == UNCHANGED v12 /\ Keep13

Keep11 == UNCHANGED v11 /\ Keep12

Keep10 == UNCHANGED v10 /\ Keep11

Keep9 == UNCHANGED v9 /\ Keep10

Keep8 == UNCHANGED v8 /\ Keep9

Keep7 == UNCHANGED v7 /\ Keep8

Keep6 == UNCHANGED v6 /\ Keep7

Keep5 == UNCHANGED v5 /\ Keep6

Keep4 == UNCHANGED v4 /\ Keep5

Keep3 == UNCHANGED v3 /\ Keep4

Keep2 == UNCHANGED v2 /\ Keep3

Keep1 == UNCHANGED v1 /\ Keep2

UserlandVars ==
    <<part,
      v1, v2, v3, v4, v5, v6, v7, v8, v9, v10, v11, v12, v13, v14, v15, v16, v17, v18, v19,
      v20>>

UserlandInit ==
    \/ part = "aml" /\ Parse!AmInit /\ Zero7
    \/ part = "resources" /\ Parse!ArInit /\ Zero6
    \/ part = "dwarf" /\ Parse!DwInit /\ Zero14
    \/ part = "backtrace" /\ Parse!BtInit /\ Zero12
    \/ part = "fdt" /\ Parse!DtInit /\ Zero8
    \/ part = "wayland" /\ Prog!WsInit /\ Zero14
    \/ part = "shell" /\ Prog!ShInit /\ Zero13
    \/ part = "terminal" /\ Prog!TmInit /\ Zero8
    \/ part = "build" /\ Build!GbInit /\ Zero19
    \/ part = "menu" /\ Config!GmInit /\ Zero11
    \/ part = "kconfig" /\ Config!KpInit /\ Zero3
    \/ part = "vendor" /\ Build!VnInit /\ Zero11
    \/ part = "model" /\ Build!GmInit /\ Zero10
    \/ part = "modelcache" /\ Build!McInit /\ Zero11
    \/ part = "script" /\ Config!SmInit /\ Zero8
    \/ part = "libcstr" /\ Text!LsInit /\ Zero6
    \/ part = "libcconv" /\ Text!LcInit /\ Zero5
    \/ part = "qsort" /\ Text!LqInit /\ Zero5
    \/ part = "libcenv" /\ Text!LeInit /\ Zero5
    \/ part = "stdio" /\ Libc!LfInit /\ Zero12
    \/ part = "printf" /\ Text!LpInit /\ Zero7
    \/ part = "malloc" /\ Libc!LaInit /\ Zero9
    \/ part = "libcsys" /\ Libc!CcInit /\ Zero8
    \/ part = "libcsem" /\ Libc!SmInit /\ Zero7
    \/ part = "threads" /\ Libc!ThInit /\ Zero10
    \/ part = "tests" /\ Build!TrInit /\ Zero18

UserlandNext ==
    \/ part = "aml" /\ Parse!AmNext /\ UNCHANGED part /\ Keep7
    \/ part = "resources" /\ Parse!ArNext /\ UNCHANGED part /\ Keep6
    \/ part = "dwarf" /\ Parse!DwNext /\ UNCHANGED part /\ Keep14
    \/ part = "backtrace" /\ Parse!BtNext /\ UNCHANGED part /\ Keep12
    \/ part = "fdt" /\ Parse!DtNext /\ UNCHANGED part /\ Keep8
    \/ part = "wayland" /\ Prog!WsNext /\ UNCHANGED part /\ Keep14
    \/ part = "shell" /\ Prog!ShNext /\ UNCHANGED part /\ Keep13
    \/ part = "terminal" /\ Prog!TmNext /\ UNCHANGED part /\ Keep8
    \/ part = "build" /\ Build!GbNext /\ UNCHANGED part /\ Keep19
    \/ part = "menu" /\ Config!GmNext /\ UNCHANGED part /\ Keep11
    \/ part = "kconfig" /\ Config!KpNext /\ UNCHANGED part /\ Keep3
    \/ part = "vendor" /\ Build!VnNext /\ UNCHANGED part /\ Keep11
    \/ part = "model" /\ Build!GmNext /\ UNCHANGED part /\ Keep10
    \/ part = "modelcache" /\ Build!McNext /\ UNCHANGED part /\ Keep11
    \/ part = "script" /\ Config!SmNext /\ UNCHANGED part /\ Keep8
    \/ part = "libcstr" /\ Text!LsNext /\ UNCHANGED part /\ Keep6
    \/ part = "libcconv" /\ Text!LcNext /\ UNCHANGED part /\ Keep5
    \/ part = "qsort" /\ Text!LqNext /\ UNCHANGED part /\ Keep5
    \/ part = "libcenv" /\ Text!LeNext /\ UNCHANGED part /\ Keep5
    \/ part = "stdio" /\ Libc!LfNext /\ UNCHANGED part /\ Keep12
    \/ part = "printf" /\ Text!LpNext /\ UNCHANGED part /\ Keep7
    \/ part = "malloc" /\ Libc!LaNext /\ UNCHANGED part /\ Keep9
    \/ part = "libcsys" /\ Libc!CcNext /\ UNCHANGED part /\ Keep8
    \/ part = "libcsem" /\ Libc!SmNext /\ UNCHANGED part /\ Keep7
    \/ part = "threads" /\ Libc!ThNext /\ UNCHANGED part /\ Keep10
    \/ part = "tests" /\ Build!TrNext /\ UNCHANGED part /\ Keep18

UserlandSpec ==
    /\ UserlandInit /\ [][UserlandNext]_UserlandVars

-----------------------------------------------------------------------------
(* The properties of the components, where they are chosen. *)

\* Every program and tool does what it is asked to: the C library's functions give what the C
\* standard says, the shell wires its pipelines and gets its descriptors back, the
\* compositor and its clients understand each other, and the build tool builds what is
\* configured, from what is vendored.
ToolsRight ==
    CASE part = "aml" -> Parse!AmlTold /\ Parse!ScopesNested /\ Parse!NamespaceRight
      [] part = "resources" -> Parse!ResourcesRight
      [] part = "dwarf" -> Parse!RowsRight
      [] part = "backtrace" -> Parse!AddressesNamed /\ Parse!FramesWalked
      [] part = "fdt" -> Parse!LookupsRight
      [] part = "wayland" -> Prog!RequestsUnderstood /\ Prog!PoolsRight /\ Prog!NoneStuck /\ Prog!RunningShown
      [] part = "shell" -> Prog!Wired /\ Prog!FdsRestored /\ Prog!PipelineEnds /\ Prog!TokensKeepText
      [] part = "terminal" -> Prog!CursorInGrid /\ Prog!ShownCurrent /\ Prog!LastBeforeCursor /\ Prog!EndsWithShell
      [] part = "build" -> Build!BuildsCurrent
      [] part = "menu" -> Config!SavedIsBuilt /\ Config!PageSound /\ Config!SelectsSettle
      [] part = "kconfig" -> Config!ParsesBack /\ Config!MenuShowsOptions /\ Config!DefaultsTyped
      [] part = "vendor" -> Build!ResolutionClosed /\ Build!LockKept
      [] part = "model" -> Build!CyclesFound /\ Build!OrderRight /\ Build!NearestWins
      [] part = "modelcache" -> Build!WriterAlone /\ Build!HitsFresh
      [] part = "script" -> Config!ScriptRight
      [] part = "libcstr" -> Text!WritesRight /\ Text!SearchesRight /\ Text!TokensRight
      [] part = "libcconv" -> Text!IntegersRight /\ Text!FloatsRight
      [] part = "qsort" -> Text!SortsRight /\ Text!FindsRight
      [] part = "libcenv" -> Text!EnvironmentRight /\ Text!EnvironBounded
      [] part = "stdio" -> Libc!WrittenRight /\ Libc!ReadRight /\ Libc!LinesRight /\ Libc!NothingLost /\ Libc!BufferHolds
      [] part = "printf" -> Text!NumbersRight /\ Text!StringsRight /\ Text!FormatsRead /\ Text!BuffersRight
      [] part = "malloc" -> Libc!BlocksDisjoint /\ Libc!ContentsKept
      [] part = "libcsys" -> Libc!ErrnoTold /\ Libc!NoneLeaked
      [] part = "libcsem" -> Libc!PermitsKept /\ Libc!SpinExclusive
      [] part = "threads" -> Libc!ThreadsRunTheirs
      [] part = "tests" -> Build!VerdictRight /\ Build!CratesTestedOnce /\ Build!KernelsApart
      [] OTHER -> TRUE
=============================================================================
