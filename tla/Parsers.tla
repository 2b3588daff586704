------------------------------- MODULE Parsers ------------------------------
(*****************************************************************************)
(* The parsers: AML and its resources, DWARF line programs, the symbol tables of*)
(* back traces, and device trees.  Each is compared with a direct reading of the*)
(* same bytes.                                                               *)
(*****************************************************************************)
EXTENDS Integers, Sequences, SequencesExt, FiniteSets

-----------------------------------------------------------------------------
(***************************************************************************)
(* The single pass over ACPI byte code (crates/parse/acpi/src/aml/parser.rs)  *)
(* and the namespace built from it (aml/namespace.rs).  A source program is a  *)
(* tree of objects; AmlBytes is the encoding the parser meets, AmlEvents what   *)
(* a visitor must be told.  The walk itself works on the bytes alone, with a    *)
(* stack of the lists it is inside.                                            *)
(***************************************************************************)
CONSTANTS
    AmPrograms,     \* programs: sequences of objects
    MaxPathDepth,   \* MAX_PATH_DEPTH
    InlineCap       \* INLINE_STRING_CAP

VARIABLES
    amProgram,  \* the source
    amData,     \* its bytes
    amStack,    \* the term lists being parsed: [pos, end], innermost last
    amPath,     \* AmlPath
    amEvents,   \* calls of the visitor
    amNodes     \* NamespaceBuilder::nodes

amVars == <<amProgram, amData, amStack, amPath, amEvents, amNodes>>

\* NameSegs, and the characters one may start with.
SegHID == <<95, 72, 73, 68>>
SegADR == <<95, 65, 68, 82>>
SegCRS == <<95, 67, 82, 83>>
SegPRT == <<95, 80, 82, 84>>
SegNull == <<95, 95, 95, 95>>
LeadChars == 65..90 \cup {95}
Ones == -1                                     \* u64::MAX

-----------------------------------------------------------------------------
(* Source programs.  An object is [k, name, arg, body]: arg holds the bytes     *)
(* after the name and what they stand for.                                     *)

\* PkgLength: one byte below 64, or two.
Pkg(bytes, wide) ==
    LET n == Len(bytes) IN
    IF n + 1 < 64 /\ ~wide THEN <<n + 1>> \o bytes
    ELSE <<64 + ((n + 2) % 16), (n + 2) \div 16>> \o bytes

RECURSIVE AmlBytes(_)
AmlBytes(objects) ==
    IF objects = <<>> THEN <<>>
    ELSE LET o == Head(objects)
             wide == o.name[4] % 2 = 0
             rest == AmlBytes(Tail(objects))
         IN CASE o.k = "scope" -> <<16>> \o Pkg(o.arg.bytes \o o.name \o AmlBytes(o.body), wide) \o rest
              [] o.k = "device" -> <<91, 130>> \o Pkg(o.name \o AmlBytes(o.body), wide) \o rest
              [] o.k = "thermal" -> <<91, 133>> \o Pkg(o.name \o AmlBytes(o.body), wide) \o rest
              [] o.k = "method" -> <<20>> \o Pkg(o.name \o o.arg.bytes, wide) \o rest
              [] o.k = "processor" -> <<91, 131>> \o Pkg(o.name \o o.arg.bytes, wide) \o rest
              [] o.k = "power" -> <<91, 132>> \o Pkg(o.name \o o.arg.bytes, wide) \o rest
              [] o.k \in {"name", "prt"} -> <<8>> \o o.name \o o.arg.bytes \o rest
              [] OTHER -> o.arg.bytes \o rest

\* What a visitor must be told of the objects of one list; "bad" is an object the
\* parser cannot read, which ends its list.
RECURSIVE AmlEvents(_, _)
AmlEvents(objects, path) ==
    IF objects = <<>> \/ Head(objects).k = "bad" THEN <<>>
    ELSE LET o == Head(objects)
             inner == Append(path, o.name)
             block == <<<<"enter", inner>>>> \o AmlEvents(o.body, inner) \o <<<<"exit">>>>
             rest == AmlEvents(Tail(objects), path)
         IN CASE o.k = "scope" -> block \o rest
              [] o.k \in {"device", "thermal"} -> <<<<o.k, inner, o.name>>>> \o block \o rest
              [] o.k = "method" -> <<<<"method", path, o.name, o.arg.bytes[1] % 8, (o.arg.bytes[1] \div 8) % 2 = 1>>>> \o rest
              [] o.k = "processor" -> <<<<"processor", path, o.name, o.arg.bytes[1]>>>> \o rest
              [] o.k = "power" -> <<<<"power", path, o.name>>>> \o rest
              [] o.k = "name" -> <<<<"name", path, o.name, o.arg.value>>>>
                                 \o (IF o.arg.template = <<>> THEN <<>> ELSE <<<<"resource", path, o.name, o.arg.template>>>>) \o rest
              [] o.k = "prt" -> [i \in DOMAIN o.arg.value |-> <<"prt", path>> \o o.arg.value[i]] \o rest
              [] OTHER -> rest

-----------------------------------------------------------------------------
(* The reader: a position in a list that ends at e.                            *)

At(p) == amData[p + 1]
AwBytes(a, b) == SubSeq(amData, a + 1, b)
Little(bytes) == FoldRight(LAMBDA b, acc : 256 * acc + b, bytes, 0)

\* BinaryReader::read: nothing when fewer bytes are left; BinaryReader::skip: no
\* move when fewer bytes are left.
AwHas(p, e, n) == p + n <= e
Skip(p, e, n) == IF AwHas(p, e, n) THEN p + n ELSE p

\* skip_to
SkipTo(p, e, target) == IF target > e THEN e ELSE IF target > p THEN target ELSE p

\* The body with a name for a value that is computed once.
AwWith(e, Body(_)) == CHOOSE r \in {Body(x) : x \in {e}} : TRUE

Failed(p) == [ok |-> FALSE, pos |-> p, rest |-> 0]
Moved(p, rest) == [ok |-> TRUE, pos |-> p, rest |-> rest]

\* decode_pkg_length: the bytes of the block that are still to come.
DecodePkgLength(p, e) ==
    IF ~AwHas(p, e, 1) THEN Failed(p)
    ELSE LET count == At(p) \div 64
             length == IF count = 0 THEN At(p) % 64
                       ELSE (At(p) % 16) + 16 * Little(AwBytes(p + 1, p + 1 + count))
         IN IF ~AwHas(p, e, 1 + count) THEN Failed(p)
            ELSE Moved(p + 1 + count, IF length < 1 + count THEN 0 ELSE length - (1 + count))

\* skip_pkg_length_block
SkipPkgLengthBlock(p, e) ==
    LET l == DecodePkgLength(p, e) IN
    IF l.ok THEN Moved(SkipTo(l.pos, e, l.pos + l.rest), 0) ELSE l

\* The prefixes "\" and "^" of a name.
AfterPrefix(p, e) == CHOOSE q \in p..e : (q = e \/ At(q) \notin {92, 94}) /\ \A r \in p..q - 1 : At(r) \in {92, 94}

\* skip_name_string
SkipNameString(p, e) ==
    LET q == AfterPrefix(p, e) IN
    IF q = e THEN Failed(q) ELSE
    CASE At(q) = 0 -> Moved(q + 1, 0)
      [] At(q) = 46 -> Moved(Skip(q, e, 9), 0)
      [] At(q) = 47 -> IF AwHas(q, e, 2) THEN Moved(Skip(q + 2, e, 4 * At(q + 1)), 0) ELSE Failed(q + 1)
      [] At(q) \in LeadChars -> Moved(Skip(q, e, 4), 0)
      [] OTHER -> Failed(q)

\* skip_remaining_name_after_lead: the lead byte is already read.
SkipRemainingName(lead, p, e) ==
    CASE lead \in {92, 94} -> SkipNameString(p, e)
      [] lead = 46 -> Moved(Skip(p, e, 8), 0)
      [] lead = 47 -> IF AwHas(p, e, 1) THEN Moved(Skip(p + 1, e, 4 * At(p)), 0) ELSE Failed(p)
      [] OTHER -> Moved(Skip(p, e, 3), 0)

\* read_name_path: the last segment, and where it ends.
ReadNamePath(p, e) ==
    LET q == AfterPrefix(p, e)
        Segs(from, n) == IF AwHas(from, e, 4 * n) THEN [ok |-> TRUE, pos |-> from + 4 * n, name |-> AwBytes(from + 4 * n - 4, from + 4 * n)]
                         ELSE [ok |-> FALSE, pos |-> from, name |-> SegNull]
        Null(at) == [ok |-> TRUE, pos |-> at, name |-> SegNull]
        Bad == [ok |-> FALSE, pos |-> q, name |-> SegNull]
    IN IF q = e THEN Bad ELSE
       CASE At(q) = 0 -> Null(q + 1)
         [] At(q) = 46 -> Segs(q + 1, 2)
         [] At(q) = 47 -> IF ~AwHas(q, e, 2) THEN Bad ELSE IF At(q + 1) = 0 THEN Null(q + 2) ELSE Segs(q + 2, At(q + 1))
         [] At(q) \in LeadChars -> Segs(q, 1)
         [] OTHER -> Bad

\* skip_string: past the terminator, or to the end.
SkipString(p, e) == CHOOSE q \in p..e : (q = e \/ (q > p /\ At(q - 1) = 0)) /\ \A r \in p..q - 2 : At(r) # 0

\* skip_data_object
SkipDataObject(p, e) ==
    IF ~AwHas(p, e, 1) THEN Failed(p)
    ELSE CASE At(p) = 10 -> Moved(Skip(p, e, 2), 0)
           [] At(p) = 11 -> Moved(Skip(p, e, 3), 0)
           [] At(p) = 12 -> Moved(Skip(p, e, 5), 0)
           [] At(p) = 13 -> Moved(SkipString(p + 1, e), 0)
           [] At(p) = 14 -> Moved(Skip(p, e, 9), 0)
           [] At(p) \in 17..19 -> SkipPkgLengthBlock(p + 1, e)
           [] At(p) \in LeadChars \cup {92, 94} -> SkipNameString(p, e)
           [] OTHER -> Moved(Skip(p, e, 1), 0)

\* read_prt_integer: the value, if it is an integer, and where the reader is.
IntegerWidth(op) == CASE op = 10 -> 1 [] op = 11 -> 2 [] op = 12 -> 4 [] OTHER -> 8
ReadInteger(p, e) ==
    IF ~AwHas(p, e, 1) THEN [some |-> FALSE, value |-> 0, pos |-> p] ELSE
    CASE At(p) \in {0, 1} -> [some |-> TRUE, value |-> At(p), pos |-> p + 1]
      [] At(p) = 255 -> [some |-> TRUE, value |-> Ones, pos |-> p + 1]
      [] At(p) \in {10, 11, 12, 14} ->
            LET w == IntegerWidth(At(p)) IN
            IF AwHas(p + 1, e, w) THEN [some |-> TRUE, value |-> Little(AwBytes(p + 1, p + 1 + w)), pos |-> p + 1 + w]
            ELSE [some |-> FALSE, value |-> 0, pos |-> p + 1]
      [] OTHER -> [some |-> FALSE, value |-> 0, pos |-> p]

\* looks_like_resource_template
LooksLikeTemplate(bytes) ==
    /\ bytes # <<>>
    /\ IF bytes[1] >= 128 THEN bytes[1] % 128 \in 1..14 ELSE (bytes[1] \div 8) % 16 \in {4, 5, 6, 8, 9, 14}
    /\ 121 \in Range(bytes)

Resolved(value, template, p) == [value |-> value, template |-> template, pos |-> p]

\* try_resolve_buffer: four bytes are an EISA identifier, a buffer that looks
\* like one is a resource template.
ResolveBuffer(p, e) ==
    AwWith(DecodePkgLength(p + 1, e), LAMBDA l :
    AwWith(SkipTo(l.pos, e, l.pos + l.rest), LAMBDA end :
    IF ~l.ok \/ l.pos = e THEN Resolved(<<"none">>, <<>>, end)
    ELSE AwWith(ReadInteger(l.pos, e), LAMBDA size :
         AwWith(At(l.pos) \in {0, 10, 12}, LAMBDA known :
         AwWith(known /\ size.some /\ size.value = 4, LAMBDA four :
         AwWith(IF known THEN size.pos ELSE l.pos, LAMBDA data :
         AwWith(IF four /\ AwHas(data, e, 1) /\ At(data) = 12 THEN data + 1 ELSE data, LAMBDA raw :
         IF four /\ AwHas(raw, e, 4)
         THEN Resolved(<<"eisa", Little(AwBytes(raw, raw + 4))>>, <<>>, SkipTo(raw + 4, e, l.pos + l.rest))
         ELSE Resolved(<<"none">>, IF LooksLikeTemplate(AwBytes(raw, end)) THEN AwBytes(raw, end) ELSE <<>>, end))))))))

\* resolve_data_object: what it does not know it leaves unread.
ResolveDataObject(p, e) ==
    IF ~AwHas(p, e, 1) THEN Resolved(<<"none">>, <<>>, p) ELSE
    CASE At(p) = 13 -> LET q == SkipString(p + 1, e)
                         n == q - 1 - (p + 1)
                     IN Resolved(<<"string", AwBytes(p + 1, p + 1 + (IF n > InlineCap THEN InlineCap ELSE IF n < 0 THEN 0 ELSE n))>>, <<>>, q)
      [] At(p) = 17 -> ResolveBuffer(p, e)
      [] At(p) \in {18, 19} -> Resolved(<<"none">>, <<>>, SkipPkgLengthBlock(p + 1, e).pos)
      [] At(p) = 91 /\ AwHas(p, e, 2) /\ At(p + 1) = 48 -> Resolved(<<"int", 2>>, <<>>, p + 2)
      [] OTHER -> LET i == ReadInteger(p, e) IN Resolved(IF i.some THEN <<"int", i.value>> ELSE <<"none">>, <<>>, i.pos)

-----------------------------------------------------------------------------
(* The walk.  One step is one object of the innermost list.                    *)

Top == Last(amStack)
P == Top.pos
E == Top.end

AmInit ==
    /\ amProgram \in AmPrograms
    /\ amData = AmlBytes(amProgram)
    /\ amStack = <<[pos |-> 0, end |-> Len(amData)]>>
    /\ amPath = <<>> /\ amEvents = <<>> /\ amNodes = <<>>

Goto(p) == amStack' = [amStack EXCEPT ![Len(amStack)].pos = p]

\* An object that cannot be read ends its list: the rest of it is not looked at.
BreakList == Goto(E)

\* AmlPath::push, AmlPath::pop
PathPush(seg) == IF Len(amPath) >= MaxPathDepth THEN amPath ELSE Append(amPath, seg)
PathPop == IF amPath = <<>> THEN <<>> ELSE Front(amPath)

\* NamespaceBuilder: a node per device, method, thermal zone, processor and power
\* resource; names go to the node that was added last, if it is a device.
NewNode(path, name, kind) ==
    [path |-> path, name |-> name, kind |-> kind, hid |-> <<"none">>, adr |-> <<"none">>, resources |-> <<>>, prt |-> <<>>]
AddNode(path, name, kind) == amNodes' = Append(amNodes, NewNode(path, name, kind))
ToLastDevice(node) ==
    IF amNodes # <<>> /\ Last(amNodes).kind = "device" THEN [amNodes EXCEPT ![Len(amNodes)] = node] ELSE amNodes

\* The part parse_def_scope, parse_def_device and parse_def_thermal_zone share:
\* the objects inside are a list of their own, cut at the end of the list around.
EnterList(path, events, from, end) ==
    /\ amPath' = path
    /\ amEvents' = amEvents \o events
    /\ amStack' = Append([amStack EXCEPT ![Len(amStack)].pos = SkipTo(from, E, end)], [pos |-> from, end |-> SkipTo(from, E, end)])

\* parse_def_scope
ParseDefScope ==
    /\ At(P) = 16
    /\ \E l \in {DecodePkgLength(P + 1, E)} : \E n \in {ReadNamePath(l.pos, E)} : \E path \in {PathPush(n.name)} :
          IF l.ok /\ n.ok
          THEN EnterList(path, <<<<"enter", path>>>>, n.pos, l.pos + l.rest)
          ELSE BreakList /\ UNCHANGED <<amPath, amEvents>>
    /\ UNCHANGED amNodes

\* parse_def_device, parse_def_thermal_zone: told, and entered.
ParseDefBlock(op, kind) ==
    /\ At(P) = 91 /\ AwHas(P, E, 2) /\ At(P + 1) = op
    /\ \E l \in {DecodePkgLength(P + 2, E)} : \E name \in {AwBytes(l.pos, l.pos + 4)} : \E path \in {PathPush(name)} :
          IF l.ok /\ AwHas(l.pos, E, 4)
          THEN EnterList(path, <<<<kind, path, name>>, <<"enter", path>>>>, l.pos + 4, l.pos + l.rest) /\ AddNode(path, name, kind)
          ELSE BreakList /\ UNCHANGED <<amPath, amEvents, amNodes>>

ParseDefDevice == ParseDefBlock(130, "device")
ParseDefThermalZone == ParseDefBlock(133, "thermal")

\* parse_def_method, parse_def_processor, parse_def_power_res: told, and skipped
\* with all they hold.  from is behind the opcode, n the bytes after the name.
AwTold(from, n, kind, More(_)) ==
    \E l \in {DecodePkgLength(from, E)} : \E name \in {AwBytes(l.pos, l.pos + 4)} :
       IF l.ok /\ AwHas(l.pos, E, 4 + n)
       THEN /\ amEvents' = Append(amEvents, <<kind, amPath, name>> \o More(l.pos + 4))
            /\ AddNode(amPath, name, kind)
            /\ Goto(SkipTo(l.pos + 4 + n, E, l.pos + l.rest))
       ELSE BreakList /\ UNCHANGED <<amEvents, amNodes>>

ParseDefMethod ==
    /\ At(P) = 20
    /\ AwTold(P + 1, 1, "method", LAMBDA q : <<At(q) % 8, (At(q) \div 8) % 2 = 1>>)
    /\ UNCHANGED amPath

ParseDefProcessor ==
    /\ At(P) = 91 /\ AwHas(P, E, 2) /\ At(P + 1) = 131
    /\ AwTold(P + 2, 1, "processor", LAMBDA q : <<At(q)>>)
    /\ UNCHANGED amPath

ParseDefPowerRes ==
    /\ At(P) = 91 /\ AwHas(P, E, 2) /\ At(P + 1) = 132
    /\ AwTold(P + 2, 0, "power", LAMBDA q : <<>>)
    /\ UNCHANGED amPath

\* A _PRT whose value is a package is left to parse_prt_package.
IsPrt == AwBytes(P + 1, P + 5) = SegPRT /\ AwHas(P, E, 6) /\ At(P + 5) \in {18, 19}

\* NamespaceBuilder::name_object
NameObject(name, value) ==
    LET d == Last(amNodes) IN
    IF amNodes = <<>> THEN amNodes ELSE
    CASE name = SegHID -> ToLastDevice([d EXCEPT !.hid = value])
      [] name = SegADR -> ToLastDevice([d EXCEPT !.adr = value])
      [] OTHER -> amNodes

\* NamespaceBuilder::resource_template
ResourceTemplate(name, value, template) ==
    IF name = SegCRS /\ template # <<>> /\ amNodes # <<>>
    THEN ToLastDevice([Last(amNodes) EXCEPT !.resources = template])
    ELSE NameObject(name, value)

\* parse_def_name
ParseDefName ==
    /\ At(P) = 8 /\ ~IsPrt
    /\ \E name \in {AwBytes(P + 1, P + 5)} : \E d \in {ResolveDataObject(P + 5, E)} :
          IF AwHas(P + 1, E, 4)
          THEN /\ amEvents' = amEvents \o <<<<"name", amPath, name, d.value>>>>
                                       \o (IF d.template = <<>> THEN <<>> ELSE <<<<"resource", amPath, name, d.template>>>>)
               /\ amNodes' = ResourceTemplate(name, d.value, d.template)
               /\ Goto(d.pos)
          ELSE BreakList /\ UNCHANGED <<amEvents, amNodes>>
    /\ UNCHANGED amPath

\* One inner package of parse_prt_package: an entry when the source is a literal
\* zero; a link device is passed over.
PrtEntry(p, e) ==
    AwWith(DecodePkgLength(p + 1, e), LAMBDA l :
    AwWith(ReadInteger(l.pos + 1, e), LAMBDA address :
    AwWith(ReadInteger(address.pos, e), LAMBDA pin :
    AwWith(AwHas(pin.pos, e, 1) /\ At(pin.pos) = 0, LAMBDA zero :
    AwWith(IF zero THEN pin.pos + 1 ELSE SkipNameString(pin.pos, e).pos, LAMBDA source :
    AwWith(ReadInteger(source, e), LAMBDA index :
        [ok |-> l.ok /\ AwHas(l.pos, e, 1),
         pos |-> SkipTo(index.pos, e, l.pos + l.rest),
         entry |-> IF zero /\ address.some /\ pin.some /\ index.some
                   THEN <<<<address.value, pin.value % 256, index.value>>>> ELSE <<>>]))))))

\* The inner packages one after the other, up to something else.
RECURSIVE PrtEntries(_, _, _)
PrtEntries(p, end, e) ==
    IF p >= end \/ p >= e \/ At(p) \notin {18, 19} THEN [ok |-> TRUE, entries |-> <<>>]
    ELSE AwWith(PrtEntry(p, e), LAMBDA x :
         IF ~x.ok THEN [ok |-> FALSE, entries |-> <<>>]
         ELSE AwWith(PrtEntries(x.pos, end, e), LAMBDA more : [ok |-> more.ok, entries |-> x.entry \o more.entries]))

\* parse_prt_package
ParsePrtPackage ==
    /\ At(P) = 8 /\ IsPrt
    /\ \E l \in {DecodePkgLength(P + 6, E)} : \E x \in {PrtEntries(l.pos + 1, l.pos + l.rest, E)} :
          IF ~l.ok \/ ~AwHas(l.pos, E, 1) THEN BreakList /\ UNCHANGED <<amEvents, amNodes>>
          ELSE /\ amEvents' = amEvents \o [i \in DOMAIN x.entries |-> <<"prt", amPath>> \o x.entries[i]]
               /\ amNodes' = IF amNodes = <<>> THEN amNodes ELSE ToLastDevice([Last(amNodes) EXCEPT !.prt = @ \o x.entries])
               /\ IF x.ok THEN Goto(SkipTo(l.pos + 1, E, l.pos + l.rest)) ELSE BreakList
    /\ UNCHANGED amPath

\* skip_op_region: name, space, offset, length.
SkipOpRegion(p, e) ==
    LET name == SkipNameString(p, e)
        offset == SkipDataObject(Skip(name.pos, e, 1), e)
    IN IF name.ok /\ offset.ok THEN SkipDataObject(offset.pos, e) ELSE Failed(p)

\* What parse_term_obj passes over without telling anybody.
Passed(p, e) ==
    CASE At(p) \in {17, 18, 19, 160, 161, 162} -> SkipPkgLengthBlock(p + 1, e)
      [] At(p) \in {10, 11, 12, 14} -> Moved(Skip(p + 1, e, IntegerWidth(At(p))), 0)
      [] At(p) = 13 -> Moved(SkipString(p + 1, e), 0)
      [] At(p) \in LeadChars \cup {46, 47, 92, 94} -> SkipRemainingName(At(p), p + 1, e)
      [] At(p) = 164 -> SkipDataObject(p + 1, e)
      [] OTHER -> Moved(p + 1, 0)

\* The same after the prefix byte 0x5B.
PassedExt(p, e) ==
    IF ~AwHas(p, e, 1) THEN Failed(p) ELSE
    CASE At(p) = 128 -> SkipOpRegion(p + 1, e)
      [] At(p) \in {1, 2} -> LET n == SkipNameString(p + 1, e) IN IF n.ok THEN Moved(Skip(n.pos, e, 1), 0) ELSE n
      [] At(p) \in {13, 19} -> Failed(p)
      [] OTHER -> SkipPkgLengthBlock(p + 1, e)

SkipObject ==
    /\ At(P) \notin {8, 16, 20}
    /\ At(P) = 91 /\ AwHas(P, E, 2) => At(P + 1) \notin 130..133
    /\ \E x \in {IF At(P) = 91 THEN PassedExt(P + 1, E) ELSE Passed(P, E)} :
       IF x.ok THEN Goto(x.pos) ELSE BreakList
    /\ UNCHANGED <<amPath, amEvents, amNodes>>

ParseTermObj ==
    /\ amStack # <<>> /\ P < E
    /\ \/ ParseDefName \/ ParsePrtPackage \/ ParseDefScope \/ ParseDefMethod \/ ParseDefDevice \/ ParseDefThermalZone
       \/ ParseDefProcessor \/ ParseDefPowerRes \/ SkipObject
    /\ UNCHANGED <<amProgram, amData>>

\* The end of a list: the scope is left and the list around it goes on.
EndList ==
    /\ amStack # <<>> /\ P >= E
    /\ amStack' = Front(amStack)
    /\ IF Len(amStack) = 1 THEN UNCHANGED <<amPath, amEvents>>
       ELSE amPath' = PathPop /\ amEvents' = Append(amEvents, <<"exit">>)
    /\ UNCHANGED <<amProgram, amData, amNodes>>

AmNext == ParseTermObj \/ EndList

AmSpec == AmInit /\ [][AmNext]_amVars

-----------------------------------------------------------------------------
\* The visitor is told exactly the objects of the program, each with the path of
\* the blocks around it, in order; an object the parser cannot read costs the
\* rest of the block it stands in and nothing outside it.
AmlTold == amStack = <<>> => amEvents = AmlEvents(amProgram, <<>>)

\* While the walk is inside n blocks, n more scopes have been entered than left,
\* the path has one segment for each, and every list lies inside the one around.
ScopesNested ==
    /\ amStack # <<>> =>
          /\ Len(amPath) = Len(amStack) - 1
          /\ Len(SelectSeq(amEvents, LAMBDA x : x[1] = "enter")) - Len(SelectSeq(amEvents, LAMBDA x : x[1] = "exit")) = Len(amStack) - 1
    /\ \A i \in 2..Len(amStack) : amStack[i].end <= amStack[i - 1].pos /\ amStack[i].pos <= amStack[i].end

\* Names stand before the objects that are nodes of their own.
RECURSIVE NamesFirst(_)
NamesFirst(objects) ==
    /\ \A i, j \in DOMAIN objects : i < j /\ objects[j].k \in {"name", "prt"} => objects[i].k \in {"name", "prt", "skip"}
    /\ \A i \in DOMAIN objects : NamesFirst(objects[i].body) /\ objects[i].k \in {"scope", "thermal"} =>
                                     \A j \in DOMAIN objects[i].body : objects[i].body[j].k # "name"

Named(o, seg) ==
    LET is == {i \in DOMAIN o.body : o.body[i].k = "name" /\ o.body[i].name = seg /\ \A j \in 1..i : o.body[j].k # "bad"} IN
    IF is = {} THEN <<"none">> ELSE o.body[CHOOSE i \in is : \A j \in is : j <= i].arg.value

\* The devices of a program with what their own names say of them.
RECURSIVE AmlDevices(_)
AmlDevices(objects) ==
    IF objects = <<>> \/ Head(objects).k = "bad" THEN <<>>
    ELSE LET o == Head(objects) IN
         (IF o.k = "device" THEN <<<<o.name, Named(o, SegHID), Named(o, SegADR)>>>> ELSE <<>>)
         \o AmlDevices(o.body) \o AmlDevices(Tail(objects))

\* The namespace has the program's devices in order, each with its own _HID and
\* _ADR, when the names of a device stand before the devices and methods in it.
NamespaceRight ==
    amStack = <<>> /\ NamesFirst(amProgram) =>
        LET ds == SelectSeq(amNodes, LAMBDA n : n.kind = "device") IN
        [i \in DOMAIN ds |-> <<ds[i].name, ds[i].hid, ds[i].adr>>] = AmlDevices(amProgram)

-----------------------------------------------------------------------------
(***************************************************************************)
(* The iterator over a resource template (crates/parse/acpi/src/resource.rs):  *)
(* small descriptors with their length in the tag, large ones with two bytes    *)
(* of length.  A template is laid out from a list of descriptors, some of them   *)
(* longer than the iterator knows, of unknown type, or with nothing in them.     *)
(***************************************************************************)
CONSTANT ArTemplates    \* templates: sequences of [bytes, means]

VARIABLES
    arSource,   \* the descriptors
    arData,     \* their bytes
    arPos,      \* ResourceIter::pos
    arOut,      \* what the iterator has given
    arOver      \* it has ended

arVars == <<arSource, arData, arPos, arOut, arOver>>

ArInit ==
    /\ arSource \in ArTemplates
    /\ arData = FlattenSeq([i \in DOMAIN arSource |-> arSource[i].bytes])
    /\ arPos = 0 /\ arOut = <<>> /\ arOver = FALSE

Left(p, n) == p + n <= Len(arData)
ArLe(p, n) == FoldRight(LAMBDA b, acc : 256 * acc + b, SubSeq(arData, p + 1, p + n), 0)
Bit(flags, mask) == (flags \div mask) % 2 = 1
Sought(p, n) == IF p + n > Len(arData) THEN Len(arData) ELSE p + n

\* trailing_zeros, of a mask of the given width.
TrailingZeros(m, width) == IF m = 0 THEN width ELSE CHOOSE k \in 0..width - 1 : Bit(m, 2^k) /\ \A j \in 0..k - 1 : ~Bit(m, 2^j)

Nothing(p) == [pos |-> p, item |-> <<>>]

Total(widths) == FoldLeft(LAMBDA n, w : n + w, 0, widths)

\* The fields of a descriptor are read one after the other; where the template is
\* cut off the reader is left behind the last that was whole.
Cut(p, widths) == p + Total(SubSeq(widths, 1, CHOOSE k \in 0..Len(widths) : Left(p, Total(SubSeq(widths, 1, k))) /\ (k = Len(widths) \/ ~Left(p, Total(SubSeq(widths, 1, k + 1))))))

\* The bytes of a small descriptor beyond the ones that are read are skipped.
AfterSmall(p, length, need) == Sought(p + need, length - need)

SmallFields(type, length) ==
    CASE type = 4 /\ length >= 2 -> IF length >= 3 THEN <<2, 1>> ELSE <<2>>
      [] type = 5 /\ length >= 2 -> <<1, 1>>
      [] type = 8 /\ length >= 7 -> <<1, 2, 2, 1, 1>>
      [] type = 9 /\ length >= 3 -> <<2, 1>>
      [] OTHER -> <<>>

\* The resource of a small descriptor whose fields start at p.
SmallItem(type, length, p) ==
    CASE type = 4 -> LET irq == TrailingZeros(ArLe(p, 2), 16) IN
                     IF irq >= 16 THEN <<>> ELSE <<<<"irq", irq, length < 3 \/ Bit(ArLe(p + 2, 1), 1), length >= 3 /\ Bit(ArLe(p + 2, 1), 8)>>>>
      [] type = 5 -> LET channel == TrailingZeros(ArLe(p, 1), 8) IN
                     IF channel >= 8 THEN <<>> ELSE <<<<"dma", channel, Bit(ArLe(p + 1, 1), 4)>>>>
      [] type = 8 -> <<<<"io", ArLe(p + 1, 2), ArLe(p + 6, 1)>>>>
      [] OTHER -> <<<<"fixedio", ArLe(p, 2), ArLe(p + 2, 1)>>>>

\* parse_small; p is behind the tag.
ParseSmall(tag, p) ==
    LET type == (tag \div 8) % 16
        length == tag % 8
        fields == SmallFields(type, length)
    IN IF type = 15 THEN Nothing(p)
       ELSE IF fields = <<>> THEN Nothing(Sought(p, length))
       ELSE IF ~Left(p, Total(fields)) THEN Nothing(Cut(p, fields))
       ELSE [pos |-> AfterSmall(p, length, Total(fields)), item |-> SmallItem(type, length, p)]

LargeFields(type, length, p) ==
    CASE type = 5 /\ length >= 9 -> IF length >= 17 THEN <<1, 4, 4, 4, 4>> ELSE <<1, 4, 4>>
      [] type = 6 /\ length >= 9 -> <<1, 4, 4>>
      [] type = 7 /\ length >= 23 -> <<1, 1, 1, 4, 4, 4, 4, 4>>
      [] type = 9 /\ length >= 6 -> IF Left(p, 2) /\ ArLe(p + 1, 1) = 0 THEN <<1, 1>> ELSE <<1, 1, 4>>
      [] type = 10 /\ length >= 43 -> <<1, 1, 1, 8, 8, 8, 8, 8>>
      [] OTHER -> <<>>

\* The resource of a large descriptor whose body starts at p.
LargeItem(type, length, p) ==
    CASE type = 5 -> IF length >= 17 THEN <<<<"memory", ArLe(p + 1, 4), ArLe(p + 13, 4), Bit(ArLe(p, 1), 1)>>>> ELSE <<>>
      [] type = 6 -> <<<<"fixedmemory", ArLe(p + 1, 4), ArLe(p + 5, 4), Bit(ArLe(p, 1), 1)>>>>
      [] type = 7 -> (CASE ArLe(p, 1) = 0 -> <<<<"memory", ArLe(p + 7, 4), ArLe(p + 19, 4), Bit(ArLe(p + 2, 1), 1)>>>>
                        [] ArLe(p, 1) = 1 -> <<<<"io", ArLe(p + 7, 4) % 65536, ArLe(p + 19, 4) % 65536>>>>
                        [] OTHER -> <<>>)
      [] type = 9 -> IF ArLe(p + 1, 1) = 0 THEN <<>> ELSE <<<<"extirq", ArLe(p + 2, 4), Bit(ArLe(p, 1), 2), Bit(ArLe(p, 1), 8)>>>>
      [] OTHER -> IF ArLe(p, 1) = 0 THEN <<<<"memory64", ArLe(p + 11, 8), ArLe(p + 35, 8), Bit(ArLe(p + 2, 1), 1)>>>> ELSE <<>>

\* parse_large: whatever is read of a whole body, the next descriptor is after it.
ParseLarge(tag, p) ==
    LET type == tag % 128
        length == ArLe(p, 2)
        fields == LargeFields(type, length, p + 2)
    IN IF ~Left(p, 2) THEN Nothing(p)
       ELSE IF fields = <<>> THEN Nothing(p + 2 + length)
       ELSE IF ~Left(p + 2, Total(fields)) THEN Nothing(Cut(p + 2, fields))
       ELSE [pos |-> p + 2 + length, item |-> LargeItem(type, length, p + 2)]

\* ResourceIter::next, one descriptor: the end tag ends the list whatever follows.
NextResource ==
    /\ ~arOver
    /\ IF arPos >= Len(arData) \/ ArLe(arPos, 1) = 121
       THEN arOver' = TRUE /\ UNCHANGED <<arPos, arOut>>
       ELSE \E r \in {IF ArLe(arPos, 1) >= 128 THEN ParseLarge(ArLe(arPos, 1), arPos + 1) ELSE ParseSmall(ArLe(arPos, 1), arPos + 1)} :
            arPos' = r.pos /\ arOut' = arOut \o r.item /\ UNCHANGED arOver
    /\ UNCHANGED <<arSource, arData>>

ArNext == NextResource

ArSpec == ArInit /\ [][ArNext]_arVars

-----------------------------------------------------------------------------
\* The descriptors before the end tag.
Meant ==
    LET ends == {i \in DOMAIN arSource : arSource[i].bytes[1] = 121}
        n == IF ends = {} THEN Len(arSource) ELSE (CHOOSE i \in ends : \A j \in ends : i <= j) - 1
    IN FlattenSeq([i \in 1..n |-> arSource[i].means])

\* The iterator gives the resources of the template, each once and in order,
\* whatever descriptors without a resource, of an unknown type or with bytes it
\* does not know stand between them, and nothing behind the end tag.
ResourcesRight == arOver => arOut = Meant

-----------------------------------------------------------------------------
(***************************************************************************)
(* The reader of .debug_line (crates/parse/dwarf): the units of the section,   *)
(* the header of a unit in versions 4 and 5, and the line-number program as      *)
(* a machine over bytes.  The section is laid out from units given as tables       *)
(* and operations, some of them malformed; DwWord is the width of the machine       *)
(* word in bits.                                                                    *)
(***************************************************************************)
CONSTANTS
    DwWord,         \* 64
    MaxDirectories, \* MAX_DIRECTORIES
    MaxFiles,       \* MAX_FILES
    MaxLengths,     \* MAX_STANDARD_OPCODE_LENGTHS
    DwSections      \* sections: sequences of [bytes, dirs, files, version, ops]

VARIABLES
    dwSource,   \* the units of the section
    dwData,     \* its bytes
    dwAt,       \* DebugLine::offset
    dwPc,       \* what is read next
    dwEnd,      \* where the unit ends
    dwCur,      \* where in it the reader is
    dwHead,     \* the fixed part of its header
    dwForms,    \* version 5: the (content type, form) pairs of the table
    dwLeft,     \* version 5: entries of the table not read yet
    dwDirs,     \* directories
    dwFiles,    \* files: <<directory index, name>>
    dwRegs,     \* the registers of the line-number machine
    dwRows      \* the rows it has given, with the file and the directory looked up

dwVars == <<dwSource, dwData, dwAt, dwPc, dwEnd, dwCur, dwHead, dwForms, dwLeft, dwDirs, dwFiles, dwRegs, dwRows>>

\* What follows is evaluated once, whatever the number of its uses.
DlWith(e, Body(_)) == CHOOSE r \in {Body(x) : x \in {e}} : TRUE

ByteAt(p) == dwData[p + 1]
DlLe(p, n) == FoldRight(LAMBDA b, acc : 256 * acc + b, SubSeq(dwData, p + 1, p + n), 0)

NoHead == [version |-> 0]

DwInit ==
    /\ dwSource \in DwSections
    /\ dwData = FlattenSeq([i \in DOMAIN dwSource |-> dwSource[i].bytes])
    /\ dwAt = 0 /\ dwPc = "unit" /\ dwEnd = 0 /\ dwCur = 0 /\ dwHead = NoHead
    /\ dwForms = <<>> /\ dwLeft = 0 /\ dwDirs = <<>> /\ dwFiles = <<>>
    /\ dwRegs = <<>> /\ dwRows = <<>>

-----------------------------------------------------------------------------
DlNone == <<>>

\* Every byte but the first must fit above what is there.
UlebFits(bytes) ==
    \A k \in DOMAIN bytes :
        7 * (k - 1) < DwWord /\ (k > 1 => bytes[k] % 128 < 2^(DwWord - 7 * (k - 1)))

\* The bytes of the number at p, its last the first one below 128.
LebBytes(p) ==
    LET ends == {k \in p..dwEnd - 1 : ByteAt(k) < 128}
    IN IF ends = {} THEN DlNone ELSE SubSeq(dwData, p + 1, (CHOOSE k \in ends : \A j \in ends : k <= j) + 1)

Unsigned(bytes) == FoldRight(LAMBDA b, acc : 128 * acc + (b % 128), bytes, 0)

\* decode_uleb128: <<value, position behind it>>.
DecodeUleb(p) ==
    DlWith(LebBytes(p), LAMBDA b : IF b = DlNone \/ ~UlebFits(b) THEN DlNone ELSE <<Unsigned(b), p + Len(b)>>)

\* decode_sleb128: a number of more bytes than the word has is refused, the bits
\* of the last byte that do not fit are lost.
DecodeSleb(p) ==
    DlWith(LebBytes(p), LAMBDA b :
        IF b = DlNone \/ 7 * (Len(b) - 1) >= DwWord THEN DlNone
        ELSE LET raw == Unsigned(b) % 2^DwWord
                 top == 2^(IF 7 * Len(b) < DwWord THEN 7 * Len(b) ELSE DwWord)
             IN <<IF raw >= top \div 2 THEN raw - top ELSE raw, p + Len(b)>>)

\* read_nul_str: <<string, position behind its NUL>>.
DlReadNulStr(p) ==
    LET ends == {k \in p..dwEnd - 1 : ByteAt(k) = 0}
    IN IF ends = {} THEN DlNone ELSE DlWith(CHOOSE k \in ends : \A j \in ends : k <= j, LAMBDA e : <<SubSeq(dwData, p + 1, e), e + 1>>)

-----------------------------------------------------------------------------
\* LineProgramHeader::parse gives up and DebugLine::next goes on with the next
\* unit.
SkipUnit ==
    /\ dwPc' = "unit"
    /\ UNCHANGED <<dwSource, dwData, dwAt, dwEnd, dwCur, dwHead, dwForms, dwLeft, dwDirs, dwFiles, dwRegs, dwRows>>

\* DebugLine::next: a unit of length zero, or one that does not end within the
\* section, ends the list.
NextUnit ==
    /\ dwPc = "unit"
    /\ IF Len(dwData) - dwAt < 4 \/ DlLe(dwAt, 4) = 0 \/ dwAt + 4 + DlLe(dwAt, 4) > Len(dwData)
       THEN dwPc' = "over" /\ UNCHANGED <<dwAt, dwEnd, dwCur>>
       ELSE /\ dwEnd' = dwAt + 4 + DlLe(dwAt, 4)
            /\ dwCur' = dwAt /\ dwAt' = dwEnd' /\ dwPc' = "fixed"
    /\ dwDirs' = <<>> /\ dwFiles' = <<>>
    /\ UNCHANGED <<dwSource, dwData, dwHead, dwForms, dwLeft, dwRegs, dwRows>>

\* Where the fields of a fixed header stand: version 5 has two bytes more in
\* front of the length.
LengthAt(version) == dwCur + (IF version >= 5 THEN 8 ELSE 6)

\* The whole of the fixed part, its numbers and the lengths of the standard opcodes.
FixedFits(version) ==
    LET f == LengthAt(version) + 4
    IN f <= dwEnd /\ f + DlLe(f - 4, 4) <= dwEnd /\ f + 6 <= dwEnd
       /\ f + 6 + (IF ByteAt(f + 5) = 0 THEN 0 ELSE ByteAt(f + 5) - 1) <= dwEnd

SignedByte(b) == IF b < 128 THEN b ELSE b - 256

FixedPart(version) ==
    LET f == LengthAt(version) + 4
        n == IF ByteAt(f + 5) = 0 THEN 0 ELSE ByteAt(f + 5) - 1
    IN [version |-> version, program |-> f + DlLe(f - 4, 4), minLength |-> ByteAt(f), maxOps |-> ByteAt(f + 1),
        stmt |-> ByteAt(f + 2) # 0, base |-> SignedByte(ByteAt(f + 3)), range |-> ByteAt(f + 4), opcodeBase |-> ByteAt(f + 5),
        lengths |-> [i \in 1..MaxLengths |-> IF i <= n THEN ByteAt(f + 5 + i) ELSE 0], tables |-> f + 6 + n]

\* LineProgramHeader::parse up to the tables.
ReadFixed ==
    /\ dwPc = "fixed"
    /\ IF dwEnd - dwCur < 6 \/ DlLe(dwCur + 4, 2) \notin 4..5 \/ ~FixedFits(DlLe(dwCur + 4, 2))
       THEN SkipUnit
       ELSE /\ dwHead' = FixedPart(DlLe(dwCur + 4, 2))
            /\ dwCur' = dwHead'.tables
            /\ dwPc' = IF dwHead'.version = 4 THEN "dirs4" ELSE "dirForms"
            /\ UNCHANGED <<dwSource, dwData, dwAt, dwEnd, dwForms, dwLeft, dwDirs, dwFiles, dwRegs, dwRows>>

\* LineProgramIter::new.
NewRegisters == [address |-> 0, file |-> IF dwHead.version >= 5 THEN 0 ELSE 1, line |-> 1, column |-> 0, stmt |-> dwHead.stmt]

\* header.rows: the program is what lies between the header and the end of the unit.
StartProgram ==
    /\ dwCur' = dwHead.program /\ dwPc' = "program" /\ dwRegs' = NewRegisters
    /\ UNCHANGED <<dwSource, dwData, dwAt, dwEnd, dwHead, dwForms, dwLeft, dwRows>>

-----------------------------------------------------------------------------
\* parse_v4_directories, one round.
V4Directory ==
    /\ dwPc = "dirs4"
    /\ IF dwCur >= dwEnd THEN SkipUnit
       ELSE IF ByteAt(dwCur) = 0
       THEN dwCur' = dwCur + 1 /\ dwPc' = "files4"
            /\ UNCHANGED <<dwSource, dwData, dwAt, dwEnd, dwHead, dwForms, dwLeft, dwDirs, dwFiles, dwRegs, dwRows>>
       ELSE \E s \in {DlReadNulStr(dwCur)} :
            IF s = DlNone \/ Len(dwDirs) >= MaxDirectories THEN SkipUnit
            ELSE dwDirs' = Append(dwDirs, s[1]) /\ dwCur' = s[2]
                 /\ UNCHANGED <<dwSource, dwData, dwAt, dwPc, dwEnd, dwHead, dwForms, dwLeft, dwFiles, dwRegs, dwRows>>

\* Three numbers in a row, from p: the directory, the time and the length of a file.
ThreeNumbers(p) ==
    DlWith(DecodeUleb(p), LAMBDA a : IF a = DlNone THEN DlNone ELSE
        DlWith(DecodeUleb(a[2]), LAMBDA b : IF b = DlNone THEN DlNone ELSE
            DlWith(DecodeUleb(b[2]), LAMBDA c : IF c = DlNone THEN DlNone ELSE <<a[1], c[2]>>)))

\* parse_v4_files, one round.
V4File ==
    /\ dwPc = "files4"
    /\ IF dwCur >= dwEnd THEN SkipUnit
       ELSE IF ByteAt(dwCur) = 0 THEN StartProgram /\ UNCHANGED <<dwDirs, dwFiles>>
       ELSE \E s \in {DlReadNulStr(dwCur)} :
            \E n \in {IF s = DlNone THEN DlNone ELSE ThreeNumbers(s[2])} :
            IF n = DlNone \/ Len(dwFiles) >= MaxFiles THEN SkipUnit
            ELSE dwFiles' = Append(dwFiles, <<n[1], s[1]>>) /\ dwCur' = n[2]
                 /\ UNCHANGED <<dwSource, dwData, dwAt, dwPc, dwEnd, dwHead, dwForms, dwLeft, dwDirs, dwRegs, dwRows>>

\* The format list and the number of entries in front of a version 5 table: at
\* most eight pairs are read, however many are announced.
Pairs(p, n) ==
    FoldLeft(LAMBDA acc, k :
        IF acc = DlNone THEN DlNone ELSE
        DlWith(DecodeUleb(acc[2]), LAMBDA a : IF a = DlNone THEN DlNone ELSE
            DlWith(DecodeUleb(a[2]), LAMBDA b : IF b = DlNone THEN DlNone ELSE <<Append(acc[1], <<a[1], b[1]>>), b[2]>>)),
        <<<<>>, p>>, [k \in 1..n |-> k])

V5Formats(pc, next) ==
    /\ dwPc = pc
    /\ IF dwCur >= dwEnd THEN SkipUnit
       ELSE \E f \in {Pairs(dwCur + 1, IF ByteAt(dwCur) < 8 THEN ByteAt(dwCur) ELSE 8)} :
            \E n \in {IF f = DlNone THEN DlNone ELSE DecodeUleb(f[2])} :
            IF n = DlNone THEN SkipUnit
            ELSE dwForms' = f[1] /\ dwLeft' = n[1] /\ dwCur' = n[2] /\ dwPc' = next
                 /\ UNCHANGED <<dwSource, dwData, dwAt, dwEnd, dwHead, dwDirs, dwFiles, dwRegs, dwRows>>

V5DirectoryFormats == V5Formats("dirForms", "dirs5")

V5FileFormats == V5Formats("fileForms", "files5")

External == <<60, 62>>      \* "<external>"

\* read_form_value with as_str and as_u64: <<string, number, position>>.
ReadFormValue(p, form) ==
    CASE form = 8 -> DlWith(DlReadNulStr(p), LAMBDA s : IF s = DlNone THEN DlNone ELSE <<s[1], 0, s[2]>>)
      [] form \in {31, 14} -> IF p + 4 > dwEnd THEN DlNone ELSE <<External, 0, p + 4>>
      [] form = 11 -> IF p >= dwEnd THEN DlNone ELSE <<<<>>, ByteAt(p), p + 1>>
      [] form = 5 -> IF p + 2 > dwEnd THEN DlNone ELSE <<<<>>, DlLe(p, 2), p + 2>>
      [] form = 15 -> DlWith(DecodeUleb(p), LAMBDA n : IF n = DlNone THEN DlNone ELSE <<<<>>, n[1], n[2]>>)
      [] OTHER -> DlNone

\* The values of one entry: <<path, directory index, position>>.
EntryValues ==
    FoldLeft(LAMBDA acc, f :
        IF acc = DlNone THEN DlNone ELSE
        DlWith(ReadFormValue(acc[3], f[2]), LAMBDA v : IF v = DlNone THEN DlNone
            ELSE <<IF f[1] = 1 THEN v[1] ELSE acc[1], IF f[1] = 2 THEN v[2] ELSE acc[2], v[3]>>),
        <<<<>>, 0, dwCur>>, dwForms)

\* parse_v5_directories, one entry.
V5Directory ==
    /\ dwPc = "dirs5"
    /\ IF dwLeft = 0
       THEN dwPc' = "fileForms"
            /\ UNCHANGED <<dwSource, dwData, dwAt, dwEnd, dwCur, dwHead, dwForms, dwLeft, dwDirs, dwFiles, dwRegs, dwRows>>
       ELSE \E v \in {EntryValues} :
            IF v = DlNone \/ Len(dwDirs) >= MaxDirectories THEN SkipUnit
            ELSE dwDirs' = Append(dwDirs, v[1]) /\ dwCur' = v[3] /\ dwLeft' = dwLeft - 1
                 /\ UNCHANGED <<dwSource, dwData, dwAt, dwPc, dwEnd, dwHead, dwForms, dwFiles, dwRegs, dwRows>>

\* parse_v5_files, one entry.
V5File ==
    /\ dwPc = "files5"
    /\ IF dwLeft = 0 THEN StartProgram /\ UNCHANGED <<dwDirs, dwFiles>>
       ELSE \E v \in {EntryValues} :
            IF v = DlNone \/ Len(dwFiles) >= MaxFiles THEN SkipUnit
            ELSE dwFiles' = Append(dwFiles, <<v[2], v[1]>>) /\ dwCur' = v[3] /\ dwLeft' = dwLeft - 1
                 /\ UNCHANGED <<dwSource, dwData, dwAt, dwPc, dwEnd, dwHead, dwForms, dwDirs, dwRegs, dwRows>>

-----------------------------------------------------------------------------
\* LineProgramHeader::file: counted from one in version 4, from zero in version 5.
File(index) ==
    LET i == IF dwHead.version >= 5 THEN index + 1 ELSE index
    IN IF i \in DOMAIN dwFiles THEN <<dwFiles[i]>> ELSE DlNone

\* LineProgramHeader::directory: always counted from zero.
Directory(index) == IF index + 1 \in DOMAIN dwDirs THEN <<dwDirs[index + 1]>> ELSE DlNone

\* emit_row, with the look-ups the caller makes for a row.
Row(r, end) ==
    [address |-> r.address, line |-> IF r.line < 0 THEN 0 ELSE r.line, column |-> r.column, stmt |-> r.stmt, end |-> end,
     file |-> DlWith(File(r.file), LAMBDA f : IF f = DlNone THEN DlNone ELSE <<f[1][2], Directory(f[1][1])>>)]

\* reset_registers.
ResetRegisters == [NewRegisters EXCEPT !.file = 1]

\* advance_address.
AdvanceAddress(n) == (n \div (IF dwHead.maxOps = 0 THEN 1 ELSE dwHead.maxOps)) * dwHead.minLength

\* What an instruction leaves: the registers, the position, the rows it gives.
Gives(regs, p, rows) == [regs |-> regs, pos |-> p, rows |-> rows, pc |-> "program"]

Ends == [regs |-> dwRegs, pos |-> dwEnd, rows |-> <<>>, pc |-> "unit"]

Panics == [Ends EXCEPT !.pc = "panic"]

\* Instructions behind a zero byte: n is their length with the position behind it.
Extended(n) ==
    IF n = DlNone \/ n[1] = 0 \/ n[2] >= dwEnd THEN Ends
    ELSE LET p == n[2] + 1 IN
         CASE ByteAt(n[2]) = 1 -> Gives(ResetRegisters, p, <<Row(dwRegs, TRUE)>>)
           [] ByteAt(n[2]) = 2 -> IF p + 8 > dwEnd THEN Ends ELSE Gives([dwRegs EXCEPT !.address = DlLe(p, 8)], p + 8, <<>>)
           [] OTHER -> IF p + n[1] - 1 > dwEnd THEN Ends ELSE Gives(dwRegs, p + n[1] - 1, <<>>)

\* An instruction with one number.
Operand(n, Set(_)) == IF n = DlNone THEN Ends ELSE Gives(Set(n[1]), n[2], <<>>)

\* The numbers of an instruction the machine does not know.
SkipOperands(p, n) ==
    DlWith(FoldLeft(LAMBDA acc, k : IF acc = DlNone THEN DlNone ELSE DecodeUleb(acc[2]), <<0, p>>, [k \in 1..n |-> k]),
         LAMBDA e : IF e = DlNone THEN Ends ELSE Gives(dwRegs, e[2], <<>>))

Standard(op, p) ==
    CASE op = 1 -> Gives(dwRegs, p, <<Row(dwRegs, FALSE)>>)
      [] op = 2 -> Operand(DecodeUleb(p), LAMBDA n : [dwRegs EXCEPT !.address = @ + AdvanceAddress(n)])
      [] op = 3 -> Operand(DecodeSleb(p), LAMBDA n : [dwRegs EXCEPT !.line = @ + n])
      [] op = 4 -> Operand(DecodeUleb(p), LAMBDA n : [dwRegs EXCEPT !.file = n])
      [] op = 5 -> Operand(DecodeUleb(p), LAMBDA n : [dwRegs EXCEPT !.column = n])
      [] op = 6 -> Gives([dwRegs EXCEPT !.stmt = ~@], p, <<>>)
      [] op = 9 -> IF p + 2 > dwEnd THEN Ends ELSE Gives([dwRegs EXCEPT !.address = @ + DlLe(p, 2)], p + 2, <<>>)
      [] op = 12 -> IF dwHead.range = 0 THEN Panics
                    ELSE Gives([dwRegs EXCEPT !.address = @ + AdvanceAddress((255 - dwHead.opcodeBase) \div dwHead.range)], p, <<>>)
      [] OTHER -> SkipOperands(p, IF op <= MaxLengths THEN dwHead.lengths[op] ELSE 0)

Special(op, p) ==
    LET adjusted == op - dwHead.opcodeBase IN
    IF dwHead.range = 0 THEN Panics
    ELSE DlWith([dwRegs EXCEPT !.address = @ + AdvanceAddress(adjusted \div dwHead.range),
                             !.line = @ + dwHead.base + (adjusted % dwHead.range)],
              LAMBDA r : Gives(r, p, <<Row(r, FALSE)>>))

\* LineProgramIter::next, one instruction.
Instruction ==
    /\ dwPc = "program"
    /\ \E r \in {IF dwCur >= dwEnd THEN Ends
                 ELSE IF ByteAt(dwCur) = 0 THEN Extended(DecodeUleb(dwCur + 1))
                 ELSE IF ByteAt(dwCur) < dwHead.opcodeBase THEN Standard(ByteAt(dwCur), dwCur + 1)
                 ELSE Special(ByteAt(dwCur), dwCur + 1)} :
          dwRegs' = r.regs /\ dwCur' = r.pos /\ dwRows' = dwRows \o r.rows /\ dwPc' = r.pc
    /\ UNCHANGED <<dwSource, dwData, dwAt, dwEnd, dwHead, dwForms, dwLeft, dwDirs, dwFiles>>

DwNext == NextUnit \/ ReadFixed \/ V4Directory \/ V4File \/ V5DirectoryFormats \/ V5Directory \/ V5FileFormats \/ V5File \/ Instruction

DwSpec == DwInit /\ [][DwNext]_dwVars

-----------------------------------------------------------------------------
\* What the operations of a unit say, as the format defines them.
MeantRow(u, r, end) ==
    [address |-> r.address, line |-> r.line, column |-> r.column, stmt |-> r.stmt, end |-> end,
     file |-> LET i == IF u.version = 5 THEN r.file + 1 ELSE r.file
              IN IF i \in DOMAIN u.files THEN <<u.files[i][2], u.files[i][3]>> ELSE DlNone]

MeantStart(u) == [address |-> 0, file |-> IF u.version = 5 THEN 0 ELSE 1, line |-> 1, column |-> 0, stmt |-> TRUE]

Meaning(u, acc, o) ==
    LET r == acc.regs IN
    CASE o[1] = "row" -> LET s == [r EXCEPT !.address = @ + o[2], !.line = @ + o[3]] IN [regs |-> s, rows |-> Append(acc.rows, MeantRow(u, s, FALSE))]
      [] o[1] = "move" -> [acc EXCEPT !.regs = [@ EXCEPT !.address = @ + o[2], !.line = @ + o[3]]]
      [] o[1] = "at" -> [acc EXCEPT !.regs.address = o[2]]
      [] o[1] = "file" -> [acc EXCEPT !.regs.file = o[2]]
      [] o[1] = "column" -> [acc EXCEPT !.regs.column = o[2]]
      [] o[1] = "stmt" -> [acc EXCEPT !.regs.stmt = ~@]
      [] o[1] = "end" -> [regs |-> [MeantStart(u) EXCEPT !.file = 1], rows |-> Append(acc.rows, MeantRow(u, r, TRUE))]
      [] OTHER -> acc

MeantRows ==
    FlattenSeq([i \in DOMAIN dwSource |-> FoldLeft(LAMBDA acc, o : Meaning(dwSource[i], acc, o), [regs |-> MeantStart(dwSource[i]), rows |-> <<>>], dwSource[i].ops).rows])

\* The rows of a section are the rows its units stand for, with their files and
\* directories: instructions and forms the reader does not know are stepped
\* over by their length, and a unit it cannot read costs its own rows only.
RowsRight == dwPc = "over" => dwRows = MeantRows

-----------------------------------------------------------------------------
(***************************************************************************)
(* Symbols in a panic's backtrace, from the build to the screen: gluon takes   *)
(* the functions and lines out of the kernel's ELF file and writes them as an   *)
(* HKIF blob (crates/tools/gluon/src/artifact/hbtf.rs, hkif.rs); the kernel       *)
(* finds its sections, walks the frame pointers and looks every return address     *)
(* up by binary search (kernel/kernel/src/backtrace.rs).  A path is the sequence   *)
(* of its components, a name a sequence of bytes.                                   *)
(***************************************************************************)
CONSTANTS
    BtImages,   \* kernels: [base, symbols, rows]
    BtChains,   \* stacks: [rbp, frames], frames: frame pointer -> <<next, return address>>
    BtKernel,   \* the first address of the kernel's half
    MaxFrames   \* MAX_FRAMES

VARIABLES
    btImage,    \* the kernel that is built
    btLines,    \* include_lines
    btBlob,     \* the HKIF bytes in .hadron_hkif
    btState,    \* HKIF_STATE: none, or where the sections are
    btBusy,     \* HKIF_STATE is locked when the panic comes
    btStack,    \* the stack at the panic
    btWalk,     \* capture_backtrace: [rbp, prev, frames]
    btSearch,   \* the binary search in progress: [table, lo, hi]
    btSymbol,   \* what lookup_symbol has found for the frame
    btPrinted,  \* the lines printed: <<address, symbol, line>>
    btPc

btVars == <<btImage, btLines, btBlob, btState, btBusy, btStack, btWalk, btSearch, btSymbol, btPrinted, btPc>>

BtWith(e, Body(_)) == CHOOSE r \in {Body(x) : x \in {e}} : TRUE
BtNone == <<>>

BtInit ==
    /\ btImage \in BtImages /\ btLines \in BOOLEAN /\ btStack \in BtChains /\ btBusy \in BOOLEAN
    /\ btBlob = <<>> /\ btState = BtNone /\ btWalk = BtNone /\ btSearch = BtNone /\ btSymbol = BtNone
    /\ btPrinted = <<>> /\ btPc = "build"

-----------------------------------------------------------------------------
\* extract_symbols: functions that are defined, have an address in the image and
\* a name.
IsFunction(s) == s.type = "func" /\ s.defined /\ s.addr # 0 /\ s.addr >= btImage.base /\ s.name # <<>>

ExtractSymbols ==
    LET kept == SelectSeq(btImage.symbols, IsFunction)
    IN [i \in DOMAIN kept |-> [addr |-> kept[i].addr - btImage.base, size |-> kept[i].size, name |-> kept[i].name]]

FirstAt(path, x, m) == CHOOSE i \in {j \in 1..m : path[j] = x} : \A j \in 1..m : path[j] = x => i <= j
LastAt(path, x, m) == CHOOSE i \in {j \in 1..m : path[j] = x} : \A j \in 1..m : path[j] = x => i >= j
KernelDir == 107
CratesDir == 99
SrcDir == 115

\* simplify_path: from kernel/ on, else from crates/ on, else from the directory
\* above the last src, else the file's name.
SimplifyPath(path) ==
    LET m == Len(path) - 1
        Has(x) == \E j \in 1..m : path[j] = x
    IN CASE Has(KernelDir) -> SubSeq(path, FirstAt(path, KernelDir, m), Len(path))
         [] ~Has(KernelDir) /\ Has(CratesDir) -> SubSeq(path, FirstAt(path, CratesDir, m), Len(path))
         [] ~Has(KernelDir) /\ ~Has(CratesDir) /\ (\E j \in 2..m : path[j] = SrcDir) -> SubSeq(path, LastAt(path, SrcDir, m) - 1, Len(path))
         [] OTHER -> <<path[Len(path)]>>

\* sort_by_key is stable.
SortByAddr(s) == SortSeq([i \in DOMAIN s |-> <<i, s[i]>>], LAMBDA a, b : a[2].addr < b[2].addr \/ (a[2].addr = b[2].addr /\ a[1] < b[1]))
Sorted(s) == BtWith(SortByAddr(s), LAMBDA t : [i \in DOMAIN t |-> t[i][2]])

\* dedup_by_key keeps the first of the rows at an address.
DedupByAddr(s) ==
    LET firsts == SelectSeq([i \in DOMAIN s |-> i], LAMBDA i : i = 1 \/ s[i - 1].addr # s[i].addr)
    IN [k \in DOMAIN firsts |-> s[firsts[k]]]

\* extract_lines: rows that end no sequence, have a line, a file and an address in
\* the image.
IsLine(r) == ~r.end /\ r.line # 0 /\ r.file # <<>> /\ r.addr >= btImage.base

ExtractLines ==
    LET kept == SelectSeq(btImage.rows, IsLine)
    IN DedupByAddr(Sorted([i \in DOMAIN kept |-> [addr |-> kept[i].addr - btImage.base, file |-> SimplifyPath(kept[i].file), line |-> kept[i].line]]))

\* StringPool::insert: where each string is; one that is there is not put twice.
PoolInsert(pool, s) == IF s \in DOMAIN pool.at THEN pool ELSE [data |-> pool.data \o s \o <<0>>, at |-> [x \in DOMAIN pool.at \cup {s} |-> IF x = s THEN Len(pool.data) ELSE pool.at[x]]]
EmptyPool == [data |-> <<>>, at |-> [x \in {} |-> 0]]
PoolOf(strings) == FoldLeft(PoolInsert, EmptyPool, strings)

BtBytes(n, w) == [k \in 1..w |-> IF k > 3 THEN 0 ELSE (n \div 256^(k - 1)) % 256]

\* serialize_symbols and serialize_lines.
SerializeSymbols(syms, at) ==
    FlattenSeq([i \in DOMAIN syms |-> BtBytes(syms[i].addr, 8) \o BtBytes(syms[i].size, 4) \o BtBytes(at[syms[i].name], 4) \o BtBytes(0, 4)])

SerializeLines(lines, at) ==
    FlattenSeq([i \in DOMAIN lines |-> BtBytes(lines[i].addr, 8) \o BtBytes(at[lines[i].file], 4) \o BtBytes(lines[i].line, 4)])

Magic == <<72, 75, 73, 70>>

\* The sections that are not empty, <<type, bytes>>, and the entries of the
\* directory in front of them.
Sections(syms, lines, strings) == SelectSeq(<<<<2, syms>>, <<3, lines>>, <<4, strings>>>>, LAMBDA s : s[2] # <<>>)

DataStart(sections) == 64 + 16 * Len(sections)

DirectoryOf(sections) ==
    FlattenSeq([i \in DOMAIN sections |->
        BtBytes(sections[i][1], 4) \o BtBytes(DataStart(sections) + Len(FlattenSeq([k \in 1..i - 1 |-> sections[k][2]])), 4)
            \o BtBytes(Len(sections[i][2]), 4) \o BtBytes(0, 4)])

\* The header, the directory and the sections; nothing of the kernel reads the
\* flags, the image's place and size, the entry point, the total and the checksum.
Blob(sections) ==
    Magic \o BtBytes(1, 2) \o BtBytes(2, 2) \o BtBytes(Len(sections), 4) \o BtBytes(64, 4) \o [k \in 1..48 |-> 0]
        \o DirectoryOf(sections) \o FlattenSeq([i \in DOMAIN sections |-> sections[i][2]])

\* generate_hkif.
GenerateHkif ==
    /\ btPc = "build"
    /\ \E syms \in {Sorted(ExtractSymbols)}, lines \in {IF btLines THEN Sorted(ExtractLines) ELSE <<>>} :
       \E pool \in {PoolOf([i \in DOMAIN syms |-> syms[i].name] \o [i \in DOMAIN lines |-> lines[i].file])} :
       \E sections \in {Sections(SerializeSymbols(syms, pool.at), SerializeLines(lines, pool.at), pool.data)} :
          btBlob' = Blob(sections)
    /\ btPc' = "boot"
    /\ UNCHANGED <<btImage, btLines, btState, btBusy, btStack, btWalk, btSearch, btSymbol, btPrinted>>

\* Before the second link the section is empty; a blob of another version may
\* be in its place.
LinkWithout ==
    /\ btPc = "build"
    /\ \E blob \in {<<>>, Magic, Magic \o BtBytes(2, 2) \o [k \in 1..58 |-> 0], [k \in 1..64 |-> 0]} : btBlob' = blob
    /\ btPc' = "boot"
    /\ UNCHANGED <<btImage, btLines, btState, btBusy, btStack, btWalk, btSearch, btSymbol, btPrinted>>

-----------------------------------------------------------------------------
Word(p, w) == FoldRight(LAMBDA b, acc : 256 * acc + b, SubSeq(btBlob, p + 1, p + w), 0)

\* parse_hkif, the directory: entries that do not lie within the blob are not read.
ParsedSections ==
    FoldLeft(LAMBDA s, i :
        LET e == Word(12, 4) + 16 * i IN
        IF e + 16 > Len(btBlob) THEN s
        ELSE CASE Word(e, 4) = 2 -> [s EXCEPT !.symAt = Word(e + 4, 4), !.syms = Word(e + 8, 4) \div 20]
               [] Word(e, 4) = 3 -> [s EXCEPT !.lineAt = Word(e + 4, 4), !.lines = Word(e + 8, 4) \div 16]
               [] Word(e, 4) = 4 -> [s EXCEPT !.strings = Word(e + 4, 4)]
               [] OTHER -> s,
        [symAt |-> 0, syms |-> 0, lineAt |-> 0, lines |-> 0, strings |-> 0],
        [i \in 1..Word(8, 4) |-> i - 1])

\* init_from_embedded.
InitFromEmbedded ==
    /\ btPc = "boot"
    /\ btState' = IF Len(btBlob) < 64 \/ SubSeq(btBlob, 1, 4) # Magic \/ Word(4, 2) # 1 THEN BtNone ELSE <<ParsedSections>>
    /\ btPc' = "panic"
    /\ UNCHANGED <<btImage, btLines, btBlob, btBusy, btStack, btWalk, btSearch, btSymbol, btPrinted>>

\* panic_backtrace starts with the frame pointer of its own.
Panic ==
    /\ btPc = "panic"
    /\ btWalk' = [rbp |-> btStack.rbp, prev |-> 0, frames |-> <<>>]
    /\ btPc' = "walk"
    /\ UNCHANGED <<btImage, btLines, btBlob, btState, btBusy, btStack, btSearch, btSymbol, btPrinted>>

\* The walk ends with the buffer full, at zero or another address that is no frame
\* of the kernel, and at a frame that points at itself.
WalkStops == Len(btWalk.frames) = MaxFrames \/ btWalk.rbp < BtKernel \/ btWalk.rbp % 8 # 0 \/ btWalk.rbp = btWalk.prev

\* capture_backtrace, one frame.
CaptureFrame ==
    /\ btPc = "walk"
    /\ IF WalkStops THEN btPc' = "print" /\ UNCHANGED btWalk
       ELSE /\ LET f == btStack.frames[btWalk.rbp] IN
               btWalk' = [rbp |-> f[1], prev |-> btWalk.rbp,
                          frames |-> IF f[2] >= BtKernel THEN Append(btWalk.frames, f[2]) ELSE btWalk.frames]
            /\ UNCHANGED btPc
    /\ UNCHANGED <<btImage, btLines, btBlob, btState, btBusy, btStack, btSearch, btSymbol, btPrinted>>

Frame == btWalk.frames[Len(btPrinted) + 1]

\* print_frame_symbolicated: the address less the image's base.
Offset == Frame - btImage.base

\* panic_backtrace, a frame: without the tables, or when they are locked, the
\* address alone; otherwise the symbol is looked up first.
PrintFrame ==
    /\ btPc = "print"
    /\ IF Len(btPrinted) = Len(btWalk.frames) THEN btPc' = "over" /\ UNCHANGED <<btSearch, btPrinted>>
       ELSE IF btBusy \/ btState = BtNone
       THEN btPrinted' = Append(btPrinted, <<Frame, BtNone, BtNone>>) /\ UNCHANGED <<btSearch, btPc>>
       ELSE btSearch' = [lo |-> 0, hi |-> btState[1].syms] /\ btPc' = "symbol" /\ UNCHANGED btPrinted
    /\ UNCHANGED <<btImage, btLines, btBlob, btState, btBusy, btStack, btWalk, btSymbol>>

\* read_nul_str.
BtReadNulStr(p) ==
    LET ends == {k \in p + 1..Len(btBlob) : btBlob[k] = 0}
    IN IF ends = {} THEN BtNone ELSE <<SubSeq(btBlob, p + 1, (CHOOSE k \in ends : \A j \in ends : k <= j) - 1)>>

GoesRight(addr) == addr <= Offset

\* One round of a binary search over entries of the given size.
Halve(at, size) ==
    LET mid == btSearch.lo + (btSearch.hi - btSearch.lo) \div 2 IN
    IF GoesRight(Word(at + mid * size, 8)) THEN [btSearch EXCEPT !.lo = mid + 1] ELSE [btSearch EXCEPT !.hi = mid]

\* lookup_symbol, after the search: the last symbol at or below the offset, unless
\* the offset is behind its end.
SymbolFound ==
    LET e == btState[1].symAt + (btSearch.lo - 1) * 20
        into == Offset - Word(e, 8)
    IN IF btSearch.lo = 0 \/ (Word(e + 8, 4) > 0 /\ into >= Word(e + 8, 4)) THEN BtNone
       ELSE BtWith(BtReadNulStr(btState[1].strings + Word(e + 12, 4)), LAMBDA n : IF n = BtNone THEN BtNone ELSE <<n[1], into>>)

LookupSymbol ==
    /\ btPc = "symbol"
    /\ IF btSearch.lo < btSearch.hi THEN btSearch' = Halve(btState[1].symAt, 20) /\ UNCHANGED <<btSymbol, btPc>>
       ELSE btSymbol' = SymbolFound /\ btSearch' = [lo |-> 0, hi |-> btState[1].lines] /\ btPc' = "line"
    /\ UNCHANGED <<btImage, btLines, btBlob, btState, btBusy, btStack, btWalk, btPrinted>>

LineFound ==
    LET e == btState[1].lineAt + (btSearch.lo - 1) * 16
    IN IF btSearch.lo = 0 THEN BtNone
       ELSE BtWith(BtReadNulStr(btState[1].strings + Word(e + 8, 4)), LAMBDA n : IF n = BtNone THEN BtNone ELSE <<n[1], Word(e + 12, 4)>>)

\* lookup_line, and the line of the frame is printed.
LookupLine ==
    /\ btPc = "line"
    /\ IF btSearch.lo < btSearch.hi THEN btSearch' = Halve(btState[1].lineAt, 16) /\ UNCHANGED <<btPrinted, btPc>>
       ELSE btPrinted' = Append(btPrinted, <<Frame, btSymbol, LineFound>>) /\ btPc' = "print" /\ UNCHANGED btSearch
    /\ UNCHANGED <<btImage, btLines, btBlob, btState, btBusy, btStack, btWalk, btSymbol>>

BtNext == GenerateHkif \/ LinkWithout \/ InitFromEmbedded \/ Panic \/ CaptureFrame \/ PrintFrame \/ LookupSymbol \/ LookupLine

BtSpec == BtInit /\ [][BtNext]_btVars

-----------------------------------------------------------------------------
\* The function an address is in, and the row it belongs to, by the ELF file:
\* the nearest function or row at or below it.
Nearest(S, addr) == {s \in S : s.addr <= addr /\ \A t \in S : t.addr <= addr => t.addr <= s.addr}
Functions == {s \in ToSet(btImage.symbols) : IsFunction(s)}
Rows == {i \in DOMAIN btImage.rows : IsLine(btImage.rows[i])}

RightSymbol(addr, found) ==
    LET near == Nearest(Functions, addr) IN
    IF found = BtNone THEN \A s \in near : s.size > 0 /\ addr >= s.addr + s.size
    ELSE \E s \in near : found = <<s.name, addr - s.addr>> /\ (s.size = 0 \/ addr < s.addr + s.size)

RightLine(addr, found) ==
    LET near == {i \in Rows : btImage.rows[i] \in Nearest({btImage.rows[j] : j \in Rows}, addr)} IN
    IF near = {} THEN found = BtNone
    ELSE LET r == btImage.rows[CHOOSE i \in near : \A j \in near : i <= j] IN found = <<SimplifyPath(r.file), r.line>>

\* Every address in a backtrace stands with the function and the line the kernel's
\* ELF file gives for it, through the sorted tables, the string pool and the
\* directory of the blob; where there is no blob, or its lock is held, with none.
AddressesNamed ==
    btPc = "over" => \A k \in DOMAIN btPrinted :
        LET p == btPrinted[k] IN
        IF btBusy \/ btState = BtNone THEN p[2] = BtNone /\ p[3] = BtNone
        ELSE RightSymbol(p[1], p[2]) /\ (IF btLines THEN RightLine(p[1], p[3]) ELSE p[3] = BtNone)

\* The frames of the chain from a frame pointer, at most n of them.
ChainFrom[n \in 0..2 * MaxFrames] ==
    IF n = 0 THEN btStack.rbp
    ELSE IF ChainFrom[n - 1] \in DOMAIN btStack.frames THEN btStack.frames[ChainFrom[n - 1]][1] ELSE 0

\* The backtrace prints the return addresses of the kernel along the chain of
\* frame pointers, innermost first, none twice for a frame that points at itself,
\* and no more than MAX_FRAMES.
FramesWalked ==
    btPc = "over" =>
        /\ [k \in DOMAIN btPrinted |-> btPrinted[k][1]] = btWalk.frames
        /\ Len(btWalk.frames) <= MaxFrames
        /\ \A k \in DOMAIN btWalk.frames : \E n \in 0..2 * MaxFrames : ChainFrom[n] \in DOMAIN btStack.frames /\ btStack.frames[ChainFrom[n]][2] = btWalk.frames[k]
        /\ \A k \in 1..Len(btWalk.frames) - 1 : btWalk.frames[k] # btWalk.frames[k + 1]

-----------------------------------------------------------------------------
(***************************************************************************)
(* The reader of flattened device trees (crates/parse/fdt): the header and its  *)
(* blocks, the tokens of the structure block, and the look-ups by path, by        *)
(* property and by compatible string that walk them.  The blob is laid out from    *)
(* a tree; names are sequences of bytes.                                            *)
(***************************************************************************)
CONSTANTS
    DtTrees,        \* trees: [name, props, children, pad], props <<name, value>>
    DtReservations, \* memory reservations: sequences of <<address, size>>
    DtQuestions,    \* <<"path", names>>, <<"compatible", string>>, <<"reserved">>
    DtDamages       \* what is done to the blob: <<position, byte>> written, or <<length>> left

VARIABLES
    dtTree, dtReserved, \* what the blob was made from
    dtDamage,           \* what happened to it
    dtBlob,             \* the bytes
    dtFdt,              \* Fdt: not parsed, refused, or its blocks
    dtAsked,            \* questions and answers: <<question, answer>>
    dtPc

dtVars == <<dtTree, dtReserved, dtDamage, dtBlob, dtFdt, dtAsked, dtPc>>

DtWith(e, Body(_)) == CHOOSE r \in {Body(x) : x \in {e}} : TRUE
DtNone == <<>>

-----------------------------------------------------------------------------
\* The layout of a blob.
Be(n, w) == [k \in 1..w |-> IF w - k > 2 THEN 0 ELSE (n \div 256^(w - k)) % 256]
Padded(s) == s \o [k \in 1..(3 - ((Len(s) + 3) % 4)) |-> 0]
Names == <<<<99, 111>>, <<114>>, <<120>>>>      \* the strings block: compatible, reg, one more
StringsBlock == FlattenSeq([i \in DOMAIN Names |-> Names[i] \o <<0>>])
NameOffset(n) == Len(FlattenSeq([i \in 1..(CHOOSE i \in DOMAIN Names : Names[i] = n) - 1 |-> Names[i] \o <<0>>]))

RECURSIVE Laid(_)
Laid(t) ==
    Be(1, 4) \o Padded(t.name \o <<0>>)
        \o FlattenSeq([i \in DOMAIN t.props |-> t.pad \o Be(3, 4) \o Be(Len(t.props[i][2]), 4) \o Be(NameOffset(t.props[i][1]), 4) \o Padded(t.props[i][2])])
        \o t.pad \o FlattenSeq([i \in DOMAIN t.children |-> Laid(t.children[i]) \o t.pad]) \o Be(2, 4)

FdtMagic == <<208, 13, 254, 237>>

BlobOf(t, reserved) ==
    LET struct == Laid(t) \o Be(9, 4)
        rsv == FlattenSeq([i \in DOMAIN reserved |-> Be(reserved[i][1], 8) \o Be(reserved[i][2], 8)]) \o Be(0, 8) \o Be(0, 8)
        at == 40 + Len(rsv)
    IN FdtMagic \o Be(at + Len(struct) + Len(StringsBlock), 4) \o Be(at, 4) \o Be(at + Len(struct), 4) \o Be(40, 4)
        \o Be(17, 4) \o Be(16, 4) \o Be(0, 4) \o Be(Len(StringsBlock), 4) \o Be(Len(struct), 4) \o rsv \o struct \o StringsBlock

Damaged(b, d) ==
    CASE Len(d) = 2 -> [b EXCEPT ![d[1]] = d[2]]
      [] Len(d) = 1 -> SubSeq(b, 1, d[1])
      [] OTHER -> b

DtInit ==
    /\ dtTree \in DtTrees /\ dtReserved \in DtReservations /\ dtDamage \in DtDamages
    /\ dtBlob = Damaged(BlobOf(dtTree, dtReserved), dtDamage)
    /\ dtFdt = DtNone /\ dtAsked = DtNone /\ dtPc = "parse"

-----------------------------------------------------------------------------
\* Be32::get, Be64::get over bytes.
ValueOf(bytes) == FoldLeft(LAMBDA acc, b : 256 * acc + b, 0, bytes)
Header(k) == ValueOf(SubSeq(dtBlob, 4 * k + 1, 4 * k + 4))

\* Fdt::parse: every block must lie within the size the header gives.
Acceptable ==
    /\ Len(dtBlob) >= 40 /\ SubSeq(dtBlob, 1, 4) = FdtMagic
    /\ Header(6) >= 16 /\ Len(dtBlob) >= Header(1)
    /\ Header(2) + Header(9) <= Header(1) /\ Header(3) + Header(8) <= Header(1) /\ Header(4) <= Header(1)

Parse ==
    /\ dtPc = "parse"
    /\ IF Acceptable
       THEN /\ dtFdt' = [struct |-> SubSeq(dtBlob, Header(2) + 1, Header(2) + Header(9)),
                         strings |-> SubSeq(dtBlob, Header(3) + 1, Header(3) + Header(8)),
                         reserved |-> SubSeq(dtBlob, Header(4) + 1, Header(2))]
            /\ dtPc' = "ready"
       ELSE dtPc' = "refused" /\ UNCHANGED dtFdt
    /\ UNCHANGED <<dtTree, dtReserved, dtDamage, dtBlob, dtAsked>>

Struct == dtFdt.struct

\* read_be32_at, of the structure block.
Be32At(p) == IF p + 4 > Len(Struct) THEN DtNone ELSE <<ValueOf(SubSeq(Struct, p + 1, p + 4))>>

TagAt(p) == DtWith(Be32At(p), LAMBDA t : IF t = DtNone THEN 0 ELSE t[1])

\* align4.
Align4(p) == p + (3 - ((p + 3) % 4))

\* str_from_offset.
StrFrom(data, p) ==
    LET ends == {k \in p + 1..Len(data) : data[k] = 0}
    IN IF ends = {} THEN DtNone ELSE <<SubSeq(data, p + 1, (CHOOSE k \in ends : \A j \in ends : k <= j) - 1)>>

\* skip_node_subtree: behind the end of the node whose content is at p.
RECURSIVE SkipSubtree(_, _)
SkipSubtree(p, depth) ==
    IF depth = 0 THEN <<p>>
    ELSE CASE TagAt(p) = 1 -> DtWith(StrFrom(Struct, p + 4), LAMBDA s : IF s = DtNone THEN DtNone ELSE SkipSubtree(Align4(p + 5 + Len(s[1])), depth + 1))
           [] TagAt(p) = 2 -> SkipSubtree(p + 4, depth - 1)
           [] TagAt(p) = 3 -> DtWith(Be32At(p + 4), LAMBDA n : IF n = DtNone THEN DtNone ELSE SkipSubtree(Align4(p + 12 + n[1]), depth))
           [] TagAt(p) = 4 -> SkipSubtree(p + 4, depth)
           [] OTHER -> DtNone

\* PropertyIter: the properties from p and where the iterator stops.
RECURSIVE PropertiesFrom(_, _)
PropertiesFrom(p, found) ==
    CASE TagAt(p) = 4 -> PropertiesFrom(p + 4, found)
      [] TagAt(p) = 3 ->
            DtWith(<<Be32At(p + 4), Be32At(p + 8)>>, LAMBDA h :
                IF h[1] = DtNone \/ h[2] = DtNone \/ p + 12 + h[1][1] > Len(Struct) THEN [props |-> found, at |-> p]
                ELSE DtWith(<<Align4(p + 12 + h[1][1]), StrFrom(dtFdt.strings, h[2][1])>>, LAMBDA n :
                    IF n[2] = DtNone THEN [props |-> found, at |-> n[1]]
                    ELSE PropertiesFrom(n[1], Append(found, <<n[2][1], SubSeq(Struct, p + 13, p + 12 + h[1][1])>>))))
      [] OTHER -> [props |-> found, at |-> p]

\* ChildIter: <<name, position of the content>> of every child, from p.
RECURSIVE ChildrenFrom(_, _)
ChildrenFrom(p, found) ==
    CASE TagAt(p) = 4 -> ChildrenFrom(p + 4, found)
      [] TagAt(p) = 1 ->
            DtWith(StrFrom(Struct, p + 4), LAMBDA s :
                IF s = DtNone THEN found
                ELSE DtWith(Align4(p + 5 + Len(s[1])), LAMBDA content :
                    DtWith(SkipSubtree(content, 1), LAMBDA next :
                        IF next = DtNone THEN found ELSE ChildrenFrom(next[1], Append(found, <<s[1], content>>)))))
      [] OTHER -> found

\* FdtNode::children: behind the properties.
Children(p) == ChildrenFrom(PropertiesFrom(p, <<>>).at, <<>>)

FirstWith(seq, Test(_)) ==
    LET hits == {i \in DOMAIN seq : Test(seq[i])}
    IN IF hits = {} THEN DtNone ELSE <<seq[CHOOSE i \in hits : \A j \in hits : i <= j]>>

\* FdtNode::property and find_child: the first of the name.
Property(p, name) == DtWith(FirstWith(PropertiesFrom(p, <<>>).props, LAMBDA x : x[1] = name), LAMBDA f : IF f = DtNone THEN DtNone ELSE <<f[1][2]>>)

FindChild(p, name) == FirstWith(Children(p), LAMBDA c : c[1] = name)

\* Fdt::root.
Root == DtWith(StrFrom(Struct, 4), LAMBDA s : Align4(5 + Len(IF s = DtNone THEN <<>> ELSE s[1])))

\* Fdt::find_node: empty components of the path are left out.
FindNode(path) ==
    FoldLeft(LAMBDA p, name : IF p = DtNone \/ name = <<>> THEN p ELSE DtWith(FindChild(p[1], name), LAMBDA c : IF c = DtNone THEN DtNone ELSE <<c[1][2]>>), <<Root>>, path)

\* StrListIter: an empty string ends the list.
RECURSIVE StrList(_)
StrList(data) ==
    IF data = <<>> THEN <<>>
    ELSE DtWith(StrFrom(data, 0), LAMBDA s :
        IF s = DtNone THEN <<data>> ELSE IF s[1] = <<>> THEN <<>> ELSE <<s[1]>> \o StrList(SubSeq(data, Len(s[1]) + 2, Len(data))))

\* FdtNode::find_compatible: a child, then what is below it, then the next child.
RECURSIVE FindCompatible(_, _)
FindCompatible(p, c) ==
    FoldLeft(LAMBDA found, child :
        IF found # DtNone THEN found
        ELSE DtWith(Property(child[2], Names[1]), LAMBDA v :
            IF v # DtNone /\ c \in ToSet(StrList(v[1])) THEN <<child[2]>> ELSE FindCompatible(child[2], c)),
        DtNone, Children(p))

\* MemReservationIter: up to the entry of zeros.
RECURSIVE ReservedFrom(_)
ReservedFrom(p) ==
    IF p + 16 > Len(dtFdt.reserved) THEN <<>>
    ELSE DtWith(<<ValueOf(SubSeq(dtFdt.reserved, p + 1, p + 8)), ValueOf(SubSeq(dtFdt.reserved, p + 9, p + 16))>>, LAMBDA e :
        IF e = <<0, 0>> THEN <<>> ELSE <<e>> \o ReservedFrom(p + 16))

\* What is told of a node: its properties and the names of its children.
NodeAt(p) == IF p = DtNone THEN DtNone ELSE <<<<PropertiesFrom(p[1], <<>>).props, [i \in DOMAIN Children(p[1]) |-> Children(p[1])[i][1]]>>>>

Answer(q) ==
    CASE q[1] = "path" -> NodeAt(FindNode(q[2]))
      [] q[1] = "compatible" -> NodeAt(FindCompatible(Root, q[2]))
      [] OTHER -> ReservedFrom(0)

\* A user of the tree asks; Fdt::root needs a node at the start.
Ask(q) ==
    /\ dtPc = "ready" /\ dtAsked = DtNone
    /\ IF TagAt(0) # 1 THEN dtPc' = "panic" /\ UNCHANGED dtAsked
       ELSE dtAsked' = <<q, Answer(q)>> /\ UNCHANGED dtPc
    /\ UNCHANGED <<dtTree, dtReserved, dtDamage, dtBlob, dtFdt>>

DtNext == Parse \/ \E q \in DtQuestions : Ask(q)

DtSpec == DtInit /\ [][DtNext]_dtVars

-----------------------------------------------------------------------------
\* The tree itself, asked the same.
DtTold(t) == IF t = DtNone THEN DtNone ELSE <<<<t[1].props, [i \in DOMAIN t[1].children |-> t[1].children[i].name]>>>>

TreeNode(path) ==
    FoldLeft(LAMBDA t, name : IF t = DtNone \/ name = <<>> THEN t ELSE FirstWith(t[1].children, LAMBDA c : c.name = name), <<dtTree>>, path)

Compatible(t, c) == \E i \in DOMAIN t.props : t.props[i][1] = Names[1] /\ \E a, b \in 1..Len(t.props[i][2]) + 1 :
    /\ a <= b /\ SubSeq(t.props[i][2], a, b - 1) = c
    /\ (a = 1 \/ t.props[i][2][a - 1] = 0) /\ (b = Len(t.props[i][2]) + 1 \/ t.props[i][2][b] = 0)

RECURSIVE Preorder(_)
Preorder(t) == FlattenSeq([i \in DOMAIN t.children |-> <<t.children[i]>> \o Preorder(t.children[i])])

RightAnswer(q) ==
    CASE q[1] = "path" -> DtTold(TreeNode(q[2]))
      [] q[1] = "compatible" -> DtTold(FirstWith(Preorder(dtTree), LAMBDA t : Compatible(t, q[2])))
      [] OTHER -> dtReserved

\* A look-up in the blob finds what is in the tree it was made from: nodes below
\* the right parent, values with their own length whatever their padding, the
\* first compatible node in the order of the tree; and a blob that is cut off or
\* has another magic number is refused, not misread.
LookupsRight ==
    /\ (dtAsked # DtNone /\ dtDamage = DtNone) => dtAsked[2] = RightAnswer(dtAsked[1])
    /\ dtDamage = DtNone => dtPc # "refused"
    /\ Len(dtDamage) = 1 => dtPc # "ready"
=============================================================================
