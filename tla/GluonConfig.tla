----------------------------- MODULE GluonConfig ----------------------------
(*****************************************************************************)
(* The configuration of a build: Kconfig files, the menu, and the build script.*)
(*****************************************************************************)
EXTENDS Sequences, SequencesExt, FiniteSets, Integers

-----------------------------------------------------------------------------
(***************************************************************************)
(* The Kconfig reader of gluon (crates/tools/gluon/src/kconfig): the recursive *)
(* descent of parser.rs over the lexer's tokens, and the two walks of mod.rs    *)
(* over what it returns, one for the options the build uses and one for the     *)
(* tree the menu shows. A token is <<kind, text>>; the lexer puts one newline    *)
(* token between lines however many there are.                                  *)
(***************************************************************************)
CONSTANTS
    KpDocs,     \* documents: sequences of items
    KpFiles,    \* files that a source line names: path -> items
    KpLines     \* lines, for texts that are not documents

VARIABLES kpInput, kpResult

Nl == <<"nl", "">>
Eof == <<"eof", "">>

\* What a parse function returns: [ok, pos, val].
Ok(p, v) == [ok |-> TRUE, pos |-> p, val |-> v]
Err(p) == [ok |-> FALSE, pos |-> p, val |-> <<>>]

\* peek and at_eof: past the end it is the last token again.
Peek(t, p) == t[IF p > Len(t) THEN Len(t) ELSE p]
Kind(t, p) == Peek(t, p)[1]
AtEof(t, p) == p > Len(t) \/ t[p] = Eof

RECURSIVE SkipNewlines(_, _)
SkipNewlines(t, p) == IF ~AtEof(t, p) /\ Kind(t, p) = "nl" THEN SkipNewlines(t, p + 1) ELSE p

\* expect, expect_ident, expect_string, expect_integer.
Expect(t, p, kind) == IF Kind(t, p) = kind THEN Ok(p + 1, Peek(t, p)[2]) ELSE Err(p)

ExpectNewline(t, p, v) ==
    IF AtEof(t, p) THEN Ok(p, v) ELSE IF Kind(t, p) = "nl" THEN Ok(p + 1, v) ELSE Err(p)

\* The ? operator: F(position, value) after a step that has not failed.
Then(r, F(_, _)) == IF r.ok THEN F(r.pos, r.val) ELSE r

\* The rest of a line.
EndLine(t, r) == Then(r, LAMBDA p, v : ExpectNewline(t, p, v))

-----------------------------------------------------------------------------
RECURSIVE ParseOr(_, _)

\* parse_primary_expr and parse_unary_expr.
ParsePrimary(t, p) ==
    IF Kind(t, p) = "lparen"
    THEN Then(ParseOr(t, p + 1), LAMBDA q, e : Then(Expect(t, q, "rparen"), LAMBDA r, x : Ok(r, e)))
    ELSE Then(Expect(t, p, "ident"), LAMBDA q, n : Ok(q, <<"sym", n>>))

RECURSIVE ParseUnary(_, _)
ParseUnary(t, p) ==
    IF Kind(t, p) = "not" THEN Then(ParseUnary(t, p + 1), LAMBDA q, e : Ok(q, <<"not", e>>)) ELSE ParsePrimary(t, p)

\* parse_and_expr and parse_or_expr: loops that build to the left.
RECURSIVE AndLoop(_, _, _)
AndLoop(t, p, l) ==
    IF Kind(t, p) = "and" THEN Then(ParseUnary(t, p + 1), LAMBDA q, r : AndLoop(t, q, <<"and", l, r>>)) ELSE Ok(p, l)

ParseAnd(t, p) == Then(ParseUnary(t, p), LAMBDA q, l : AndLoop(t, q, l))

RECURSIVE OrLoop(_, _, _)
OrLoop(t, p, l) ==
    IF Kind(t, p) = "or" THEN Then(ParseAnd(t, p + 1), LAMBDA q, r : OrLoop(t, q, <<"or", l, r>>)) ELSE Ok(p, l)

ParseOr(t, p) == Then(ParseAnd(t, p), LAMBDA q, l : OrLoop(t, q, l))

\* parse_bracket_list: commas may be left out.
RECURSIVE BracketItems(_, _, _)
BracketItems(t, p, items) ==
    CASE Kind(t, p) = "rbracket" -> Ok(p + 1, items)
      [] Kind(t, p) \in {"string", "ident"} ->
            BracketItems(t, IF Kind(t, p + 1) = "comma" THEN p + 2 ELSE p + 1, Append(items, Peek(t, p)[2]))
      [] OTHER -> Err(p)

ParseBracketList(t, p) == IF Kind(t, p) = "lbracket" THEN BracketItems(t, p + 1, <<>>) ELSE Ok(p, <<>>)

\* parse_default_value.
ParseDefault(t, p) ==
    IF Kind(t, p) \in {"yes", "no", "integer", "string"} THEN Ok(p + 1, <<Peek(t, p)>>) ELSE Err(p)

-----------------------------------------------------------------------------
NewConfig(name) ==
    [item |-> "config", name |-> name, ty |-> "", variants |-> <<>>, default |-> <<>>, depends |-> <<>>,
     selects |-> <<>>, range |-> <<>>, bindings |-> <<>>]

TryString(t, p) == IF Kind(t, p) = "string" THEN p + 1 ELSE p

\* parse_binding.
BindingKind(t, p, b, n) ==
    CASE n = "cfg" /\ Peek(t, p) = <<"ident", "cumulative">> -> Ok(p + 1, [b EXCEPT !.bindings = Append(@, "cumulative")])
      [] n \in {"cfg", "const", "build"} /\ Peek(t, p) # <<"ident", "cumulative">> ->
            Ok(p, [b EXCEPT !.bindings = Append(@, n)])
      [] OTHER -> Err(p)

\* One line of a config block: the block with the property the line sets.
ConfigLine(t, p, b) ==
    CASE Kind(t, p) \in {"bool", "u32", "u64", "str"} ->
            Ok(TryString(t, p + 1), [b EXCEPT !.ty = Kind(t, p), !.variants = <<>>])
      [] Kind(t, p) = "choice" ->
            Then(ParseBracketList(t, TryString(t, p + 1)),
                 LAMBDA q, l : Ok(q, [b EXCEPT !.ty = "choice", !.variants = l]))
      [] Kind(t, p) = "default" -> Then(ParseDefault(t, p + 1), LAMBDA q, d : Ok(q, [b EXCEPT !.default = d]))
      [] Kind(t, p) = "depends_on" -> Then(ParseOr(t, p + 1), LAMBDA q, e : Ok(q, [b EXCEPT !.depends = <<e>>]))
      [] Kind(t, p) = "select" ->
            Then(Expect(t, p + 1, "ident"), LAMBDA q, s : Ok(q, [b EXCEPT !.selects = Append(@, s)]))
      [] Kind(t, p) = "range" ->
            Then(Expect(t, p + 1, "integer"), LAMBDA q, lo :
                Then(Expect(t, q, "integer"), LAMBDA r, hi : Ok(r, [b EXCEPT !.range = <<lo, hi>>])))
      [] Kind(t, p) = "binding" -> Then(Expect(t, p + 1, "ident"), LAMBDA q, n : BindingKind(t, q, b, n))
      [] OTHER -> Ok(TryString(t, p + 1), b)

ConfigLineStarts ==
    {"bool", "u32", "u64", "str", "choice", "default", "depends_on", "select", "range", "binding", "help", "prompt"}

\* The loop of parse_config: until another item or something unknown.
RECURSIVE ConfigLines(_, _, _)
ConfigLines(t, p, b) ==
    LET q == SkipNewlines(t, p)
    IN  IF AtEof(t, q) \/ Kind(t, q) \notin ConfigLineStarts THEN Ok(q, b)
        ELSE Then(EndLine(t, ConfigLine(t, q, b)), LAMBDA r, c : ConfigLines(t, r, c))

ParseConfig(t, p) ==
    Then(EndLine(t, Expect(t, p + 1, "ident")), LAMBDA q, n : ConfigLines(t, q, NewConfig(n)))

\* parse_preset and its loop.
PresetLine(t, p, b) ==
    CASE Kind(t, p) = "inherits" -> Then(Expect(t, p + 1, "ident"), LAMBDA q, n : Ok(q, [b EXCEPT !.inherits = n]))
      [] Kind(t, p) = "help" -> Ok(TryString(t, p + 1), b)
      [] OTHER -> Then(Expect(t, p + 1, "ident"), LAMBDA q, n :
                      Then(ParseDefault(t, q), LAMBDA r, v : Ok(r, [b EXCEPT !.overrides = Append(@, <<n, v[1]>>)])))

RECURSIVE PresetLines(_, _, _)
PresetLines(t, p, b) ==
    LET q == SkipNewlines(t, p)
    IN  IF AtEof(t, q) \/ Kind(t, q) \notin {"inherits", "help", "set"} THEN Ok(q, b)
        ELSE Then(EndLine(t, PresetLine(t, q, b)), LAMBDA r, c : PresetLines(t, r, c))

ParsePreset(t, p) ==
    Then(EndLine(t, Expect(t, p + 1, "ident")), LAMBDA q, n :
        PresetLines(t, q, [item |-> "preset", name |-> n, inherits |-> "", overrides |-> <<>>]))

ParseSource(t, p) ==
    Then(EndLine(t, Expect(t, p + 1, "string")), LAMBDA q, s : Ok(q, [item |-> "source", name |-> s]))

\* parse_menu: items until its endmenu, or the end of the file.
RECURSIVE MenuItems(_, _, _)
RECURSIVE ParseItem(_, _)
MenuItems(t, p, items) ==
    LET q == SkipNewlines(t, p)
    IN  CASE AtEof(t, q) -> Ok(q, items)
          [] ~AtEof(t, q) /\ Kind(t, q) = "endmenu" -> Ok(IF Kind(t, q + 1) = "nl" THEN q + 2 ELSE q + 1, items)
          [] OTHER -> Then(ParseItem(t, q), LAMBDA r, it : MenuItems(t, r, Append(items, it)))

ParseMenu(t, p) ==
    Then(EndLine(t, Expect(t, p + 1, "string")), LAMBDA q, s :
        Then(MenuItems(t, q, <<>>), LAMBDA r, is : Ok(r, [item |-> "menu", name |-> s, items |-> is])))

\* parse_item; an endmenu is left where it is and nothing is returned.
ParseItem(t, p) ==
    CASE Kind(t, p) = "config" -> ParseConfig(t, p)
      [] Kind(t, p) = "menu" -> ParseMenu(t, p)
      [] Kind(t, p) = "source" -> ParseSource(t, p)
      [] Kind(t, p) = "preset" -> ParsePreset(t, p)
      [] Kind(t, p) = "endmenu" -> Ok(p, <<>>)
      [] OTHER -> Err(p)

\* parse: items until the end of the file. A pass that moves nothing is
\* repeated for ever.
RECURSIVE ParseTop(_, _, _)
ParseTop(t, p, items) ==
    LET q == SkipNewlines(t, p)
    IN  IF AtEof(t, q) THEN Ok(q, [end |-> "ok", items |-> items])
        ELSE Then(ParseItem(t, q), LAMBDA r, it :
                 IF r = q THEN Ok(r, [end |-> "never", items |-> <<>>]) ELSE ParseTop(t, r, Append(items, it)))

-----------------------------------------------------------------------------
\* process_items: the options in the order met, each with the title of the menu
\* around it; a sourced file is read in its place.
RECURSIVE ProcessItems(_, _)
ProcessItems(items, title) ==
    FlattenSeq([i \in DOMAIN items |->
        CASE items[i].item = "config" -> <<<<items[i].name, title>>>>
          [] items[i].item = "menu" -> ProcessItems(items[i].items, items[i].name)
          [] items[i].item = "source" -> ProcessItems(KpFiles[items[i].name], title)
          [] OTHER -> <<>>])

\* resolve_sources: the tree of the menu.
RECURSIVE ResolveSources(_)
ResolveSources(items) ==
    FlattenSeq([i \in DOMAIN items |->
        CASE items[i].item = "source" -> ResolveSources(KpFiles[items[i].name])
          [] items[i].item = "menu" -> <<[items[i] EXCEPT !.items = ResolveSources(items[i].items)]>>
          [] OTHER -> <<items[i]>>])

\* convert_config_block: the default in the type that was declared.
ConvertDefault(b) ==
    CASE b.ty = "bool" -> IF b.default = <<>> THEN Ok(0, <<"bool", "no">>)
                          ELSE IF b.default[1][1] \in {"yes", "no"} THEN Ok(0, <<"bool", b.default[1][1]>>) ELSE Err(0)
      [] b.ty \in {"u32", "u64"} -> IF b.default = <<>> THEN Ok(0, <<b.ty, "0">>)
                          ELSE IF b.default[1][1] = "integer" THEN Ok(0, <<b.ty, b.default[1][2]>>) ELSE Err(0)
      [] b.ty = "str" -> IF b.default = <<>> THEN Ok(0, <<"str", "">>)
                          ELSE IF b.default[1][1] = "string" THEN Ok(0, <<"str", b.default[1][2]>>) ELSE Err(0)
      [] b.ty = "choice" /\ b.variants # <<>> ->
                          IF b.default = <<>> THEN Ok(0, <<"choice", b.variants[1]>>)
                          ELSE IF b.default[1][1] = "string" THEN Ok(0, <<"choice", b.default[1][2]>>) ELSE Err(0)
      [] OTHER -> Err(0)

-----------------------------------------------------------------------------
\* The text of a document, for what the parser should give back. Parentheses
\* only where they are needed.
RECURSIVE Expr(_, _)
Expr(e, level) ==
    CASE e[1] = "sym" -> <<<<"ident", e[2]>>>>
      [] e[1] = "not" -> <<<<"not", "">>>> \o Expr(e[2], 3)
      [] e[1] = "and" -> LET s == Expr(e[2], 2) \o <<<<"and", "">>>> \o Expr(e[3], 3)
                         IN  IF level > 2 THEN <<<<"lparen", "">>>> \o s \o <<<<"rparen", "">>>> ELSE s
      [] e[1] = "or" -> LET s == Expr(e[2], 1) \o <<<<"or", "">>>> \o Expr(e[3], 2)
                        IN  IF level > 1 THEN <<<<"lparen", "">>>> \o s \o <<<<"rparen", "">>>> ELSE s

Line(s) == Append(s, Nl)
KeyLine(k, s) == Line(<<<<k, "">>>> \o s)
Ident(x) == <<<<"ident", x>>>>

ConfigText(b) ==
    KeyLine("config", Ident(b.name))
    \o (IF b.ty = "" THEN <<>>
        ELSE KeyLine(b.ty, IF b.ty = "choice"
                           THEN <<<<"lbracket", "">>>> \o [i \in DOMAIN b.variants |-> <<"string", b.variants[i]>>]
                                    \o <<<<"rbracket", "">>>>
                           ELSE <<<<"string", "prompt">>>>))
    \o (IF b.default = <<>> THEN <<>> ELSE KeyLine("default", b.default))
    \o (IF b.depends = <<>> THEN <<>> ELSE KeyLine("depends_on", Expr(b.depends[1], 1)))
    \o FlattenSeq([i \in DOMAIN b.selects |-> KeyLine("select", Ident(b.selects[i]))])
    \o (IF b.range = <<>> THEN <<>> ELSE KeyLine("range", <<<<"integer", b.range[1]>>, <<"integer", b.range[2]>>>>))
    \o FlattenSeq([i \in DOMAIN b.bindings |->
            KeyLine("binding", IF b.bindings[i] = "cumulative" THEN Ident("cfg") \o Ident("cumulative")
                               ELSE Ident(b.bindings[i]))])

PresetText(b) ==
    KeyLine("preset", Ident(b.name))
    \o (IF b.inherits = "" THEN <<>> ELSE KeyLine("inherits", Ident(b.inherits)))
    \o FlattenSeq([i \in DOMAIN b.overrides |-> KeyLine("set", Ident(b.overrides[i][1]) \o <<b.overrides[i][2]>>)])

RECURSIVE DocText(_)
DocText(items) ==
    FlattenSeq([i \in DOMAIN items |->
        CASE items[i].item = "config" -> ConfigText(items[i])
          [] items[i].item = "preset" -> PresetText(items[i])
          [] items[i].item = "source" -> KeyLine("source", <<<<"string", items[i].name>>>>)
          [] OTHER -> KeyLine("menu", <<<<"string", items[i].name>>>>) \o DocText(items[i].items) \o KeyLine("endmenu", <<>>)])

-----------------------------------------------------------------------------
KpInit ==
    /\ kpResult = <<>>
    /\ \/ kpInput \in {[doc |-> <<d>>, text |-> Append(DocText(d), Eof)] : d \in KpDocs}
       \/ kpInput \in {[doc |-> <<>>, text |-> Append(FlattenSeq(l), Eof)] : l \in KpLines}

Parse == kpResult = <<>> /\ UNCHANGED kpInput
         /\ \E r \in {ParseTop(kpInput.text, 1, <<>>)} :
                kpResult' = <<IF r.ok THEN r.val ELSE [end |-> "error", items |-> <<>>]>>

KpNext == Parse

KpSpec == KpInit /\ [][KpNext]_<<kpInput, kpResult>>

RECURSIVE OptionNames(_)
OptionNames(items) ==
    FlattenSeq([i \in DOMAIN items |->
        CASE items[i].item = "config" -> <<items[i].name>>
          [] items[i].item = "menu" -> OptionNames(items[i].items)
          [] OTHER -> <<>>])

\* Nesting of menu and endmenu lines never goes below zero.
RECURSIVE Balanced(_, _, _)
Balanced(t, p, depth) ==
    \/ p > Len(t)
    \/ t[p][1] = "menu" /\ Balanced(t, p + 1, depth + 1)
    \/ t[p][1] = "endmenu" /\ depth > 0 /\ Balanced(t, p + 1, depth - 1)
    \/ t[p][1] \notin {"menu", "endmenu"} /\ Balanced(t, p + 1, depth)

\* The parser reads a document back as it was written: nested menus, blocks
\* that end where the next item starts, and dependency expressions with the
\* usual precedence. A text that is no document is refused or read, never
\* looked at for ever, as long as no endmenu stands outside a menu.
ParsesBack ==
    kpResult # <<>> =>
        /\ kpInput.doc # <<>> => kpResult[1] = [end |-> "ok", items |-> kpInput.doc[1]]
        /\ Balanced(kpInput.text, 1, 0) => kpResult[1].end # "never"

\* The walk that collects the build's options and the walk that makes the menu
\* meet the same options, in the same order, whatever is sourced where.
MenuShowsOptions ==
    kpResult # <<>> /\ kpInput.doc # <<>> =>
        LET built == ProcessItems(kpResult[1].items, "")
        IN  [i \in DOMAIN built |-> built[i][1]] = OptionNames(ResolveSources(kpResult[1].items))

\* A block that is accepted has a default of its own type.
DefaultsTyped ==
    kpResult # <<>> /\ kpInput.doc # <<>> =>
        \A i \in DOMAIN kpResult[1].items :
            LET b == kpResult[1].items[i]
            IN  b.item = "config" => LET d == ConvertDefault(b) IN d.ok => d.val[1] = b.ty

-----------------------------------------------------------------------------
(***************************************************************************)
(* gluon menuconfig (crates/tools/gluon/src/menuconfig.rs) with the file it    *)
(* leaves and the resolution the build makes of it (config.rs): the menu tree   *)
(* with its navigation, search, help and edit modes, the select and depend      *)
(* rules, .hadron-config written and read as text, profile and file merged.     *)
(* A value is <<type, text>>; numbers are the members of GmNumbers.             *)
(***************************************************************************)
CONSTANTS
    GmOptions,      \* option -> [ty, default, depends, selects, choices]
    GmTree,         \* menu tree: path -> sequence of options and "menu"
    GmOrder,        \* the options in the order of the tree
    GmProfile,      \* collect_profile_config: option -> value
    GmQueries,      \* what is searched: query -> the options it matches
    GmTexts,        \* what is typed into an edit field
    GmHeight,       \* height of the list
    GmKeys          \* bound: key presses

VARIABLES
    gmValues,   \* App::values
    gmNav,      \* NavStack: sequence of [path, cursor, scroll]
    gmMode,     \* "normal", "help", "edit", "search", "selects", "closed"
    gmAbout,    \* option_name of the edit or of the help popup
    gmResults,  \* search_results
    gmFound,    \* search_cursor
    gmDirty,    \* App::dirty
    gmFile,     \* .hadron-config: option -> text
    gmRounds,   \* iterations of apply_selects
    gmLeft

gmPlace == <<gmNav, gmMode, gmAbout, gmResults, gmFound>>
gmData == <<gmValues, gmDirty, gmFile>>

Options == DOMAIN GmOptions
True == <<"bool", "true">>
False == <<"bool", "false">>

-----------------------------------------------------------------------------
\* Text and values. Decimal and hexadecimal texts of the same numbers.
Decimals == [x \in {"5", "16"} |-> IF x = "5" THEN "0x5" ELSE "0x10"]

\* save_config_overrides: what is written for a value, its type is not.
Text(v) == v[2]

\* load_config_overrides: the type is guessed from the text.
Guess(t) ==
    CASE t \in {"true", "false"} -> <<"bool", t>>
      [] t \in {"[]", "[a]"} -> <<"list", t>>
      [] t \in Range(Decimals) -> <<"u64", t>>
      [] t \in DOMAIN Decimals -> <<"u32", t>>
      [] OTHER -> <<"str", t>>

\* coerce_overrides: a string becomes a choice, a decimal a u64.
Coerce(o, v) ==
    CASE GmOptions[o].ty = "choice" /\ v[1] = "str" -> <<"choice", v[2]>>
      [] GmOptions[o].ty = "u64" /\ v[1] = "u32" -> <<"u64", Decimals[v[2]]>>
      [] OTHER -> v

\* load_config_overrides, profile and file merged, resolve_options.
Loaded == [o \in DOMAIN gmFile |-> Guess(gmFile[o])]

Merged(o) ==
    IF o \in DOMAIN gmFile THEN Coerce(o, Loaded[o])
    ELSE IF o \in DOMAIN GmProfile THEN Coerce(o, GmProfile[o]) ELSE GmOptions[o].default

\* App::new: the file before the profile before the default, nothing coerced.
Shown(o) ==
    IF o \in DOMAIN gmFile THEN Loaded[o]
    ELSE IF o \in DOMAIN GmProfile THEN GmProfile[o] ELSE GmOptions[o].default

-----------------------------------------------------------------------------
\* The rules among Boolean options.
Enabled(values, o) == values[o] = True

\* deps_satisfied.
DepsSatisfied(values, o) == \A d \in GmOptions[o].depends : Enabled(values, d)

\* apply_selects, one iteration: an enabled option whose dependencies are not
\* met is disabled, in the order of the names, each seeing the ones before it;
\* then what the enabled ones select is enabled, in the same order.
DisablePass(values) ==
    FoldLeft(LAMBDA v, o : IF Enabled(v, o) /\ ~DepsSatisfied(v, o) THEN [v EXCEPT ![o] = False] ELSE v,
             values, GmOrder)

SelectPass(values) ==
    FoldLeft(LAMBDA v, o : IF Enabled(v, o)
                           THEN [p \in Options |-> IF p \in GmOptions[o].selects /\ v[p] = False THEN True ELSE v[p]]
                           ELSE v,
             values, GmOrder)

SelectRound(values) == SelectPass(DisablePass(values))

ApplySelects ==
    /\ gmMode = "selects"
    /\ gmValues' = SelectRound(gmValues)
    /\ IF gmValues' = gmValues /\ DisablePass(gmValues) = gmValues
       THEN gmMode' = "normal" /\ gmRounds' = 0
       ELSE gmMode' = gmMode /\ gmRounds' = gmRounds + 1
    /\ UNCHANGED <<gmNav, gmAbout, gmResults, gmFound, gmDirty, gmFile, gmLeft>>

-----------------------------------------------------------------------------
Page == Last(gmNav)
Children(path) == GmTree[path]
Selected == Children(Page.path)[Page.cursor]

SetPage(p) == gmNav' = [gmNav EXCEPT ![Len(gmNav)] = p]

\* draw_page_list moves the window before the next key is read.
Window(p) ==
    [p EXCEPT !.scroll = IF p.cursor - 1 < p.scroll THEN p.cursor - 1
                         ELSE IF p.cursor > p.scroll + GmHeight THEN p.cursor - GmHeight
                         ELSE p.scroll]

NewPage(path) == [path |-> path, cursor |-> 1, scroll |-> 0]

Quiet == UNCHANGED <<gmData, gmRounds>>
Stay == UNCHANGED gmPlace

\* cursor_up and cursor_down, around the ends.
CursorDown ==
    /\ SetPage(Window([Page EXCEPT !.cursor = IF @ < Len(Children(Page.path)) THEN @ + 1 ELSE 1]))
    /\ Quiet /\ UNCHANGED <<gmMode, gmAbout, gmResults, gmFound>>

CursorUp ==
    /\ SetPage(Window([Page EXCEPT !.cursor = IF @ > 1 THEN @ - 1 ELSE Len(Children(Page.path))]))
    /\ Quiet /\ UNCHANGED <<gmMode, gmAbout, gmResults, gmFound>>

\* go_back keeps the first page.
GoBack ==
    /\ gmNav' = IF Len(gmNav) > 1 THEN Front(gmNav) ELSE gmNav
    /\ Quiet /\ UNCHANGED <<gmMode, gmAbout, gmResults, gmFound>>

EnterSubmenu ==
    /\ Selected = "menu"
    /\ gmNav' = Append(gmNav, NewPage(Append(Page.path, Page.cursor)))
    /\ Quiet /\ UNCHANGED <<gmMode, gmAbout, gmResults, gmFound>>

\* toggle_bool, apply_selects after it.
ToggleBool(o) ==
    IF DepsSatisfied(gmValues, o) /\ gmValues[o] \in {True, False}
    THEN /\ gmValues' = [gmValues EXCEPT ![o] = IF @ = True THEN False ELSE True]
         /\ gmDirty' = TRUE /\ gmMode' = "selects" /\ gmRounds' = 0
         /\ UNCHANGED <<gmNav, gmAbout, gmResults, gmFound, gmFile>>
    ELSE Quiet /\ Stay

\* cycle_choice: a value that is not in the list counts as its first.
CycleChoice(o) ==
    IF DepsSatisfied(gmValues, o)
    THEN LET c == GmOptions[o].choices
             at == {i \in DOMAIN c : c[i] = gmValues[o][2]}
             i == IF at = {} THEN 1 ELSE CHOOSE j \in at : TRUE
         IN  /\ gmValues' = [gmValues EXCEPT ![o] = <<"choice", c[(i % Len(c)) + 1]>>]
             /\ gmDirty' = TRUE /\ UNCHANGED <<gmFile, gmRounds>> /\ Stay
    ELSE Quiet /\ Stay

\* start_edit: Enter on an option.
StartEdit ==
    /\ Selected \in Options
    /\ CASE ~DepsSatisfied(gmValues, Selected) -> Quiet /\ Stay
         [] DepsSatisfied(gmValues, Selected) /\ GmOptions[Selected].ty = "bool" -> ToggleBool(Selected)
         [] DepsSatisfied(gmValues, Selected) /\ GmOptions[Selected].ty = "choice" -> CycleChoice(Selected)
         [] OTHER -> /\ gmMode' = "edit" /\ gmAbout' = Selected
                     /\ Quiet /\ UNCHANGED <<gmNav, gmResults, gmFound>>

\* Space on an option.
Space ==
    /\ Selected \in Options
    /\ IF GmOptions[Selected].ty = "choice" THEN CycleChoice(Selected) ELSE ToggleBool(Selected)

\* commit_edit: the text in the option's type, or nothing.
Typed(o, t) ==
    CASE GmOptions[o].ty = "u32" -> IF t \in DOMAIN Decimals THEN <<"u32", t>> ELSE gmValues[o]
      [] GmOptions[o].ty = "u64" -> IF t \in DOMAIN Decimals THEN <<"u64", Decimals[t]>>
                                    ELSE IF t \in Range(Decimals) THEN <<"u64", t>> ELSE gmValues[o]
      [] OTHER -> <<"str", t>>

CommitEdit(t) ==
    /\ gmMode = "edit"
    /\ gmValues' = [gmValues EXCEPT ![gmAbout] = Typed(gmAbout, t)]
    /\ gmDirty' = (gmDirty \/ gmValues' # gmValues)
    /\ gmMode' = "normal" /\ UNCHANGED <<gmNav, gmAbout, gmResults, gmFound, gmFile, gmRounds>>

\* Escape leaves the edit, the help and the search.
Cancel ==
    /\ gmMode \in {"edit", "help", "search"}
    /\ gmMode' = "normal" /\ gmResults' = <<>>
    /\ Quiet /\ UNCHANGED <<gmNav, gmAbout, gmFound>>

OpenHelp ==
    /\ Selected \in Options
    /\ gmMode' = "help" /\ gmAbout' = Selected
    /\ Quiet /\ UNCHANGED <<gmNav, gmResults, gmFound>>

-----------------------------------------------------------------------------
OpenSearch ==
    /\ gmMode' = "search" /\ gmResults' = <<>> /\ gmFound' = 1
    /\ Quiet /\ UNCHANGED <<gmNav, gmAbout>>

\* execute_search: the options that match, in the order of the tree.
Search(q) ==
    /\ gmMode = "search"
    /\ gmResults' = SelectSeq(GmOrder, LAMBDA o : o \in GmQueries[q])
    /\ gmFound' = 1
    /\ Quiet /\ UNCHANGED <<gmNav, gmMode, gmAbout>>

SearchDown ==
    /\ gmMode = "search" /\ gmResults # <<>>
    /\ gmFound' = IF gmFound < Len(gmResults) THEN gmFound + 1 ELSE 1
    /\ Quiet /\ UNCHANGED <<gmNav, gmMode, gmAbout, gmResults>>

\* search_tree: where an option is.
Place(o) == CHOOSE p \in (DOMAIN GmTree) \X (1..Len(GmOrder)) : p[2] \in DOMAIN GmTree[p[1]] /\ GmTree[p[1]][p[2]] = o

\* navigate_to_search_result: the pages on the way to the result, the cursor
\* at it; with no result the search goes on.
Navigate ==
    /\ gmMode = "search"
    /\ IF gmFound \in DOMAIN gmResults
       THEN LET p == Place(gmResults[gmFound])
                nav == [i \in 1 .. Len(p[1]) + 1 |-> NewPage(SubSeq(p[1], 1, i - 1))]
            IN  /\ gmNav' = [nav EXCEPT ![Len(nav)] = Window([@ EXCEPT !.cursor = p[2]])]
                /\ gmMode' = "normal" /\ gmResults' = <<>>
       ELSE UNCHANGED <<gmNav, gmMode, gmResults>>
    /\ Quiet /\ UNCHANGED <<gmAbout, gmFound>>

-----------------------------------------------------------------------------
\* App::save: what differs from the defaults.
Overrides == {o \in Options : gmValues[o] # GmOptions[o].default}

WriteFile == gmFile' = [o \in Overrides |-> Text(gmValues[o])] /\ gmDirty' = FALSE

Save == WriteFile /\ UNCHANGED <<gmValues, gmRounds>> /\ Stay

\* q saves what has changed; Ctrl-C does not.
Quit(saves) ==
    /\ IF saves /\ gmDirty THEN WriteFile ELSE UNCHANGED <<gmFile, gmDirty>>
    /\ gmMode' = "closed"
    /\ UNCHANGED <<gmValues, gmNav, gmAbout, gmResults, gmFound, gmRounds>>

\* The next session starts from the file.
Open ==
    /\ gmMode = "closed"
    /\ gmValues' = [o \in Options |-> Shown(o)]
    /\ gmNav' = <<NewPage(<<>>)>> /\ gmMode' = "normal" /\ gmResults' = <<>> /\ gmFound' = 1
    /\ gmDirty' = FALSE
    /\ UNCHANGED <<gmAbout, gmFile, gmRounds>>

GmInit ==
    /\ gmFile = <<>>
    /\ gmValues = [o \in Options |-> Shown(o)]
    /\ gmNav = <<NewPage(<<>>)>> /\ gmMode = "normal" /\ gmAbout = GmOrder[1]
    /\ gmResults = <<>> /\ gmFound = 1 /\ gmDirty = FALSE /\ gmRounds = 0 /\ gmLeft = GmKeys

\* run_event_loop.
NormalKey ==
    /\ gmMode = "normal"
    /\ \/ CursorUp \/ CursorDown \/ GoBack \/ EnterSubmenu \/ StartEdit \/ Space
       \/ OpenHelp \/ OpenSearch \/ Save \/ \E s \in BOOLEAN : Quit(s)

Key ==
    /\ gmLeft > 0 /\ gmLeft' = gmLeft - 1
    /\ \/ NormalKey \/ Cancel \/ Open \/ SearchDown \/ Navigate
       \/ \E t \in GmTexts : CommitEdit(t)
       \/ \E q \in DOMAIN GmQueries : Search(q)

GmNext == Key \/ ApplySelects

GmSpec == GmInit /\ [][GmNext]_<<gmPlace, gmData, gmRounds, gmLeft>>

-----------------------------------------------------------------------------
\* What apply_selects_and_validate makes of the merged values: the selects
\* closed over, the dependencies met.
ResolveSelects(values) ==
    LET RECURSIVE close(_)
        close(v) == LET w == SelectPass(v) IN IF w = v THEN v ELSE close(w)
    IN  close(values)

Built == ResolveSelects([o \in Options |-> Merged(o)])

\* An option keeps its value through the file unless it is a string that reads
\* like another type, or has the default value where the profile has another.
Kept(o) ==
    /\ GmOptions[o].ty = "str" => Guess(gmValues[o][2])[1] = "str"
    /\ o \in DOMAIN GmProfile => gmValues[o] # GmOptions[o].default

\* The configuration the menu saved is the one the next build uses: whatever
\* path through toggles, selects, edits and earlier sessions led to it, the build
\* reads the file back to the values on the screen (with the two exceptions of
\* Kept) and finds every dependency met.
SavedIsBuilt ==
    gmMode = "normal" /\ ~gmDirty =>
        /\ \A o \in Options : Kept(o) => Built[o] = Coerce(o, gmValues[o])
        /\ (\A o \in Options : Kept(o)) => \A o \in Options : Enabled(Built, o) => DepsSatisfied(Built, o)

\* The page shown exists, its cursor is on one of its lines and in the window,
\* after any sequence of moves, searches and returns.
PageSound ==
    \A i \in DOMAIN gmNav :
        LET p == gmNav[i]
        IN  /\ p.path \in DOMAIN GmTree /\ p.cursor \in DOMAIN Children(p.path)
            /\ i = Len(gmNav) => p.cursor \in p.scroll + 1 .. p.scroll + GmHeight

\* apply_selects settles.
SelectsSettle == gmRounds <= Cardinality(Options) + 1

-----------------------------------------------------------------------------
(***************************************************************************)
(* The build model a gluon.rhai script describes (crates/tools/gluon/src/       *)
(* engine.rs): tables of options, targets, profiles, groups, crates, rules and    *)
(* dependencies that the functions of the script language fill, one call after     *)
(* the other, and files that are included once.  A call on a builder is a           *)
(* statement on the entry the builder was made for; values are single strings.      *)
(***************************************************************************)
CONSTANTS
    SmScripts,  \* scripts: file -> sequence of statements
    SmMain      \* gluon.rhai

VARIABLES
    smScripts,  \* the files
    smStack,    \* the files being run: <<file, next statement>>, the innermost last
    smVisited,  \* visited_includes
    smTables,   \* entries: <<table, name>> -> (field -> value)
    smMenus,    \* menu_order
    smSteps,    \* pipeline.steps
    smGlobals   \* qemu, bootloader, image, tests, benchmarks: field -> value

smVars == <<smScripts, smStack, smVisited, smTables, smMenus, smSteps, smGlobals>>

Empty == [x \in {} |-> ""]
Put(f, x, v) == [y \in DOMAIN f \cup {x} |-> IF y = x THEN v ELSE f[y]]

\* evaluate_script: the main file counts as included.
VisitedAtStart == {SmMain}

SmInit ==
    /\ smScripts \in SmScripts
    /\ smStack = <<<<SmMain, 1>>>> /\ smVisited = VisitedAtStart
    /\ smTables = Empty /\ smMenus = <<>> /\ smSteps = <<>> /\ smGlobals = Empty

Running == smStack # <<>>
Top == smStack[Len(smStack)]
Statement == smScripts[Top[1]][Top[2]]
More == Running /\ Top[2] <= Len(smScripts[Top[1]])
Is(kind) == More /\ Statement[1] = kind
Advanced == [smStack EXCEPT ![Len(smStack)] = <<Top[1], Top[2] + 1>>]
Proceed == smStack' = Advanced /\ UNCHANGED <<smScripts, smVisited>>

-----------------------------------------------------------------------------
\* config_bool, config_u32, config_u64, config_str: a new option takes the place
\* of one with its name.
DefineOption ==
    /\ Is("option")
    /\ smTables' = Put(smTables, <<"option", Statement[2]>>, Put(Empty, "type", Statement[3]))
    /\ Proceed /\ UNCHANGED <<smMenus, smSteps, smGlobals>>

\* config_choice, config_list, config_group.
DefineCompound ==
    /\ Is("compound")
    /\ smTables' = Put(smTables, <<"option", Statement[2]>>, Put(Empty, "type", Statement[3]))
    /\ Proceed /\ UNCHANGED <<smMenus, smSteps, smGlobals>>

\* field() of a group of options: an option of its own, with the menu the group
\* has by then.
DefineField ==
    /\ Is("field")
    /\ LET g == <<"option", Statement[2]>>
           o == Put(Empty, "type", Statement[4])
       IN smTables' = Put(smTables, <<"option", Statement[2], Statement[3]>>,
                          IF "menu" \in DOMAIN smTables[g] THEN Put(o, "menu", smTables[g]["menu"]) ELSE o)
    /\ Proceed /\ UNCHANGED <<smMenus, smSteps, smGlobals>>

\* target().
DefineTarget ==
    /\ Is("target")
    /\ smTables' = Put(smTables, <<"target", Statement[2]>>, Put(Empty, "spec", Statement[3]))
    /\ Proceed /\ UNCHANGED <<smMenus, smSteps, smGlobals>>

\* entry(..).or_insert_with: an entry that is there is kept.
Mentioned(key, fresh) == IF key \in DOMAIN smTables THEN smTables ELSE Put(smTables, key, fresh)

\* profile(), group(), rule(), dependency().
MentionProfile ==
    /\ Is("profile")
    /\ smTables' = Mentioned(<<"profile", Statement[2]>>, Empty)
    /\ Proceed /\ UNCHANGED <<smMenus, smSteps, smGlobals>>

MentionGroup ==
    /\ Is("group")
    /\ smTables' = Mentioned(<<"group", Statement[2]>>, Put(Empty, "target", ""))
    /\ Proceed /\ UNCHANGED <<smMenus, smSteps, smGlobals>>

MentionRule ==
    /\ Is("rule")
    /\ smTables' = Mentioned(<<"rule", Statement[2]>>, Put(Empty, "handler", Statement[2]))
    /\ Proceed /\ UNCHANGED <<smMenus, smSteps, smGlobals>>

MentionDependency ==
    /\ Is("dependency")
    /\ smTables' = Mentioned(<<"dependency", Statement[2]>>, Put(Empty, "source", "crates.io"))
    /\ Proceed /\ UNCHANGED <<smMenus, smSteps, smGlobals>>

\* add(): the crate takes what its group has by then, and the place of a crate
\* with its name in any group.
AddCrate ==
    /\ Is("add")
    /\ smTables' = Put(smTables, <<"crate", Statement[3]>>,
                       Put(Put(Empty, "group", Statement[2]), "target", smTables[<<"group", Statement[2]>>]["target"]))
    /\ Proceed /\ UNCHANGED <<smMenus, smSteps, smGlobals>>

\* A builder's method sets a field of its entry, when the entry is there.
SetField(table) ==
    /\ More /\ Len(Statement) = 5 /\ Statement[1] = "set" /\ Statement[2] = table
    /\ LET key == <<table, Statement[3]>> IN
       smTables' = IF key \in DOMAIN smTables THEN [smTables EXCEPT ![key] = Put(@, Statement[4], Statement[5])] ELSE smTables
    /\ Proceed /\ UNCHANGED <<smMenus, smSteps, smGlobals>>

SetOption == SetField("option")

SetProfile == SetField("profile")

SetGroup == SetField("group")

SetCrate == SetField("crate")

SetRule == SetField("rule")

SetDependency == SetField("dependency")

\* menu(), of an option or a group of options: a menu is listed where it is first
\* mentioned.
SetMenu ==
    /\ Is("menu")
    /\ LET key == <<"option", Statement[2]>> IN
       smTables' = IF key \in DOMAIN smTables THEN [smTables EXCEPT ![key] = Put(@, "menu", Statement[3])] ELSE smTables
    /\ smMenus' = IF Statement[3] \in ToSet(smMenus) THEN smMenus ELSE Append(smMenus, Statement[3])
    /\ Proceed /\ UNCHANGED <<smSteps, smGlobals>>

\* version(), git(), path(): another source, without a reference.
SetSource ==
    /\ Is("source")
    /\ LET key == <<"dependency", Statement[2]>> IN
       smTables' = [smTables EXCEPT ![key] = [f \in (DOMAIN @ \cup {"source"}) \ {"ref"} |-> IF f = "source" THEN Statement[3] ELSE @[f]]]
    /\ Proceed /\ UNCHANGED <<smMenus, smSteps, smGlobals>>

RefApplies(entry) == entry["source"] = "git"

\* rev(), tag(), branch(): of a git source only.
SetRef ==
    /\ Is("ref")
    /\ LET key == <<"dependency", Statement[2]>> IN
       smTables' = IF RefApplies(smTables[key]) THEN [smTables EXCEPT ![key] = Put(@, "ref", Statement[3])] ELSE smTables
    /\ Proceed /\ UNCHANGED <<smMenus, smSteps, smGlobals>>

\* stage(), barrier(), rule() of the pipeline.
PipelineStep ==
    /\ Is("step")
    /\ smSteps' = Append(smSteps, Statement[2])
    /\ Proceed /\ UNCHANGED <<smTables, smMenus, smGlobals>>

\* project(), qemu() and its methods.
SetQemu ==
    /\ Is("qemu")
    /\ smGlobals' = Put(smGlobals, <<"qemu", Statement[2]>>, Statement[3])
    /\ Proceed /\ UNCHANGED <<smTables, smMenus, smSteps>>

\* bootloader(), image() and their methods.
SetImage ==
    /\ Is("image")
    /\ smGlobals' = Put(smGlobals, <<"image", Statement[2]>>, Statement[3])
    /\ Proceed /\ UNCHANGED <<smTables, smMenus, smSteps>>

\* tests(), benchmarks() and their methods.
SetTests ==
    /\ Is("tests")
    /\ smGlobals' = Put(smGlobals, <<"tests", Statement[2]>>, Statement[3])
    /\ Proceed /\ UNCHANGED <<smTables, smMenus, smSteps>>

\* kconfig(): its options take the place of those with their names, its menus are
\* listed after the ones that are.
LoadKconfig ==
    /\ Is("kconfig")
    /\ smTables' = Put(smTables, <<"option", Statement[2]>>, Put(Put(Empty, "type", "kconfig"), "menu", Statement[3]))
    /\ smMenus' = IF Statement[3] \in ToSet(smMenus) THEN smMenus ELSE Append(smMenus, Statement[3])
    /\ Proceed /\ UNCHANGED <<smSteps, smGlobals>>

\* include: a file that was included before is left out.
Include ==
    /\ Is("include")
    /\ IF Statement[2] \in smVisited
       THEN smStack' = Advanced /\ UNCHANGED smVisited
       ELSE smVisited' = smVisited \cup {Statement[2]} /\ smStack' = Append(Advanced, <<Statement[2], 1>>)
    /\ UNCHANGED <<smScripts, smTables, smMenus, smSteps, smGlobals>>

EndOfFile ==
    /\ Running /\ ~More
    /\ smStack' = SubSeq(smStack, 1, Len(smStack) - 1)
    /\ UNCHANGED <<smScripts, smVisited, smTables, smMenus, smSteps, smGlobals>>

SmNext ==
    \/ DefineOption \/ DefineCompound \/ DefineField \/ DefineTarget \/ MentionProfile \/ MentionGroup \/ MentionRule
    \/ MentionDependency \/ AddCrate \/ SetOption \/ SetProfile \/ SetGroup \/ SetCrate \/ SetRule \/ SetDependency
    \/ SetMenu \/ SetSource \/ SetRef \/ PipelineStep \/ SetQemu \/ SetImage \/ SetTests \/ LoadKconfig \/ Include \/ EndOfFile

SmSpec == SmInit /\ [][SmNext]_smVars

-----------------------------------------------------------------------------
\* The statements in the order in which they count: a file stands where it is
\* first included.
RECURSIVE FlatFrom(_, _)
FlatFrom(acc, file) ==
    FoldLeft(LAMBDA a, s :
        IF s[1] # "include" THEN [a EXCEPT !.list = Append(@, s)]
        ELSE IF s[2] \in a.seen THEN a ELSE FlatFrom([a EXCEPT !.seen = @ \cup {s[2]}], s[2]),
        acc, smScripts[file])
Flat == FlatFrom([list |-> <<>>, seen |-> {SmMain}], SmMain).list

LastOf(S) == CHOOSE i \in S : \A j \in S : j <= i
FirstOf(S) == CHOOSE i \in S : \A j \in S : i <= j

\* The last statement that gives the target of a group, before statement n.
GroupTarget(list, g, n) ==
    LET S == {i \in 1..n - 1 : list[i][1] = "set" /\ list[i][2] = "group" /\ list[i][3] = g /\ list[i][4] = "target"}
    IN IF S = {} THEN "" ELSE list[LastOf(S)][5]

\* Every crate belongs to the group that added it last, and is compiled for the
\* target that group had at the time, unless it sets its own afterwards.
CratesPlaced(list) ==
    \A c \in {list[i][3] : i \in {j \in DOMAIN list : list[j][1] = "add"}} :
        LET added == LastOf({i \in DOMAIN list : list[i][1] = "add" /\ list[i][3] = c})
            own == {i \in added..Len(list) : list[i][1] = "set" /\ list[i][2] = "crate" /\ list[i][3] = c /\ list[i][4] = "target"}
            entry == smTables[<<"crate", c>>]
        IN /\ entry["group"] = list[added][2]
           /\ entry["target"] = IF own = {} THEN GroupTarget(list, list[added][2], added) ELSE list[LastOf(own)][5]

\* What an entry says is what was last said of it: of an option since it was last
\* defined, of a profile since it was first mentioned.
LastWord(list) ==
    /\ \A i \in DOMAIN list : list[i][1] = "set" /\ list[i][2] \in {"option", "profile"} =>
          LET since == {j \in DOMAIN list : list[i][2] = "option" /\ list[j][1] \in {"option", "compound", "kconfig"} /\ list[j][2] = list[i][3]}
              later == {j \in i + 1..Len(list) : list[j][1] = "set" /\ SubSeq(list[j], 2, 4) = SubSeq(list[i], 2, 4)}
              entry == smTables[<<list[i][2], list[i][3]>>]
          IN (later = {} /\ \A j \in since : j < i) => list[i][4] \in DOMAIN entry /\ entry[list[i][4]] = list[i][5]
    /\ \A key \in DOMAIN smTables : key[1] = "dependency" /\ "ref" \in DOMAIN smTables[key] =>
          /\ smTables[key]["source"] = "git"
          /\ \E i \in DOMAIN list : /\ list[i] = <<"ref", key[2], smTables[key]["ref"]>>
                                    /\ \A j \in i + 1..Len(list) : ~(list[j][1] = "source" /\ list[j][2] = key[2])

\* Every menu of an option is listed, once, in the order of first mention.
MenusListed(list) ==
    LET mentions == SelectSeq([i \in DOMAIN list |-> IF list[i][1] \in {"menu", "kconfig"} THEN list[i][3] ELSE ""], LAMBDA m : m # "")
    IN /\ ToSet(smMenus) = ToSet(mentions) /\ IsInjective(smMenus)
       /\ \A a, b \in DOMAIN smMenus : a < b =>
             FirstOf({i \in DOMAIN mentions : mentions[i] = smMenus[a]}) < FirstOf({i \in DOMAIN mentions : mentions[i] = smMenus[b]})
       /\ \A key \in DOMAIN smTables : "menu" \in DOMAIN smTables[key] => smTables[key]["menu"] \in ToSet(smMenus)

\* When the script has run, the model says what its statements say, read in order
\* with every included file once, whatever files include each other.
ScriptRight ==
    ~Running => \E list \in {Flat} :
        /\ CratesPlaced(list) /\ LastWord(list) /\ MenusListed(list)
        /\ smSteps = [i \in DOMAIN SelectSeq(list, LAMBDA s : s[1] = "step") |-> SelectSeq(list, LAMBDA s : s[1] = "step")[i][2]]
=============================================================================
