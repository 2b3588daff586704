------------------------------- MODULE Console ------------------------------
(*****************************************************************************)
(* What is typed and what is shown: input devices, escape sequences and the  *)
(* framebuffer console.                                                      *)
(*****************************************************************************)
EXTENDS Integers, Sequences, SequencesExt, FiniteSets

-----------------------------------------------------------------------------
(***************************************************************************)
(* The control-sequence parser of the consoles                                 *)
(* (kernel/kernel/src/drivers/fbcon/ansi.rs; lepton-terminal has the same code): *)
(* one byte at a time, from any state.                                          *)
(***************************************************************************)
CONSTANTS
    AnMaxParams,    \* MAX_PARAMS
    AnMaxValue,     \* u16::MAX
    AnLength        \* bound: bytes of a control sequence

VARIABLES
    anState, anParams, anCount, anStarted,
    anOut,      \* the action that feed returned
    anBody      \* history: the bytes since the introducer

anVars == <<anState, anParams, anCount, anStarted, anOut, anBody>>

Digit == {"1", "2"}
ValueOf(b) == IF b = "1" THEN 1 ELSE 2
Final == {"m", "c", "[", "]"}
Bytes == Digit \cup Final \cup {";", " ", "esc", "bel", "del"}
Control == {"bel"}

None == <<"none">>
Printed(b) == <<"print", b>>
Execute(b) == <<"execute", b>>
Dispatch(params, count, final) == <<"csi", SubSeq(params, 1, count), final>>
NoParams == [i \in 1..AnMaxParams |-> 0]
Saturated(n) == IF n > AnMaxValue THEN AnMaxValue ELSE n

AnInit ==
    /\ anState = "ground" /\ anParams = NoParams /\ anCount = 0 /\ anStarted = FALSE
    /\ anOut = None /\ anBody = <<>>

Keeps == UNCHANGED <<anParams, anCount, anStarted, anBody>>

\* ground, as what it makes of a byte.
GroundState(b) == IF b = "esc" THEN "escape" ELSE "ground"
GroundOut(b) ==
    CASE b \in {"esc", "del"} -> None
      [] b \in Control -> Execute(b)
      [] OTHER -> Printed(b)

Ground(b) ==
    /\ anState = "ground"
    /\ anState' = GroundState(b) /\ anOut' = GroundOut(b)
    /\ Keeps

\* escape; a byte that begins no sequence is taken as text.
Escape(b) ==
    /\ anState = "escape"
    /\ CASE b = "[" -> /\ anState' = "param" /\ anOut' = None
                       /\ anParams' = NoParams /\ anCount' = 0 /\ anStarted' = FALSE /\ anBody' = <<>>
         [] b = "]" -> anState' = "osc" /\ anOut' = None /\ Keeps
         [] b = "c" -> anState' = "ground" /\ anOut' = <<"csi", <<2>>, "J">> /\ Keeps
         [] OTHER -> anState' = GroundState(b) /\ anOut' = GroundOut(b) /\ Keeps

\* csi_param: a parameter is counted when its first digit comes, up to the limit.
NewCount == IF ~anStarted /\ anCount < AnMaxParams THEN anCount + 1 ELSE anCount

ParamDigit(b) ==
    /\ anStarted' = TRUE /\ anCount' = NewCount
    /\ anParams' = IF NewCount > 0
                   THEN [anParams EXCEPT ![NewCount] = Saturated(Saturated(@ * 10) + ValueOf(b))]
                   ELSE anParams
    /\ anOut' = None /\ UNCHANGED anState

\* A separator counts an empty parameter.
Separator ==
    /\ anCount' = NewCount /\ anStarted' = FALSE
    /\ anOut' = None /\ UNCHANGED <<anState, anParams>>

CsiParam(b) ==
    /\ anState = "param" /\ Len(anBody) < AnLength
    /\ anBody' = Append(anBody, b)
    /\ CASE b \in Digit -> ParamDigit(b)
         [] b = ";" -> Separator
         [] b = " " -> anState' = "intermediate" /\ anOut' = None /\ UNCHANGED <<anParams, anCount, anStarted>>
         [] b \in Final -> /\ anState' = "ground" /\ anOut' = Dispatch(anParams, anCount, b)
                           /\ UNCHANGED <<anParams, anCount, anStarted>>
         [] OTHER -> anState' = "ground" /\ anOut' = None /\ UNCHANGED <<anParams, anCount, anStarted>>

CsiIntermediate(b) ==
    /\ anState = "intermediate" /\ Len(anBody) < AnLength
    /\ anState' = IF b = " " THEN "intermediate" ELSE "ground"
    /\ anOut' = IF b \in Final THEN Dispatch(anParams, anCount, b) ELSE None
    /\ anBody' = Append(anBody, b)
    /\ UNCHANGED <<anParams, anCount, anStarted>>

\* osc_string: ignored up to BEL or the next escape.
OscString(b) ==
    /\ anState = "osc"
    /\ anState' = CASE b = "bel" -> "ground" [] b = "esc" -> "escape" [] OTHER -> "osc"
    /\ anOut' = None
    /\ Keeps

AnNext ==
    \E b \in Bytes : Ground(b) \/ Escape(b) \/ CsiParam(b) \/ CsiIntermediate(b) \/ OscString(b)

AnSpec == AnInit /\ [][AnNext]_anVars

-----------------------------------------------------------------------------
\* The fields of the parameter bytes: what stands between separators; an empty
\* last field is none.
ParamBytes == SelectSeq(anBody, LAMBDA b : b \in Digit \cup {";"})
Fields ==
    LET cuts == {0} \cup {i \in DOMAIN ParamBytes : ParamBytes[i] = ";"} \cup {Len(ParamBytes) + 1}
        starts == SetToSortSeq(cuts \ {Len(ParamBytes) + 1}, <)
        next(i) == CHOOSE j \in cuts : j > i /\ \A k \in cuts : k > i => k >= j
        all == [n \in 1..Len(starts) |-> SubSeq(ParamBytes, starts[n] + 1, next(starts[n]) - 1)]
    IN  IF all[Len(all)] = <<>> THEN Front(all) ELSE all
FieldValue(f) == FoldLeft(LAMBDA acc, b : Saturated(acc * 10 + ValueOf(b)), 0, f)

\* A dispatched sequence carries the values of its fields, in order, an empty
\* field as 0 and a value too large as the largest: all of them when there are
\* no more than MAX_PARAMS, and all but the last one it has room for otherwise.
ParamsRight ==
    anOut[1] = "csi" /\ anState = "ground" /\ anBody # <<>> /\ Last(anBody) \in Final /\ anOut[3] = Last(anBody) =>
        LET n == IF Len(Fields) <= AnMaxParams THEN Len(Fields) ELSE AnMaxParams - 1
        IN  /\ Len(anOut[2]) = IF Len(Fields) <= AnMaxParams THEN Len(Fields) ELSE AnMaxParams
            /\ \A i \in 1..n : anOut[2][i] = FieldValue(Fields[i])

-----------------------------------------------------------------------------
(***************************************************************************)
(* The framebuffer consoles of the virtual terminals                          *)
(* (kernel/kernel/src/drivers/fbcon, tty/mod.rs).  A writer holds the lock of   *)
(* its console while it applies characters and control sequences to the cells  *)
(* and draws the dirty ones; which console draws is an atomic flag that         *)
(* switch_vt and the blanking ioctl set without the lock, on any CPU and in     *)
(* several steps, and that a writer reads before it draws.                      *)
(***************************************************************************)
CONSTANTS
    FcVts, FcCpus,
    FcCols, FcRows,
    FcWord, FcWords,    \* bits of a dirty word, MAX_WORDS
    FcSgr,              \* SGR parameters in use
    FcPlans             \* bounds: [cpus, ops, write, switch], the CPUs that take part, what they
                        \* write, and how many sequences and switches there are

VARIABLES
    fcCon,      \* each console: cells, dirty, cursor, saved cursor, colors
    fcActive,   \* each console: active
    fcVt,       \* ACTIVE_VT
    fcScreen,   \* what the framebuffer shows in every cell
    fcHeld,     \* the CPU that holds each console's lock, 0 for none
    fcPc, fcOn, \* each CPU: where it is, in which console
    fcSaw,      \* each CPU: the flag of that console as it read it
    fcOld,      \* each CPU: the console its switch_vt has to stop
    fcUser,     \* a program has drawn on the framebuffer since the last redraw
    fcLate,     \* history: since the last redraw a console has drawn that was no longer active
    fcCrossed,  \* history: two switches, or a switch and a blanking, have overlapped
    fcPanic,
    fcLeft      \* the plan, and the calls left

fcVars == <<fcCon, fcActive, fcVt, fcScreen, fcHeld, fcPc, fcOn, fcSaw, fcOld, fcUser, fcLate, fcCrossed, fcPanic, fcLeft>>
fcHistory == <<fcUser, fcLate, fcCrossed>>

Total == FcCols * FcRows
Default == 16   \* Color::Default, besides the 16 ANSI colors
Blank == [ch |-> " ", fg |-> Default, bg |-> Default]
AtMost(a, b) == IF a < b THEN a ELSE b
SatSub(a, b) == IF a < b THEN 0 ELSE a - b

\* render_cell with to_bgr32: the colors that reach the screen; a space shows
\* its background only.
RenderCell(cell) ==
    LET bg == IF cell.bg = Default THEN 0 ELSE cell.bg
        fg == IF cell.fg = Default THEN 7 ELSE cell.fg
    IN  [ch |-> cell.ch, fg |-> IF cell.ch = " " THEN 0 ELSE fg, bg |-> bg]
Zeroed == [ch |-> " ", fg |-> 0, bg |-> 0]
Foreign == [ch |-> "?", fg |-> 0, bg |-> 0]

-----------------------------------------------------------------------------
\* set: a bit beyond the last word is dropped.
SetBit(d, i) == IF i \div FcWord < FcWords THEN d \cup {i} ELSE d

\* set_range, word by word.
SetRange(d, start, end) ==
    LET first == start \div FcWord
        last == AtMost((end - 1) \div FcWord, FcWords - 1)
        endBit == IF end % FcWord = 0 THEN FcWord ELSE end % FcWord
    IN  IF start >= end \/ first >= FcWords THEN d
        ELSE IF first = last
        THEN d \cup {first * FcWord + b : b \in (start % FcWord)..((end - 1) % FcWord)}
        ELSE d \cup {first * FcWord + b : b \in (start % FcWord)..(FcWord - 1)}
               \cup ((first + 1) * FcWord)..(last * FcWord - 1)
               \cup {last * FcWord + b : b \in 0..(endBit - 1)}

SetAll(count) == 0..(AtMost(count, FcWords * FcWord) - 1)

\* drain with render_cell, for a console that draws.
DrawDirty(screen, s) ==
    [i \in 0..(Total - 1) |-> IF i \in s.dirty THEN RenderCell(s.cells[i]) ELSE screen[i]]

\* A console, the screen, whether the console drew when the flag was read and
\* whether it does now, and whether it has panicked.
World(s, screen, active, now) == [s |-> s, screen |-> screen, active |-> active, now |-> now, panic |-> FALSE]

\* flush_dirty, with what it reads in the flag.
FlushDirty(w, active) ==
    [w EXCEPT !.screen = IF active THEN DrawDirty(@, w.s) ELSE @, !.s.dirty = {}]

\* (mutant) The pending cells are not drawn before the screen moves.
ScrollUpFirst(w) ==
    IF FcRows <= 1 THEN w
    ELSE [w EXCEPT
            !.screen = IF ~w.active THEN @
                       ELSE [i \in 0..(Total - 1) |-> IF i + FcCols < Total THEN @[i + FcCols] ELSE Zeroed],
            !.s.cells = [i \in 0..(Total - 1) |-> IF i + FcCols < Total THEN @[i + FcCols] ELSE Blank],
            !.s.dirty = SetRange(@, (FcRows - 1) * FcCols, Total)]

\* scroll_up: an active console draws what is pending, for which the flag is read
\* a second time, and moves the pixels; the cells move, the last row is blank and
\* dirty.
ScrollUp(w) ==
    LET flushed == IF w.active THEN FlushDirty(w, w.now) ELSE w
    IN  IF FcRows <= 1 THEN w
        ELSE [flushed EXCEPT
                !.screen = IF ~w.active THEN @
                           ELSE [i \in 0..(Total - 1) |-> IF i + FcCols < Total THEN @[i + FcCols] ELSE Zeroed],
                !.s.cells = [i \in 0..(Total - 1) |-> IF i + FcCols < Total THEN @[i + FcCols] ELSE Blank],
                !.s.dirty = SetRange(@, (FcRows - 1) * FcCols, Total)]

ScrollIfBelow(w) == IF w.s.row >= FcRows THEN [ScrollUp(w) EXCEPT !.s.row = FcRows - 1] ELSE w

\* put_char: the wrap of a full row happens with the next character.
PutChar(w, ch) ==
    LET wrapped == IF w.s.col >= FcCols THEN [w EXCEPT !.s.col = 0, !.s.row = @ + 1] ELSE w
        x == ScrollIfBelow(wrapped)
        idx == x.s.row * FcCols + x.s.col
    IN  [x EXCEPT !.s.cells[idx] = [ch |-> ch, fg |-> x.s.fg, bg |-> x.s.bg],
                  !.s.dirty = SetBit(@, idx),
                  !.s.col = @ + 1]

\* execute_control.
ExecuteControl(w, byte) ==
    CASE byte = "nl" -> ScrollIfBelow([w EXCEPT !.s.col = 0, !.s.row = @ + 1])
      [] byte = "cr" -> [w EXCEPT !.s.col = 0]
      [] byte = "bs" -> IF w.s.col > 0 THEN [w EXCEPT !.s.col = @ - 1]
                        ELSE IF w.s.row > 0 THEN [w EXCEPT !.s.row = @ - 1, !.s.col = FcCols - 1]
                        ELSE w
      [] byte = "tab" -> [w EXCEPT !.s.col = AtMost(((@ + 4) \div 4) * 4, FcCols - 1)]

\* The cells from start to end - 1 are blanked; an index outside panics.
EraseCells(w, start, end) ==
    IF end > Total THEN [w EXCEPT !.panic = TRUE]
    ELSE [w EXCEPT !.s.cells = [i \in 0..(Total - 1) |-> IF i \in start..(end - 1) THEN Blank ELSE @[i]],
                   !.s.dirty = SetRange(@, start, end)]

\* erase_display and erase_line.
EraseDisplay(w, mode) ==
    LET cursor == w.s.row * FcCols + w.s.col
    IN  CASE mode = 0 -> EraseCells(w, cursor, Total)
          [] mode = 1 -> EraseCells(w, 0, cursor + 1)
          [] mode = 2 -> [w EXCEPT !.s.cells = [i \in 0..(Total - 1) |-> Blank],
                                   !.s.dirty = SetAll(Total), !.s.col = 0, !.s.row = 0]

EraseLine(w, mode) ==
    LET rowStart == w.s.row * FcCols
    IN  CASE mode = 0 -> EraseCells(w, rowStart + w.s.col, rowStart + FcCols)
          [] mode = 1 -> EraseCells(w, rowStart, rowStart + w.s.col + 1)
          [] mode = 2 -> EraseCells(w, rowStart, rowStart + FcCols)

\* sgr with one parameter.
Sgr(w, p) ==
    CASE p = 0 -> [w EXCEPT !.s.fg = Default, !.s.bg = Default]
      [] p = 1 -> [w EXCEPT !.s.fg = IF @ = Default THEN 15 ELSE IF @ < 8 THEN @ + 8 ELSE @]
      [] p = 7 -> [w EXCEPT !.s.fg = w.s.bg, !.s.bg = w.s.fg]
      [] p \in 30..37 -> [w EXCEPT !.s.fg = p - 30]
      [] p = 39 -> [w EXCEPT !.s.fg = Default]
      [] p \in 40..47 -> [w EXCEPT !.s.bg = p - 40]
      [] p = 49 -> [w EXCEPT !.s.bg = Default]
      [] p \in 90..97 -> [w EXCEPT !.s.fg = p - 90 + 8]
      [] p \in 100..107 -> [w EXCEPT !.s.bg = p - 100 + 8]
      [] OTHER -> w

\* csi_dispatch; the parameters are given with their defaults.
CsiDispatch(w, final, p, q) ==
    CASE final = "m" -> Sgr(w, p)
      [] final = "H" -> [w EXCEPT !.s.row = AtMost(SatSub(p, 1), FcRows - 1), !.s.col = AtMost(SatSub(q, 1), FcCols - 1)]
      [] final = "A" -> [w EXCEPT !.s.row = SatSub(@, p)]
      [] final = "B" -> [w EXCEPT !.s.row = AtMost(@ + p, FcRows - 1)]
      [] final = "C" -> [w EXCEPT !.s.col = AtMost(@ + p, FcCols - 1)]
      [] final = "D" -> [w EXCEPT !.s.col = SatSub(@, p)]
      [] final = "J" -> EraseDisplay(w, p)
      [] final = "K" -> EraseLine(w, p)
      [] final = "s" -> [w EXCEPT !.s.scol = w.s.col, !.s.srow = w.s.row]
      [] final = "u" -> [w EXCEPT !.s.col = w.s.scol, !.s.row = w.s.srow]

Sequences1 ==
    [op : {"print"}, a : {"a"}, p : {0}, q : {0}] \cup [op : {"control"}, a : {"nl", "cr", "bs", "tab"}, p : {0}, q : {0}]
      \cup [op : {"csi"}, a : {"m"}, p : FcSgr, q : {0}] \cup [op : {"csi"}, a : {"H"}, p : {1, FcRows + 1}, q : {1, FcCols}]
      \cup [op : {"csi"}, a : {"A", "B", "C", "D"}, p : {1}, q : {0}] \cup [op : {"csi"}, a : {"J", "K"}, p : 0..2, q : {0}]
      \cup [op : {"csi"}, a : {"s", "u"}, p : {0}, q : {0}]

\* apply_action.
ApplyAction(w, x) ==
    CASE x.op = "print" -> PutChar(w, x.a)
      [] x.op = "control" -> ExecuteControl(w, x.a)
      [] x.op = "csi" -> CsiDispatch(w, x.a, x.p, x.q)

-----------------------------------------------------------------------------
\* The first terminal's console is active and shows k characters, the others
\* are blank.
Written(k) ==
    [cells |-> [i \in 0..(Total - 1) |-> IF i < k THEN [Blank EXCEPT !.ch = "b"] ELSE Blank], dirty |-> {},
     col |-> IF k = 0 THEN 0 ELSE ((k - 1) % FcCols) + 1, row |-> IF k = 0 THEN 0 ELSE (k - 1) \div FcCols,
     scol |-> 0, srow |-> 0, fg |-> Default, bg |-> Default]

FcInit ==
    /\ \E k \in 0..Total : /\ fcCon = [v \in FcVts |-> Written(IF v = 1 THEN k ELSE 0)]
                           /\ fcScreen = [i \in 0..(Total - 1) |-> RenderCell(Written(k).cells[i])]
    /\ fcActive = [v \in FcVts |-> v = 1] /\ fcVt = 1
    /\ fcHeld = [v \in FcVts |-> 0]
    /\ fcPc = [c \in FcCpus |-> "idle"] /\ fcOn = [c \in FcCpus |-> 1]
    /\ fcSaw = [c \in FcCpus |-> FALSE] /\ fcOld = [c \in FcCpus |-> 1]
    /\ fcUser = FALSE /\ fcLate = FALSE /\ fcCrossed = FALSE /\ fcPanic = FALSE
    /\ fcLeft \in FcPlans

Goes(c, to) == fcPc' = [fcPc EXCEPT ![c] = to]
Idle(c) == ~fcPanic /\ c \in fcLeft.cpus /\ fcPc[c] = "idle"
Looks(c, v) == fcSaw' = [fcSaw EXCEPT ![c] = fcActive[v]]

\* write_str takes the lock, and the flag is read.
WriteStr(c, v) ==
    /\ Idle(c) /\ fcHeld[v] = 0 /\ fcLeft.write > 0
    /\ fcHeld' = [fcHeld EXCEPT ![v] = c] /\ fcOn' = [fcOn EXCEPT ![c] = v]
    /\ Looks(c, v) /\ Goes(c, "write")
    /\ UNCHANGED <<fcCon, fcActive, fcVt, fcScreen, fcOld, fcHistory, fcPanic, fcLeft>>

\* One sequence of the string: the cells; a scroll draws if the flag was set when
\* it was read, which may be before a switch on another CPU ...
WriteSequence(c, x) ==
    LET v == fcOn[c]
        w == ApplyAction(World(fcCon[v], fcScreen, fcSaw[c], fcActive[v]), x)
    IN  /\ ~fcPanic /\ fcPc[c] = "write" /\ fcLeft.write > 0
        /\ fcCon' = [fcCon EXCEPT ![v] = w.s] /\ fcScreen' = w.screen /\ fcPanic' = w.panic
        /\ fcLate' = (fcLate \/ (~fcActive[v] /\ w.screen # fcScreen))
        /\ fcLeft' = [fcLeft EXCEPT !.write = @ - 1]
        /\ Looks(c, v)
        /\ UNCHANGED <<fcActive, fcVt, fcHeld, fcPc, fcOn, fcOld, fcUser, fcCrossed>>

\* ... or after it.
LookAgain(c) ==
    /\ ~fcPanic /\ fcPc[c] \in {"write", "flush"} /\ fcSaw[c] # fcActive[fcOn[c]]
    /\ Looks(c, fcOn[c])
    /\ UNCHANGED <<fcCon, fcActive, fcVt, fcScreen, fcHeld, fcPc, fcOn, fcOld, fcHistory, fcPanic, fcLeft>>

\* The flush_dirty at the end of write_str and of redraw_all draws the dirty cells,
\* or forgets them, by the flag it has read; the lock is released.
FlushEnd(c) ==
    LET v == fcOn[c]
        w == FlushDirty(World(fcCon[v], fcScreen, fcSaw[c], fcActive[v]), fcSaw[c])
        all == fcPc[c] = "flush" /\ fcSaw[c]
    IN  /\ ~fcPanic /\ fcPc[c] \in {"write", "flush"}
        /\ fcCon' = [fcCon EXCEPT ![v] = w.s] /\ fcScreen' = w.screen
        /\ fcLate' = ((fcLate /\ ~all) \/ (~fcActive[v] /\ w.screen # fcScreen))
        /\ fcUser' = (fcUser /\ ~(all /\ fcActive[v]))
        /\ fcHeld' = [fcHeld EXCEPT ![v] = 0]
        /\ fcSaw' = [fcSaw EXCEPT ![c] = FALSE] /\ fcOn' = [fcOn EXCEPT ![c] = 1] /\ Goes(c, "idle")
        /\ UNCHANGED <<fcActive, fcVt, fcOld, fcCrossed, fcPanic, fcLeft>>

\* Another CPU is setting flags.
Crosses(c) == fcCrossed' = (fcCrossed \/ \E d \in FcCpus \ {c} : fcPc[d] \in {"deactivate", "activate", "unblank"})

\* switch_vt: the swap of ACTIVE_VT ...
SwitchVt(c, v) ==
    /\ Idle(c) /\ fcLeft.switch > 0 /\ v # fcVt
    /\ fcVt' = v /\ fcOld' = [fcOld EXCEPT ![c] = fcVt]
    /\ fcOn' = [fcOn EXCEPT ![c] = v] /\ Goes(c, "deactivate")
    /\ Crosses(c)
    /\ fcLeft' = [fcLeft EXCEPT !.switch = @ - 1]
    /\ UNCHANGED <<fcCon, fcActive, fcScreen, fcHeld, fcSaw, fcUser, fcLate, fcPanic>>

\* ... the two flags ...
SetActive(c) ==
    /\ ~fcPanic
    /\ \/ /\ fcPc[c] = "deactivate" /\ Goes(c, "activate")
          /\ fcActive' = [fcActive EXCEPT ![fcOld[c]] = FALSE] /\ fcOld' = [fcOld EXCEPT ![c] = 1]
       \/ /\ fcPc[c] = "activate" /\ Goes(c, "redraw")
          /\ fcActive' = [fcActive EXCEPT ![fcOn[c]] = TRUE] /\ UNCHANGED fcOld
    /\ UNCHANGED <<fcCon, fcVt, fcScreen, fcHeld, fcOn, fcSaw, fcHistory, fcPanic, fcLeft>>

\* ... and redraw_all, which waits for the new console's lock.
RedrawAll(c) ==
    LET v == fcOn[c]
    IN  /\ ~fcPanic /\ fcPc[c] = "redraw" /\ fcHeld[v] = 0
        /\ fcCon' = [fcCon EXCEPT ![v].dirty = SetAll(Total)]
        /\ fcHeld' = [fcHeld EXCEPT ![v] = c]
        /\ Looks(c, v) /\ Goes(c, "flush")
        /\ UNCHANGED <<fcActive, fcVt, fcScreen, fcOn, fcOld, fcHistory, fcPanic, fcLeft>>

\* blank_all_fbcon (FBIOBLANK), after which a program draws on the framebuffer
\* (external) ...
BlankAllFbcon(c) ==
    /\ Idle(c) /\ fcLeft.switch > 0
    /\ fcActive' = [v \in FcVts |-> FALSE]
    /\ fcScreen' = [i \in 0..(Total - 1) |-> Foreign] /\ fcUser' = TRUE
    /\ Crosses(c)
    /\ fcLeft' = [fcLeft EXCEPT !.switch = @ - 1]
    /\ UNCHANGED <<fcCon, fcVt, fcHeld, fcPc, fcOn, fcSaw, fcOld, fcLate, fcPanic>>

\* ... and unblank_all_fbcon: the load of ACTIVE_VT, then the flags.
UnblankAllFbcon(c) ==
    /\ ~fcPanic
    /\ \/ /\ Idle(c) /\ fcUser
          /\ fcOn' = [fcOn EXCEPT ![c] = fcVt] /\ Goes(c, "unblank") /\ Crosses(c)
          /\ UNCHANGED fcActive
       \/ /\ fcPc[c] = "unblank" /\ Goes(c, "idle")
          /\ fcActive' = [v \in FcVts |-> v = fcOn[c]]
          /\ UNCHANGED <<fcOn, fcCrossed>>
    /\ UNCHANGED <<fcCon, fcVt, fcScreen, fcHeld, fcSaw, fcOld, fcUser, fcLate, fcPanic, fcLeft>>

FcNext ==
    \E c \in FcCpus :
        \/ \E v \in FcVts : WriteStr(c, v) \/ SwitchVt(c, v)
        \/ \E x \in {y \in Sequences1 : y.op \in fcLeft.ops} : WriteSequence(c, x)
        \/ LookAgain(c) \/ FlushEnd(c) \/ SetActive(c) \/ RedrawAll(c) \/ BlankAllFbcon(c) \/ UnblankAllFbcon(c)

FcSpec == FcInit /\ [][FcNext]_fcVars

-----------------------------------------------------------------------------
\* Whenever no call is under way, the screen shows the cells of the active
\* terminal: drawing only the dirty cells and moving the pixels on a scroll
\* give the same picture as a redraw, and a writer of another terminal leaves no
\* trace.  Left out are the times after a program has drawn on the framebuffer or
\* a writer has drawn by a flag that was cleared after it had read it, until the
\* next redraw, and after two CPUs have set the flags at once.
ScreenCurrent ==
    (\A c \in FcCpus : fcPc[c] = "idle") /\ ~fcUser /\ ~fcLate /\ ~fcCrossed =>
        fcScreen = [i \in 0..(Total - 1) |-> RenderCell(fcCon[fcVt].cells[i])]

-----------------------------------------------------------------------------
(***************************************************************************)
(* The initialisation of the PS/2 controller (kernel/drivers/src/input/        *)
(* i8042.rs), a dialogue with a controller and a keyboard that may be absent,  *)
(* broken or busy with a key press (external).  The driver's table has two     *)
(* ids, so the controller is initialised once for each of them.                *)
(***************************************************************************)
CONSTANTS KbProbes, KbKeys

VARIABLES
    kbFault,    \* "none", "no_config", "bad_self_test", "no_keyboard", "bad_reset"
    kbPort1, kbPort2, kbIrqs,   \* ports enabled, interrupts enabled in the configuration
    kbOut,      \* the controller's output queue
    kbPc, kbResult, kbProbe, kbKeysLeft

kbVars == <<kbFault, kbPort1, kbPort2, kbIrqs, kbOut, kbPc, kbResult, kbProbe, kbKeysLeft>>

KbInit ==
    /\ kbFault \in {"none", "no_config", "bad_self_test", "no_keyboard", "bad_reset"}
    /\ kbPort1 \in BOOLEAN /\ kbPort2 = kbPort1 /\ kbIrqs \in BOOLEAN
    /\ kbOut = <<>> /\ kbPc = "disable" /\ kbResult = "none" /\ kbProbe = 1 /\ kbKeysLeft = KbKeys

Goto(pc) == kbPc' = pc /\ UNCHANGED kbResult
Fail(error) == kbPc' = "end" /\ kbResult' = error
kbMachine == <<kbFault, kbProbe, kbKeysLeft>>

\* DISABLE_PORT1 and DISABLE_PORT2, flush_output.
DisablePorts ==
    /\ kbPc = "disable"
    /\ kbPort1' = FALSE /\ kbPort2' = FALSE /\ kbOut' = <<>>
    /\ Goto("config") /\ UNCHANGED <<kbIrqs, kbMachine>>

\* READ_CONFIG; the interrupt bits are cleared and the byte written back.
ClearIrqs ==
    /\ kbPc = "config"
    /\ IF kbFault = "no_config" THEN Fail("Timeout") /\ UNCHANGED kbIrqs
                                ELSE Goto("self_test") /\ kbIrqs' = FALSE
    /\ UNCHANGED <<kbPort1, kbPort2, kbOut, kbMachine>>

\* SELF_TEST; the configuration is written again (the test may reset it), the
\* ports are enabled and then their interrupts.
SelfTest ==
    /\ kbPc = "self_test"
    /\ IF kbFault = "bad_self_test" THEN Fail("SelfTestFailed") ELSE Goto("enable")
    /\ UNCHANGED <<kbPort1, kbPort2, kbIrqs, kbOut, kbMachine>>

EnablePorts ==
    /\ kbPc = "enable"
    /\ kbPort1' = TRUE /\ kbPort2' = TRUE
    /\ Goto("irqs") /\ UNCHANGED <<kbIrqs, kbOut, kbMachine>>

EnableIrqs ==
    /\ kbPc = "irqs"
    /\ kbIrqs' = TRUE
    /\ Goto("reset") /\ UNCHANGED <<kbPort1, kbPort2, kbOut, kbMachine>>

\* DEVICE_RESET: the keyboard drops its keys, acknowledges and tests itself.
ResetKeyboard ==
    /\ kbPc = "reset"
    /\ kbOut' = IF kbFault = "no_keyboard" THEN kbOut
                ELSE kbOut \o <<"ack", IF kbFault = "bad_reset" THEN "failed" ELSE "passed">>
    /\ Goto("ack") /\ UNCHANGED <<kbPort1, kbPort2, kbIrqs, kbMachine>>

ReadAck ==
    /\ kbPc = "ack"
    /\ IF kbOut = <<>> THEN Fail("KeyboardResetFailed") /\ UNCHANGED kbOut
       ELSE /\ kbOut' = Tail(kbOut)
            /\ IF Head(kbOut) = "ack" THEN Goto("passed") ELSE Fail("KeyboardResetFailed")
    /\ UNCHANGED <<kbPort1, kbPort2, kbIrqs, kbMachine>>

ReadPassed ==
    /\ kbPc = "passed"
    /\ IF kbOut = <<>> THEN Fail("KeyboardResetFailed") /\ UNCHANGED kbOut
       ELSE /\ kbOut' = Tail(kbOut)
            /\ kbPc' = "end" /\ kbResult' = IF Head(kbOut) = "passed" THEN "Ok" ELSE "KeyboardResetFailed"
    /\ UNCHANGED <<kbPort1, kbPort2, kbIrqs, kbMachine>>

\* The second matching device probes the controller again.
ProbeAgain ==
    /\ kbPc = "end" /\ kbProbe < KbProbes
    /\ kbProbe' = kbProbe + 1 /\ kbPc' = "disable" /\ kbResult' = "none"
    /\ UNCHANGED <<kbFault, kbPort1, kbPort2, kbIrqs, kbOut, kbKeysLeft>>

\* A key is pressed while the port is enabled.
Key ==
    /\ kbPort1 /\ kbKeysLeft > 0 /\ kbFault # "no_keyboard"
    /\ kbKeysLeft' = kbKeysLeft - 1 /\ kbOut' = Append(kbOut, "key")
    /\ UNCHANGED <<kbFault, kbPort1, kbPort2, kbIrqs, kbPc, kbResult, kbProbe>>

KbNext == DisablePorts \/ ClearIrqs \/ SelfTest \/ EnablePorts \/ EnableIrqs \/ ResetKeyboard \/ ReadAck \/ ReadPassed
          \/ ProbeAgain \/ Key

KbSpec == KbInit /\ [][KbNext]_kbVars

-----------------------------------------------------------------------------
\* Ok means that both ports and their interrupts are on, that the keyboard has
\* acknowledged and passed, and that no reply of the dialogue is left in the
\* queue, where the terminal would take it for a scan code; without Ok, a
\* controller that failed before the ports were enabled has them off.
ControllerReady ==
    /\ kbResult = "Ok" => kbPort1 /\ kbPort2 /\ kbIrqs /\ kbFault = "none"
                          /\ \A i \in DOMAIN kbOut : kbOut[i] = "key"
    /\ kbResult \in {"Timeout", "SelfTestFailed"} => ~kbPort1 /\ ~kbPort2

-----------------------------------------------------------------------------
(***************************************************************************)
(* The interrupt-driven readers of bytes in kernel/drivers/src: the serial     *)
(* echo task (serial/serial_async.rs, uart16550.rs), the keyboard (input/      *)
(* keyboard_async.rs) and the mouse (input/mouse_async.rs).  All look at the   *)
(* device first and wait for the next interrupt when it has nothing; an        *)
(* interrupt between the look and the wait finds nobody.                       *)
(***************************************************************************)
CONSTANTS
    InFifo,     \* bytes the device holds; more are lost
    InStreams,  \* what the devices send: functions kind -> set of byte sequences
    InChecks    \* loop-back answers of the UART: whether the echo is right

VARIABLES
    inKind,     \* "serial", "keyboard" or "mouse"
    inLeft,     \* bytes the device has still to send
    inFifo, inLost,
    inLine,     \* the interrupt line is raised: an edge is needed for the next one
    inWaiting,  \* the task is in the line's wait queue
    inPc,       \* "init", "look", "wait", "asleep", "off"
    inExtended, \* AsyncKeyboard::extended
    inHeld,     \* bytes of the packet read so far (mouse)
    inTaken,    \* history: the bytes taken from the device
    inEvents    \* what the task has made of them

inVars == <<inKind, inLeft, inFifo, inLost, inLine, inWaiting, inPc, inExtended, inHeld, inTaken, inEvents>>

InInit ==
    /\ inKind \in DOMAIN InStreams /\ inLeft \in InStreams[inKind]
    /\ inFifo = <<>> /\ inLost = FALSE /\ inLine = FALSE /\ inWaiting = FALSE
    /\ inPc = "init" /\ inExtended = FALSE /\ inHeld = <<>> /\ inTaken = <<>> /\ inEvents = <<>>

\* The set-up: the line is bound and unmasked; a UART fails its loop-back test
\* with a wrong echo.
SetUp(ok) ==
    /\ inPc = "init"
    /\ inPc' = IF inKind = "serial" /\ ~ok THEN "off" ELSE "look"
    /\ UNCHANGED <<inKind, inLeft, inFifo, inLost, inLine, inWaiting, inExtended, inHeld, inTaken, inEvents>>

\* The device (external): a byte arrives; the first one in the queue raises the
\* line, and the handler wakes a task that waits.
Arrive ==
    /\ inPc \notin {"init", "off"} /\ inLeft # <<>>
    /\ inLeft' = Tail(inLeft)
    /\ IF Len(inFifo) < InFifo THEN inFifo' = Append(inFifo, Head(inLeft)) /\ UNCHANGED inLost
                               ELSE inLost' = TRUE /\ UNCHANGED inFifo
    /\ inLine' = TRUE
    /\ IF inWaiting /\ ~inLine THEN inWaiting' = FALSE /\ inPc' = "look" ELSE UNCHANGED <<inWaiting, inPc>>
    /\ UNCHANGED <<inKind, inExtended, inHeld, inTaken, inEvents>>

-----------------------------------------------------------------------------
\* What a byte becomes, with the state after it.
SerialByte(b) == inEvents' = Append(inEvents, b) /\ UNCHANGED <<inExtended, inHeld>>

EndsExtended == inExtended' = FALSE

\* The byte 0xE0.
IsE0(b) == b[1] = "E0"

\* try_decode: the prefix byte only sets the flag; the top bit is the release.
KeyboardByte(b) ==
    /\ IF IsE0(b) THEN inExtended' = TRUE /\ UNCHANGED inEvents
       ELSE /\ EndsExtended
            /\ inEvents' = Append(inEvents, [key |-> <<inExtended, b[1]>>, pressed |-> b[2] = "make"])
    /\ UNCHANGED inHeld

\* Signed movement: the status byte holds the sign bits.
Delta(sign, byte) == IF sign THEN byte - 256 ELSE byte

\* read_event of the mouse: three bytes make a packet.
MouseByte(b) ==
    /\ IF Len(inHeld) = 2
       THEN /\ inHeld' = <<>>
            /\ inEvents' = Append(inEvents, [dx |-> Delta(inHeld[1] \in {16, 48}, inHeld[2]), dy |-> Delta(inHeld[1] \in {32, 48}, b)])
       ELSE inHeld' = Append(inHeld, b) /\ UNCHANGED inEvents
    /\ UNCHANGED inExtended

\* try_read_byte or try_decode; a keyboard prefix gives no event, and the task
\* waits for an interrupt although the next byte may be there.  Taking the last
\* byte lowers the line.
Look ==
    /\ inPc = "look"
    /\ IF inFifo = <<>>
       THEN inPc' = "wait" /\ UNCHANGED <<inFifo, inLine, inExtended, inHeld, inTaken, inEvents>>
       ELSE /\ inFifo' = Tail(inFifo) /\ inTaken' = Append(inTaken, Head(inFifo))
            /\ inLine' = (Tail(inFifo) # <<>>)
            /\ CASE inKind = "serial" -> SerialByte(Head(inFifo))
                 [] inKind = "keyboard" -> KeyboardByte(Head(inFifo))
                 [] OTHER -> MouseByte(Head(inFifo))
            /\ inPc' = IF inKind = "keyboard" /\ IsE0(Head(inFifo)) THEN "wait" ELSE "look"
    /\ UNCHANGED <<inKind, inLeft, inLost, inWaiting>>

Wait ==
    /\ inPc = "wait"
    /\ inWaiting' = TRUE /\ inPc' = "asleep"
    /\ UNCHANGED <<inKind, inLeft, inFifo, inLost, inLine, inExtended, inHeld, inTaken, inEvents>>

InNext == (\E ok \in InChecks : SetUp(ok)) \/ Arrive \/ Look \/ Wait

InSpec == InInit /\ [][InNext]_inVars

-----------------------------------------------------------------------------
\* The events that the bytes taken so far stand for.
Prefixed(i) == i > 1 /\ IsE0(inTaken[i - 1])
Expected ==
    CASE inKind = "serial" -> inTaken
      [] inKind = "keyboard" ->
            LET keys == SelectSeq([i \in 1..Len(inTaken) |-> i], LAMBDA i : ~IsE0(inTaken[i]))
            IN  [k \in 1..Len(keys) |-> [key |-> <<Prefixed(keys[k]), inTaken[keys[k]][1]>>,
                                         pressed |-> inTaken[keys[k]][2] = "make"]]
      [] OTHER -> [k \in 1..(Len(inTaken) \div 3) |->
                      LET status == inTaken[3 * k - 2]
                          moved(i, bit) == inTaken[3 * k - 2 + i] - (IF (status \div bit) % 2 = 1 THEN 256 ELSE 0)
                      IN  [dx |-> moved(1, 16), dy |-> moved(2, 32)]]

\* However the bytes and the interrupts fall, the events are those of the bytes
\* taken: echoed in order, an extended key is the one right after its prefix,
\* and a packet's movement has its sign.
EventsMatchBytes == inEvents = Expected

-----------------------------------------------------------------------------
(***************************************************************************)
(* /dev/mouse (kernel/kernel/src/drivers/dev_mouse.rs): the PS/2 mouse sends   *)
(* packets of three bytes, the interrupt handler puts them together and pushes *)
(* an event into a ring buffer, a task polls the device and reads it.  The     *)
(* handler runs on another CPU than the task, or interrupts it, between any    *)
(* two of the lock regions.                                                    *)
(***************************************************************************)
CONSTANTS EventBufSize, MsPackets

VARIABLES
    msBit3,     \* packets whose second byte has bit 3 set (external)
    msQueue,    \* the controller's output: <<packet, index>>, "ack" or "key"
    msPhase, msBytes,   \* PACKET_PHASE and PACKET_BYTES
    msEvents,   \* EVENT_BUF
    msWaker,    \* READ_WAKER is set
    msIrq,      \* the handler: "idle", "bytes", "wake"
    msTask,     \* the task: "idle", "registered", "take", "asleep", "woken", "read", "register", "asleep_read"
    msPacket, msGot, msBoot,
    msKey       \* a key waited in the controller when the mouse was enabled

msVars == <<msBit3, msQueue, msPhase, msBytes, msEvents, msWaker, msIrq, msTask, msPacket, msGot, msBoot, msKey>>

MsInit ==
    /\ msBit3 \in SUBSET (1..MsPackets)
    /\ msKey \in BOOLEAN /\ msQueue = IF msKey THEN <<"key">> ELSE <<>>
    /\ msPhase = 0 /\ msBytes = <<"none", "none", "none">>
    /\ msEvents = <<>> /\ msWaker = FALSE /\ msIrq = "idle" /\ msTask = "idle"
    /\ msPacket = 0 /\ msGot = <<>> /\ msBoot = TRUE

\* init: interrupts are off; the first byte that is there is taken for the
\* acknowledgement of the enable command.
EnableDataReporting ==
    /\ msBoot /\ msBoot' = FALSE
    /\ msQueue' = Tail(Append(msQueue, "ack"))
    /\ UNCHANGED <<msBit3, msPhase, msBytes, msEvents, msWaker, msIrq, msTask, msPacket, msGot, msKey>>

\* The mouse (external) sends a packet.
Move ==
    /\ ~msBoot /\ msPacket < MsPackets
    /\ msPacket' = msPacket + 1
    /\ msQueue' = msQueue \o [i \in 1..3 |-> <<msPacket + 1, i>>]
    /\ UNCHANGED <<msBit3, msPhase, msBytes, msEvents, msWaker, msIrq, msTask, msGot, msBoot, msKey>>

\* 0xFA has bit 3; so has the first byte of a packet, and some second bytes.
HasSync(byte) ==
    \/ byte = "ack"
    \/ byte # "ack" /\ (byte[2] = 1 \/ (byte[2] = 2 /\ byte[1] \in msBit3))

IrqEnter ==
    /\ ~msBoot /\ msIrq = "idle" /\ msQueue # <<>> /\ Head(msQueue) # "key"
    /\ msIrq' = "bytes"
    /\ UNCHANGED <<msBit3, msQueue, msPhase, msBytes, msEvents, msWaker, msTask, msPacket, msGot, msBoot, msKey>>

\* try_push drops the event when the buffer is full.
TryPush(event) == msEvents' = IF Len(msEvents) < EventBufSize THEN Append(msEvents, event) ELSE msEvents

Skipped(byte) == msPhase = 0 /\ ~HasSync(byte)

NextPhase == IF msPhase = 2 THEN 0 ELSE msPhase + 1

\* mouse_irq_handler: one byte; with the third the event is pushed.
IrqByte ==
    /\ msIrq = "bytes"
    /\ IF msQueue = <<>> \/ Head(msQueue) = "key"
       THEN msIrq' = "idle" /\ UNCHANGED <<msQueue, msPhase, msBytes, msEvents>>
       ELSE LET byte == Head(msQueue)
                pkt == [msBytes EXCEPT ![msPhase + 1] = byte]
            IN  /\ msQueue' = Tail(msQueue)
                /\ IF Skipped(byte) THEN UNCHANGED <<msPhase, msBytes, msEvents, msIrq>>
                   ELSE /\ msBytes' = pkt /\ msPhase' = NextPhase
                        /\ IF msPhase = 2 THEN TryPush(pkt) /\ msIrq' = "wake"
                                          ELSE UNCHANGED <<msEvents, msIrq>>
    /\ UNCHANGED <<msBit3, msWaker, msTask, msPacket, msGot, msBoot, msKey>>

\* The waker is taken and called after the push.
IrqWake ==
    /\ msIrq = "wake" /\ msIrq' = "bytes"
    /\ msWaker' = FALSE
    /\ msTask' = IF msWaker /\ msTask \in {"asleep", "asleep_read"} THEN "woken" ELSE msTask
    /\ UNCHANGED <<msBit3, msQueue, msPhase, msBytes, msEvents, msPacket, msGot, msBoot, msKey>>

-----------------------------------------------------------------------------
\* poll_readiness: the waker first ...
PollRegister ==
    /\ ~msBoot /\ msTask \in {"idle", "woken"}
    /\ msWaker' = TRUE /\ msTask' = "registered"
    /\ UNCHANGED <<msBit3, msQueue, msPhase, msBytes, msEvents, msIrq, msPacket, msGot, msBoot, msKey>>

\* ... then the look.  (A waker called while the task is still in poll makes it
\* runnable again at once; the slot is empty then.)
PollLook ==
    /\ msTask = "registered"
    /\ msTask' = CASE msEvents # <<>> -> "take"
                   [] msEvents = <<>> /\ msWaker -> "asleep"
                   [] OTHER -> "woken"
    /\ UNCHANGED <<msBit3, msQueue, msPhase, msBytes, msEvents, msWaker, msIrq, msPacket, msGot, msBoot, msKey>>

\* Ready: the waker is taken out again.
PollReady ==
    /\ msTask = "take"
    /\ msWaker' = FALSE /\ msTask' = "read"
    /\ UNCHANGED <<msBit3, msQueue, msPhase, msBytes, msEvents, msIrq, msPacket, msGot, msBoot, msKey>>

\* A caller that does not poll first.
StartRead ==
    /\ ~msBoot /\ msTask \in {"idle", "woken"}
    /\ msTask' = "read"
    /\ UNCHANGED <<msBit3, msQueue, msPhase, msBytes, msEvents, msWaker, msIrq, msPacket, msGot, msBoot, msKey>>

\* read: the events that fit into the caller's buffer (two here), or on to the
\* registration, which comes after another look.
Read ==
    /\ msTask = "read"
    /\ LET n == IF Len(msEvents) < 2 THEN Len(msEvents) ELSE 2
       IN  /\ msGot' = msGot \o SubSeq(msEvents, 1, n)
           /\ msEvents' = SubSeq(msEvents, n + 1, Len(msEvents))
           /\ msTask' = IF n = 0 THEN "register" ELSE "idle"
    /\ UNCHANGED <<msBit3, msQueue, msPhase, msBytes, msWaker, msIrq, msPacket, msBoot, msKey>>

ReadRegister ==
    /\ msTask = "register"
    /\ msWaker' = TRUE /\ msTask' = "asleep_read"
    /\ UNCHANGED <<msBit3, msQueue, msPhase, msBytes, msEvents, msIrq, msPacket, msGot, msBoot, msKey>>

MsNext == EnableDataReporting \/ Move \/ IrqEnter \/ IrqByte \/ IrqWake
          \/ PollRegister \/ PollLook \/ PollReady \/ StartRead \/ Read \/ ReadRegister

MsSpec == MsInit /\ [][MsNext]_msVars

-----------------------------------------------------------------------------
\* Every event consists of the three bytes of one packet (whatever the bytes
\* are, however late the task reads, and also after events were dropped), unless
\* a key took the place of the acknowledgement at boot; the events arrive in
\* order and none twice.
EventsWhole ==
    LET all == msGot \o msEvents
    IN  ~msKey =>
        /\ \A i \in DOMAIN all : \E p \in 1..MsPackets : all[i] = <<<<p, 1>>, <<p, 2>>, <<p, 3>>>>
        /\ \A i, j \in DOMAIN all : i < j => all[i][1][1] < all[j][1][1]

\* A task that sleeps in poll has its waker in the slot, and an event that is in
\* the buffer then is one whose wake-up is on its way.
PollerWoken == msTask = "asleep" => msWaker /\ (msEvents # <<>> => msIrq = "wake")
=============================================================================
