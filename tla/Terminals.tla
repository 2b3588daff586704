------------------------------ MODULE Terminals -----------------------------
(*****************************************************************************)
(* The line discipline and the two kinds of terminals that use it.           *)
(*****************************************************************************)
EXTENDS Naturals, Sequences, FiniteSets, SequencesExt

-----------------------------------------------------------------------------
(***************************************************************************)
(* The line discipline of terminals (kernel/tty/src/ldisc.rs): a record and   *)
(* the functions on it.  A scancode is told by its key: a character, a        *)
(* modifier's press or release ("ctrl+", "ctrl-"), a function key or the      *)
(* prefix "E0"; releases of other keys change nothing and are left out.       *)
(***************************************************************************)
CONSTANTS
    LINE_BUF_SIZE,
    READY_CAPACITY    \* READY_BUF_SIZE - 1: what the ring buffer holds

NewDiscipline ==
    [ready |-> << >>, line |-> << >>, shift |-> FALSE, ctrl |-> FALSE, alt |-> FALSE,
     caps |-> FALSE, prefix |-> FALSE, eof |-> FALSE]

None == [kind |-> "none", arg |-> ""]
Act(kind, arg) == [kind |-> kind, arg |-> arg]

FirstN(s, n) == SubSeq(s, 1, Min({n, Len(s)}))
\* try_push, over and over: what does not fit is dropped.
Pushed(ready, bytes) == FirstN(ready \o bytes, READY_CAPACITY)

Modifiers == {"shift+", "shift-", "ctrl+", "ctrl-", "alt+", "alt-", "caps"}
FunctionKeys == {"F1", "F2"}

\* The keys that exist behind the E0 prefix.
ExtendedKeys == {"ctrl+", "ctrl-", "alt+", "alt-", "up"}

\* The key of a scancode, "" if there is none.
Keycode(code, prefix) == IF prefix /\ code \notin ExtendedKeys THEN "" ELSE code

\* keycode_to_ascii: letters obey shift and caps lock.
Ascii(key, ld) ==
    CASE key \in FunctionKeys \cup {"up"} -> ""
      [] key \in {"c", "d"} /\ ld.shift # ld.caps -> IF key = "c" THEN "C" ELSE "D"
      [] OTHER -> key

\* The line and a terminator, if any, go to the ready buffer.
Commit(ld, end) == [ld EXCEPT !.ready = Pushed(@, ld.line \o end), !.line = << >>]

\* (mutant) Ctrl+C leaves the line it interrupts in the buffer
InterruptKeepsLine(ld, byte, isig) ==
    IF isig THEN [ld |-> ld, act |-> Act("interrupt", "")]
    ELSE [ld |-> [ld EXCEPT !.ready = Pushed(@, <<byte>>)], act |-> Act("char", byte)]

\* Ctrl+C: a signal, and the line is discarded; or a literal byte.
Interrupt(ld, byte, isig) ==
    IF isig THEN [ld |-> [ld EXCEPT !.line = << >>], act |-> Act("interrupt", "")]
    ELSE [ld |-> [ld EXCEPT !.ready = Pushed(@, <<byte>>)], act |-> Act("char", byte)]

\* Ctrl+D: the end of file on an empty line, else a flush; or a literal byte.
EndOfFile(ld, byte, icanon) ==
    IF ~icanon THEN [ld |-> [ld EXCEPT !.ready = Pushed(@, <<byte>>)], act |-> Act("char", byte)]
    ELSE IF ld.line = << >> THEN [ld |-> [ld EXCEPT !.eof = TRUE], act |-> Act("eof", "")]
    ELSE [ld |-> Commit(ld, << >>), act |-> Act("flush", "")]

\* (mutant) the character after a full line is kept in place of the last one
EditOverwrites(ld, ch) ==
    CASE ch \in {"bs", "del"} ->
           IF ld.line = << >> THEN [ld |-> ld, act |-> None]
           ELSE [ld |-> [ld EXCEPT !.line = << >>], act |-> Act("backspace", "")]
      [] ch \in {"nl", "cr"} -> [ld |-> Commit(ld, <<"nl">>), act |-> Act("newline", "")]
      [] OTHER ->
           IF Len(ld.line) >= LINE_BUF_SIZE THEN [ld |-> ld, act |-> None]
           ELSE [ld |-> [ld EXCEPT !.line = Append(@, ch)], act |-> Act("char", ch)]

\* Cooked mode: backspace, the end of the line, and characters while there is room.
Edit(ld, ch) ==
    CASE ch \in {"bs", "del"} ->
           IF ld.line = << >> THEN [ld |-> ld, act |-> None]
           ELSE [ld |-> [ld EXCEPT !.line = Front(@)], act |-> Act("backspace", "")]
      [] ch \in {"nl", "cr"} -> [ld |-> Commit(ld, <<"nl">>), act |-> Act("newline", "")]
      [] OTHER ->
           IF Len(ld.line) >= LINE_BUF_SIZE THEN [ld |-> ld, act |-> None]
           ELSE [ld |-> [ld EXCEPT !.line = Append(@, ch)], act |-> Act("char", ch)]

\* process_ascii_byte, the path of PTYs.
ProcessAsciiByte(ld, byte, icanon, isig) ==
    CASE byte = "^C" -> Interrupt(ld, byte, isig)
      [] byte = "^D" -> EndOfFile(ld, byte, icanon)
      [] icanon /\ byte \notin {"^C", "^D"} -> Edit(ld, byte)
      [] OTHER -> [ld |-> [ld EXCEPT !.ready = Pushed(@, <<byte>>)], act |-> Act("char", byte)]

\* The modifier keys.
Modify(ld, key) ==
    CASE key \in {"shift+", "shift-"} -> [ld EXCEPT !.shift = (key = "shift+")]
      [] key \in {"ctrl+", "ctrl-"} -> [ld EXCEPT !.ctrl = (key = "ctrl+")]
      [] key \in {"alt+", "alt-"} -> [ld EXCEPT !.alt = (key = "alt+")]
      [] OTHER -> [ld EXCEPT !.caps = ~@]

\* The press of any other key.
Press(ld, key, icanon, isig) ==
    LET ch == Ascii(key, ld) IN
    CASE ld.alt /\ key \in FunctionKeys -> [ld |-> ld, act |-> Act("vt", key)]
      [] ld.ctrl /\ key = "c" -> Interrupt(ld, "^C", isig)
      [] ld.ctrl /\ key = "d" -> EndOfFile(ld, "^D", icanon)
      [] OTHER ->
           IF ch = "" THEN [ld |-> ld, act |-> None]
           ELSE IF icanon THEN Edit(ld, ch)
           ELSE [ld |-> [ld EXCEPT !.ready = Pushed(@, <<ch>>)], act |-> Act("char", ch)]

\* process_scancode, the path of virtual terminals.
ProcessScancode(ld, code, icanon, isig) ==
    LET known == Keycode(code, ld.prefix) # ""
        plain == [ld EXCEPT !.prefix = FALSE]
    IN
    CASE code = "E0" -> [ld |-> [ld EXCEPT !.prefix = TRUE], act |-> None]
      [] code # "E0" /\ ~known -> [ld |-> plain, act |-> None]
      [] known /\ code \in Modifiers -> [ld |-> Modify(plain, code), act |-> None]
      [] OTHER -> Press(plain, code, icanon, isig)

\* A run of scancodes: the discipline it leaves and the actions it asks for.
ProcessAll(ld, codes, icanon, isig) ==
    FoldLeft(LAMBDA acc, code :
                LET r == ProcessScancode(acc.ld, code, icanon, isig) IN
                [ld |-> r.ld, acts |-> IF r.act = None THEN acc.acts ELSE Append(acc.acts, r.act)],
             [ld |-> ld, acts |-> << >>], codes)

HasData(ld) == ld.eof \/ ld.ready # << >>

\* try_read: a pending end of file comes before data.
TryRead(ld, n) ==
    IF ld.eof THEN [ld |-> [ld EXCEPT !.eof = FALSE], got |-> << >>]
    ELSE [ld |-> [ld EXCEPT !.ready = SubSeq(@, n + 1, Len(@))],
          got |-> FirstN(ld.ready, n)]

-----------------------------------------------------------------------------
(* A reference for canonical mode: the text that a run of bytes stands for. *)

Ends == {"nl", "cr", "^D"}
Character(byte) == byte \notin Ends \cup {"bs", "del", "^C"}

\* The character at i survives to the end e of its line: up to there nothing
\* interrupts, and no run of bytes after it erases more than it adds.
Survives(bytes, i, e) ==
    /\ Character(bytes[i]) /\ bytes[e] \in Ends
    /\ \A j \in i + 1 .. e - 1 :
         /\ bytes[j] \notin Ends \cup {"^C"}
         /\ Cardinality({ k \in i + 1 .. j : bytes[k] \in {"bs", "del"} })
              <= Cardinality({ k \in i + 1 .. j : Character(bytes[k]) })

Edited(bytes) ==
    LET kept == { i \in 1 .. Len(bytes) :
                    \/ bytes[i] \in {"nl", "cr"}
                    \/ \E e \in i + 1 .. Len(bytes) : Survives(bytes, i, e) }
    IN FoldLeft(LAMBDA out, i :
                  IF i \notin kept THEN out
                  ELSE Append(out, IF bytes[i] = "cr" THEN "nl" ELSE bytes[i]),
                << >>, [i \in 1 .. Len(bytes) |-> i])

-----------------------------------------------------------------------------
(***************************************************************************)
(* The virtual terminals (kernel/kernel/src/tty/mod.rs, tty/device.rs) in     *)
(* canonical mode: the keyboard interrupt, the threads that read a terminal   *)
(* and the system calls of others that process pending input on their way     *)
(* out.  Echo and the framebuffer console are left out.                       *)
(***************************************************************************)
CONSTANTS
    TyVts,              \* 0 .. MAX_TTYS - 1
    TyReaders,          \* threads that read: <<VT, n>>
    TyCallers,          \* threads that make system calls
    TyCases,            \* what is typed, and the bound on each thread's calls
    SCANCODE_BUF_SIZE

VARIABLES
    tyScript, tyKeys,   \* what is typed, and the part still to come
    tyFifo,             \* the FIFO of the keyboard controller
    tyIrq,              \* its interrupt: raised or not, and where the handler is
    tyBuf, tyPending,   \* SCANCODE_BUF, SCANCODES_PENDING
    tyActive,           \* ACTIVE_VT
    tyLdisc, tyWaker,   \* of each VT: the line discipline, input_waker
    tyCall,             \* of each thread: where it is, with its locals
    tyReady,            \* readers that are to be polled
    tySig,              \* readers with SIGINT pending
    tyOut,              \* history: what was read from each VT
    tyFed,              \* history: the scancodes, in the order they were processed
    tyFedTo,            \* history: the same, for each VT
    tyMixed,            \* history: a drain found another one still unprocessed
    tyBumped            \* history: readers whose waker another one has replaced

tyVars == <<tyScript, tyKeys, tyFifo, tyIrq, tyBuf, tyPending, tyActive, tyLdisc, tyWaker,
            tyCall, tyReady, tySig, tyOut, tyFed, tyFedTo, tyMixed, tyBumped>>

Nobody == <<0, 0>>
Threads == TyReaders \cup TyCallers
TyIdle == [at |-> "idle", vt |-> 0, stage |-> 0, sub |-> FALSE, raw |-> << >>,
         acts |-> << >>, left |-> 0]

TyInit ==
    /\ \E case \in TyCases :
         /\ tyScript = case.script /\ tyKeys = tyScript
         /\ tyCall = [x \in Threads |-> [TyIdle EXCEPT !.left = case.calls[x]]]
    /\ tyFifo = << >> /\ tyBuf = << >> /\ tyPending = FALSE
    /\ tyIrq = [raised |-> FALSE, at |-> "idle", vt |-> 0]
    /\ tyActive = 0
    /\ tyLdisc = [v \in TyVts |-> NewDiscipline]
    /\ tyWaker = [v \in TyVts |-> Nobody]
    /\ tyReady = {} /\ tySig = {} /\ tyMixed = FALSE /\ tyBumped = {}
    /\ tyOut = [v \in TyVts |-> << >>]
    /\ tyFed = << >> /\ tyFedTo = [v \in TyVts |-> << >>]

TyAt(x, label) == tyCall[x].at = label
TyGoto(x, label) == tyCall' = [tyCall EXCEPT ![x].at = label]
\* Where poll_hardware returns to.
After(x) == IF x \in TyReaders THEN "try" ELSE "idle"

-----------------------------------------------------------------------------
(* The keyboard and its interrupt. *)

Type ==
    /\ tyKeys # << >>
    /\ tyFifo' = Append(tyFifo, Head(tyKeys)) /\ tyKeys' = Tail(tyKeys)
    /\ tyIrq' = [tyIrq EXCEPT !.raised = TRUE]
    /\ UNCHANGED <<tyScript, tyBuf, tyPending, tyActive, tyLdisc, tyWaker, tyCall, tyReady,
                   tySig, tyOut, tyFed, tyFedTo, tyMixed, tyBumped>>

\* keyboard_irq_handler: the FIFO goes to the ring, which drops what is too much.
IrqDrain ==
    /\ tyIrq.at = "idle" /\ tyIrq.raised
    /\ tyBuf' = FirstN(tyBuf \o tyFifo, SCANCODE_BUF_SIZE - 1) /\ tyFifo' = << >>
    /\ tyIrq' = [tyIrq EXCEPT !.raised = FALSE, !.at = "flag"]
    /\ UNCHANGED <<tyScript, tyKeys, tyPending, tyActive, tyLdisc, tyWaker, tyCall, tyReady,
                   tySig, tyOut, tyFed, tyFedTo, tyMixed, tyBumped>>

IrqFlag ==
    /\ tyIrq.at = "flag"
    /\ tyPending' = TRUE
    /\ tyIrq' = [tyIrq EXCEPT !.at = "load"]
    /\ UNCHANGED <<tyScript, tyKeys, tyFifo, tyBuf, tyActive, tyLdisc, tyWaker, tyCall, tyReady,
                   tySig, tyOut, tyFed, tyFedTo, tyMixed, tyBumped>>

IrqLoad ==
    /\ tyIrq.at = "load"
    /\ tyIrq' = [tyIrq EXCEPT !.at = "wake", !.vt = tyActive]
    /\ UNCHANGED <<tyScript, tyKeys, tyFifo, tyBuf, tyPending, tyActive, tyLdisc, tyWaker,
                   tyCall, tyReady, tySig, tyOut, tyFed, tyFedTo, tyMixed, tyBumped>>

\* Tty::wake.
Wake(v) ==
    /\ tyReady' = tyReady \cup ({tyWaker[v]} \ {Nobody})
    /\ tyWaker' = [tyWaker EXCEPT ![v] = Nobody]

IrqWake ==
    /\ tyIrq.at = "wake"
    /\ Wake(tyIrq.vt)
    /\ tyIrq' = [tyIrq EXCEPT !.at = "idle", !.vt = 0]
    /\ UNCHANGED <<tyScript, tyKeys, tyFifo, tyBuf, tyPending, tyActive, tyLdisc, tyCall,
                   tySig, tyOut, tyFed, tyFedTo, tyMixed, tyBumped>>

-----------------------------------------------------------------------------
(* poll_hardware, by a reader or by a system call on its way out. *)

Enter(x) ==
    /\ TyAt(x, "enter")
    /\ TyGoto(x, IF tyActive = tyCall[x].vt THEN "drain" ELSE After(x))
    /\ UNCHANGED <<tyScript, tyKeys, tyFifo, tyIrq, tyBuf, tyPending, tyActive, tyLdisc,
                   tyWaker, tyReady, tySig, tyOut, tyFed, tyFedTo, tyMixed, tyBumped>>

\* (mutant) the FIFO is drained before the ring
TakenFifoFirst == FirstN(tyFifo \o tyBuf, SCANCODE_BUF_SIZE)

\* The ring first, then what is still in the FIFO.
Taken == FirstN(tyBuf \o tyFifo, SCANCODE_BUF_SIZE)

\* Phase 1, under the lock of the ring.
Drain(x) ==
    /\ TyAt(x, "drain")
    /\ tyBuf' = << >> /\ tyFifo' = << >>
    /\ tyCall' = [tyCall EXCEPT ![x].raw = Taken,
                                ![x].at = IF Taken = << >> THEN After(x) ELSE "feed"]
    /\ tyMixed' = (tyMixed \/ \E y \in Threads \ {x} : TyAt(y, "feed"))
    /\ UNCHANGED <<tyScript, tyKeys, tyIrq, tyPending, tyActive, tyLdisc, tyWaker, tyReady,
                   tySig, tyOut, tyFed, tyFedTo, tyBumped>>

\* Phase 2, under the lock of the line discipline; echo is left out of the actions.
Feed(x) ==
    LET v == tyCall[x].vt
        r == ProcessAll(tyLdisc[v], tyCall[x].raw, TRUE, TRUE) IN
    /\ TyAt(x, "feed")
    /\ tyLdisc' = [tyLdisc EXCEPT ![v] = r.ld]
    /\ tyCall' = [tyCall EXCEPT ![x].raw = << >>, ![x].at = "act",
          ![x].acts = SelectSeq(r.acts, LAMBDA a : a.kind \in {"interrupt", "vt"})]
    /\ tyFed' = tyFed \o tyCall[x].raw
    /\ tyFedTo' = [tyFedTo EXCEPT ![v] = @ \o tyCall[x].raw]
    /\ UNCHANGED <<tyScript, tyKeys, tyFifo, tyIrq, tyBuf, tyPending, tyActive, tyWaker,
                   tyReady, tySig, tyOut, tyMixed, tyBumped>>

NumberOf(key) == IF key = "F1" THEN 0 ELSE 1

\* Phase 3, one action at a time: SIGINT for the foreground group, which are the
\* readers of the VT, or the first half of switch_vt.
Perform(x) ==
    LET a == Head(tyCall[x].acts) IN
    /\ TyAt(x, "act")
    /\ IF tyCall[x].acts = << >>
         THEN TyGoto(x, After(x)) /\ UNCHANGED <<tyActive, tySig>>
         ELSE IF a.kind = "interrupt"
           THEN /\ tySig' = tySig \cup { r \in TyReaders : r[1] = tyCall[x].vt }
                /\ tyCall' = [tyCall EXCEPT ![x].acts = Tail(@)]
                /\ UNCHANGED tyActive
           ELSE /\ tyActive' = NumberOf(a.arg)
                /\ tyCall' = [tyCall EXCEPT
                      ![x].acts = IF tyActive = NumberOf(a.arg) THEN Tail(@) ELSE @,
                      ![x].at = IF tyActive = NumberOf(a.arg) THEN @ ELSE "wakevt"]
                /\ UNCHANGED tySig
    /\ UNCHANGED <<tyScript, tyKeys, tyFifo, tyIrq, tyBuf, tyPending, tyLdisc, tyWaker, tyReady,
                   tyOut, tyFed, tyFedTo, tyMixed, tyBumped>>

\* (mutant) switch_vt wakes nobody
SwitchSilently(x) ==
    /\ TyAt(x, "wakevt")
    /\ tyCall' = [tyCall EXCEPT ![x].acts = Tail(@), ![x].at = "act"]
    /\ UNCHANGED <<tyScript, tyKeys, tyFifo, tyIrq, tyBuf, tyPending, tyActive, tyLdisc,
                   tyWaker, tyReady, tySig, tyOut, tyFed, tyFedTo, tyMixed, tyBumped>>

\* The second half of switch_vt.
WakeSwitched(x) ==
    /\ TyAt(x, "wakevt")
    /\ Wake(NumberOf(Head(tyCall[x].acts).arg))
    /\ tyCall' = [tyCall EXCEPT ![x].acts = Tail(@), ![x].at = "act"]
    /\ UNCHANGED <<tyScript, tyKeys, tyFifo, tyIrq, tyBuf, tyPending, tyActive, tyLdisc,
                   tySig, tyOut, tyFed, tyFedTo, tyMixed, tyBumped>>

-----------------------------------------------------------------------------
(* process_pending_input. *)

Call(c) ==
    /\ TyAt(c, "idle") /\ tyCall[c].left > 0
    /\ tyPending' = FALSE
    /\ tyCall' = [tyCall EXCEPT ![c].at = IF tyPending THEN "which" ELSE "idle",
                                ![c].left = @ - 1]
    /\ UNCHANGED <<tyScript, tyKeys, tyFifo, tyIrq, tyBuf, tyActive, tyLdisc, tyWaker, tyReady,
                   tySig, tyOut, tyFed, tyFedTo, tyMixed, tyBumped>>

\* active_tty.
ActiveTty(c) ==
    /\ TyAt(c, "which")
    /\ tyCall' = [tyCall EXCEPT ![c].at = "enter", ![c].vt = tyActive]
    /\ UNCHANGED <<tyScript, tyKeys, tyFifo, tyIrq, tyBuf, tyPending, tyActive, tyLdisc,
                   tyWaker, tyReady, tySig, tyOut, tyFed, tyFedTo, tyMixed, tyBumped>>

-----------------------------------------------------------------------------
(* TtyReadFuture. *)

Read(r) ==
    /\ TyAt(r, "idle") /\ tyCall[r].left > 0
    /\ tyCall' = [tyCall EXCEPT ![r].at = "enter", ![r].vt = r[1], ![r].stage = 1,
                                ![r].left = @ - 1]
    /\ UNCHANGED <<tyScript, tyKeys, tyFifo, tyIrq, tyBuf, tyPending, tyActive, tyLdisc,
                   tyWaker, tyReady, tySig, tyOut, tyFed, tyFedTo, tyMixed, tyBumped>>

Return(r) == tyCall' = [tyCall EXCEPT ![r] = [TyIdle EXCEPT !.left = tyCall[r].left]]

\* try_read, and what poll does when there is nothing: the first poll of a future
\* wakes itself, a later one subscribes, and after that there is nothing but sleep.
Try(r) ==
    LET v == r[1]  rd == TryRead(tyLdisc[v], 1) IN
    /\ TyAt(r, "try")
    /\ IF HasData(tyLdisc[v])
         THEN /\ tyLdisc' = [tyLdisc EXCEPT ![v] = rd.ld]
              /\ tyOut' = [tyOut EXCEPT ![v] = @ \o rd.got]
              /\ Return(r) /\ tySig' = tySig \ {r}
         ELSE /\ CASE tyCall[r].stage = 2 /\ r \in tySig -> Return(r)
                   [] tyCall[r].stage = 2 /\ r \notin tySig -> TyGoto(r, "asleep")
                   [] tyCall[r].stage = 1 /\ tyCall[r].sub -> TyGoto(r, "subscribe")
                   [] OTHER -> tyCall' = [tyCall EXCEPT ![r].sub = TRUE, ![r].at = "enter"]
              /\ tySig' = IF tyCall[r].stage = 2 THEN tySig \ {r} ELSE tySig
              /\ UNCHANGED <<tyLdisc, tyOut>>
    /\ UNCHANGED <<tyScript, tyKeys, tyFifo, tyIrq, tyBuf, tyPending, tyActive, tyWaker,
                   tyReady, tyFed, tyFedTo, tyMixed, tyBumped>>

\* (mutant) no second look after the registration
SubscribeAndSleep(r) ==
    /\ TyAt(r, "subscribe")
    /\ tyWaker' = [tyWaker EXCEPT ![r[1]] = r]
    /\ tyBumped' = (tyBumped \cup ({tyWaker[r[1]]} \ {Nobody})) \ {r}
    /\ TyGoto(r, "asleep")
    /\ UNCHANGED <<tyScript, tyKeys, tyFifo, tyIrq, tyBuf, tyPending, tyActive, tyLdisc,
                   tyReady, tySig, tyOut, tyFed, tyFedTo, tyMixed>>

\* Tty::subscribe: one slot; then the second look.
Subscribe(r) ==
    /\ TyAt(r, "subscribe")
    /\ tyWaker' = [tyWaker EXCEPT ![r[1]] = r]
    /\ tyBumped' = (tyBumped \cup ({tyWaker[r[1]]} \ {Nobody})) \ {r}
    /\ tyCall' = [tyCall EXCEPT ![r].stage = 2, ![r].at = "enter"]
    /\ UNCHANGED <<tyScript, tyKeys, tyFifo, tyIrq, tyBuf, tyPending, tyActive, tyLdisc,
                   tyReady, tySig, tyOut, tyFed, tyFedTo, tyMixed>>

\* The executor polls a woken reader.
Poll(r) ==
    /\ TyAt(r, "asleep") /\ r \in tyReady
    /\ tyReady' = tyReady \ {r}
    /\ tyCall' = [tyCall EXCEPT ![r].stage = 1, ![r].at = "enter"]
    /\ UNCHANGED <<tyScript, tyKeys, tyFifo, tyIrq, tyBuf, tyPending, tyActive, tyLdisc,
                   tyWaker, tySig, tyOut, tyFed, tyFedTo, tyMixed, tyBumped>>

TyNext ==
    \/ Type \/ IrqDrain \/ IrqFlag \/ IrqLoad \/ IrqWake
    \/ \E x \in Threads : Enter(x) \/ Drain(x) \/ Feed(x) \/ Perform(x) \/ WakeSwitched(x)
    \/ \E c \in TyCallers : Call(c) \/ ActiveTty(c)
    \/ \E r \in TyReaders : Read(r) \/ Try(r) \/ Subscribe(r) \/ Poll(r)

TySpec == TyInit /\ [][TyNext]_tyVars

-----------------------------------------------------------------------------

\* Keys are processed in the order they were typed, each once, whoever drains the
\* ring and whichever VT they reach, unless two drains were in flight at a time:
\* the lock of the ring and the lock of the line discipline are separate regions.
KeysInOrder ==
    ~tyMixed =>
        LET flight == { x \in Threads : tyCall[x].raw # << >> }
            raw == IF flight = {} THEN << >> ELSE tyCall[CHOOSE x \in flight : TRUE].raw
        IN tyFed \o raw \o tyBuf \o tyFifo \o tyKeys = tyScript

\* A reader of the active VT does not sleep on input: when nothing is under way
\* there is nothing for it to read, and there are no keys in the ring, also right
\* after a switch to its VT.  Excepted are a reader whose waker another one
\* replaced, and keys that another thread had drained and not yet processed at the
\* reader's second look: nothing wakes it for those.
NoKeyForgotten ==
    \A r \in TyReaders \ tyBumped :
        /\ tyActive = r[1] /\ TyAt(r, "asleep") /\ r \notin tyReady /\ ~tyMixed
        /\ tyIrq.at = "idle" /\ ~tyIrq.raised
        /\ \A x \in Threads : tyCall[x].at \in {"idle", "asleep"}
        => ~HasData(tyLdisc[r[1]]) /\ tyBuf = << >>

\* The bytes that a run of keys stands for.
Bytes(keys) ==
    LET ctrl(i) == \E j \in 1 .. i - 1 :
                     keys[j] = "ctrl+" /\ \A k \in j .. i - 1 : keys[k] # "ctrl-"
    IN FoldLeft(LAMBDA out, i :
                  CASE keys[i] \in Modifiers \cup FunctionKeys \cup {"E0"} -> out
                    [] keys[i] = "c" /\ ctrl(i) -> Append(out, "^C")
                    [] keys[i] = "d" /\ ctrl(i) -> Append(out, "^D")
                    [] OTHER -> Append(out, keys[i]),
                << >>, [i \in 1 .. Len(keys) |-> i])

\* What is read from a VT, and what is ready to be read there, is the text the
\* keys given to it stand for: lines, as edited with backspace and Ctrl+C, none of
\* it before Enter, and none of it read twice.
LinesAsEdited ==
    \A v \in TyVts : tyOut[v] \o tyLdisc[v].ready = Edited(Bytes(tyFedTo[v]))

-----------------------------------------------------------------------------
(***************************************************************************)
(* Pseudo-terminals (kernel/kernel/src/tty/pty.rs): /dev/ptmx makes a pair     *)
(* and returns its master; /dev/pts/N finds the slave in a table that holds a  *)
(* reference to it until the master is dropped.  The PtySlave lives while the  *)
(* table or a file refers to it.                                              *)
(***************************************************************************)
CONSTANTS
    PtMasters, PtSlaves,   \* tasks that open a master, and a slave
    MAX_PTYS,
    PTY_BUF_SIZE,
    PtStage,               \* the size of the buffer a line is staged in
    PtPairs,               \* bound: pairs made
    PtInput,               \* what masters write: sequences of bytes
    PtOutput,              \* what slaves write
    PtCalls                \* bound: reads and writes of each task

VARIABLES
    ptBitmap, ptTable,     \* PTY_BITMAP as a set, PTY_SLAVES with 0 for None
    ptPair,                \* the PtyInner of each pair, NoPair before it is made
    ptTask,                \* of each task: where it is, and the pair it has open
    ptReady,               \* tasks that are to be polled
    ptIn, ptGotS,          \* history: bytes written to each master, read from its slave
    ptOut, ptGotM,         \* history: bytes written to the slave, read from the master
    ptCut                  \* history: pairs with bytes dropped by a full buffer, or with
                           \* a write that was overtaken between its two locks

ptVars == <<ptBitmap, ptTable, ptPair, ptTask, ptReady, ptIn, ptGotS, ptOut, ptGotM, ptCut>>

Indices == 0 .. MAX_PTYS - 1
Pairs == 1 .. PtPairs
Tasks == PtMasters \cup PtSlaves
PtIdle == [at |-> "closed", pair |-> 0, index |-> 0, left |-> 0, staged |-> << >>]

NewPair(i, icanon) ==
    [index |-> i, m2s |-> << >>, s2m |-> << >>, ldisc |-> NewDiscipline, icanon |-> icanon,
     masters |-> 1, slaves |-> 1, wqM |-> {}, wqS |-> {}]
NoPair == [NewPair(0, TRUE) EXCEPT !.index = MAX_PTYS]

PtInit ==
    /\ ptBitmap = {} /\ ptTable = [i \in Indices |-> 0]
    /\ ptPair = [p \in Pairs |-> NoPair]
    /\ ptTask = [t \in Tasks |-> [PtIdle EXCEPT !.left = PtCalls[t]]]
    /\ ptReady = {} /\ ptCut = {}
    /\ ptIn = [p \in Pairs |-> << >>] /\ ptGotS = [p \in Pairs |-> << >>]
    /\ ptOut = [p \in Pairs |-> << >>] /\ ptGotM = [p \in Pairs |-> << >>]

PtAt(t, label) == ptTask[t].at = label
PtGoto(t, label) == ptTask' = [ptTask EXCEPT ![t].at = label]
Io == <<ptIn, ptGotS, ptOut, ptGotM, ptCut>>

\* References to the PtySlave of a pair: the table's, and those of the tasks.
References(p, table, task) ==
    Cardinality({ i \in Indices : table[i] = p })
        + Cardinality({ t \in PtSlaves : task[t].pair = p })

-----------------------------------------------------------------------------
(* alloc_pty, for an open of /dev/ptmx. *)

TakeIndex(t) ==
    LET free == Indices \ ptBitmap IN
    /\ t \in PtMasters /\ PtAt(t, "closed") /\ ptTask[t].left > 0
    /\ \E p \in Pairs : ptPair[p] = NoPair
    /\ IF free = {} THEN UNCHANGED <<ptBitmap, ptTask>>
       ELSE /\ ptBitmap' = ptBitmap \cup {Min(free)}
            /\ ptTask' = [ptTask EXCEPT ![t].at = "publish", ![t].index = Min(free)]
    /\ UNCHANGED <<ptTable, ptPair, ptReady, Io>>

\* The pair, its slave in the table, and the master as the file's inode; the
\* ioctl that a terminal emulator starts with may set raw mode.
Publish(t) ==
    LET p == Min({ q \in Pairs : ptPair[q] = NoPair }) IN
    /\ PtAt(t, "publish")
    /\ \E icanon \in BOOLEAN :
         ptPair' = [ptPair EXCEPT ![p] = NewPair(ptTask[t].index, icanon)]
    /\ ptTable' = [ptTable EXCEPT ![ptTask[t].index] = p]
    /\ ptTask' = [ptTask EXCEPT ![t].at = "open", ![t].pair = p]
    /\ UNCHANGED <<ptBitmap, ptReady, Io>>

\* Another thread of a master's process uses its descriptor.
ShareMaster(t, u) ==
    /\ {t, u} \subseteq PtMasters /\ PtAt(t, "closed") /\ PtAt(u, "open") /\ ptTask[t].left > 0
    /\ ptTask' = [ptTask EXCEPT ![t].at = "open", ![t].pair = ptTask[u].pair]
    /\ UNCHANGED <<ptBitmap, ptTable, ptPair, ptReady, Io>>

\* get_slave, for an open of /dev/pts/N.
OpenSlave(t, i) ==
    /\ t \in PtSlaves /\ PtAt(t, "closed") /\ ptTask[t].left > 0
    /\ ptTable[i] # 0
    /\ ptTask' = [ptTask EXCEPT ![t].at = "open", ![t].pair = ptTable[i]]
    /\ UNCHANGED <<ptBitmap, ptTable, ptPair, ptReady, Io>>

-----------------------------------------------------------------------------
(* Writes. *)

\* (mutant) the staged bytes replace what the slave has not read yet
QueueOverwrites(bytes, more) == FirstN(more, PTY_BUF_SIZE)

\* CircularBuffer::write: what fits.
Queue(bytes, more) == FirstN(bytes \o more, PTY_BUF_SIZE)

\* The line discipline takes every byte; then everything it has ready is staged.
\* A pending end of file is one Some(0) of that loop, and nothing more.
Cook(ld, bytes) ==
    FoldLeft(LAMBDA acc, b : ProcessAsciiByte(acc, b, TRUE, TRUE).ld, ld, bytes)

\* PtyMaster::write in raw mode: the bytes go straight into m2s.
WriteRaw(t) ==
    LET p == ptTask[t].pair  pair == ptPair[p] IN
    /\ t \in PtMasters /\ PtAt(t, "open") /\ ptTask[t].left > 0 /\ ~pair.icanon
    /\ \E input \in PtInput :
         /\ ptPair' = [ptPair EXCEPT ![p].m2s = Queue(@, input)]
         /\ ptIn' = [ptIn EXCEPT ![p] = @ \o input]
         /\ ptCut' = IF Len(pair.m2s \o input) > PTY_BUF_SIZE THEN ptCut \cup {<<p, "in">>} ELSE ptCut
    /\ ptTask' = [ptTask EXCEPT ![t].at = "wake", ![t].left = @ - 1]
    /\ UNCHANGED <<ptBitmap, ptTable, ptReady, ptGotS, ptOut, ptGotM>>

\* In canonical mode they go through the line discipline, and what that has ready is
\* staged, under its lock ...
WriteMaster(t) ==
    LET p == ptTask[t].pair  pair == ptPair[p]
        Overtakes == \E u \in PtMasters \ {t} : PtAt(u, "staged") /\ ptTask[u].pair = p IN
    /\ t \in PtMasters /\ PtAt(t, "open") /\ ptTask[t].left > 0 /\ pair.icanon
    /\ \E input \in PtInput :
         LET ld == Cook(pair.ldisc, input) IN
         /\ ptPair' = [ptPair EXCEPT ![p].ldisc = [ld EXCEPT !.ready = << >>, !.eof = FALSE]]
         /\ ptIn' = [ptIn EXCEPT ![p] = @ \o input]
         /\ ptTask' = [ptTask EXCEPT ![t].at = "staged", ![t].left = @ - 1,
                                     ![t].staged = FirstN(ld.ready, PtStage)]
         /\ ptCut' = IF Overtakes \/ Len(ld.ready) > PtStage THEN ptCut \cup {<<p, "in">>} ELSE ptCut
    /\ UNCHANGED <<ptBitmap, ptTable, ptReady, ptGotS, ptOut, ptGotM>>

\* ... and goes into m2s under another.
QueueStaged(t) ==
    LET p == ptTask[t].pair IN
    /\ PtAt(t, "staged")
    /\ ptPair' = [ptPair EXCEPT ![p].m2s = Queue(@, ptTask[t].staged)]
    /\ ptCut' = IF Len(ptPair[p].m2s \o ptTask[t].staged) > PTY_BUF_SIZE THEN ptCut \cup {<<p, "in">>}
                ELSE ptCut
    /\ ptTask' = [ptTask EXCEPT ![t].at = "wake", ![t].staged = << >>]
    /\ UNCHANGED <<ptBitmap, ptTable, ptReady, ptIn, ptGotS, ptOut, ptGotM>>

\* ONLCR: a newline goes out as two bytes, of which a full buffer may take one.
Processed(bytes) ==
    FoldLeft(LAMBDA out, b : IF b = "nl" THEN out \o <<"cr", "nl">> ELSE Append(out, b),
             << >>, bytes)

\* PtySlave::write, first half: an error when the master is gone.
WriteSlave(t) ==
    LET p == ptTask[t].pair  pair == ptPair[p] IN
    /\ t \in PtSlaves /\ PtAt(t, "open") /\ ptTask[t].left > 0
    /\ \E output \in PtOutput :
         IF pair.masters = 0
           THEN /\ ptTask' = [ptTask EXCEPT ![t].left = @ - 1]
                /\ UNCHANGED <<ptPair, ptOut, ptCut>>
           ELSE /\ ptPair' = [ptPair EXCEPT ![p].s2m = Queue(@, Processed(output))]
                /\ ptOut' = [ptOut EXCEPT ![p] = @ \o output]
                /\ ptCut' = IF Len(pair.s2m \o Processed(output)) > PTY_BUF_SIZE
                              THEN ptCut \cup {<<p, "out">>} ELSE ptCut
                /\ ptTask' = [ptTask EXCEPT ![t].at = "wake", ![t].left = @ - 1]
    /\ UNCHANGED <<ptBitmap, ptTable, ptReady, ptIn, ptGotS, ptGotM>>

\* (mutant) the readers of the other side are not woken
WakeNobody(t) ==
    /\ PtAt(t, "wake")
    /\ PtGoto(t, "open")
    /\ UNCHANGED <<ptBitmap, ptTable, ptPair, ptReady, Io>>

\* The second half of a write: wake_all on the queue of the other side.
WakeAll(t) ==
    LET p == ptTask[t].pair IN
    /\ PtAt(t, "wake")
    /\ IF t \in PtMasters
         THEN ptReady' = ptReady \cup ptPair[p].wqS /\ ptPair' = [ptPair EXCEPT ![p].wqS = {}]
         ELSE ptReady' = ptReady \cup ptPair[p].wqM /\ ptPair' = [ptPair EXCEPT ![p].wqM = {}]
    /\ PtGoto(t, "open")
    /\ UNCHANGED <<ptBitmap, ptTable, Io>>

-----------------------------------------------------------------------------
(* Reads: register, look, and take when there is something. *)

Register(t) ==
    LET p == ptTask[t].pair IN
    /\ \/ PtAt(t, "open") /\ ptTask[t].left > 0
       \/ PtAt(t, "again")
       \/ PtAt(t, "asleep") /\ t \in ptReady
    /\ ptReady' = ptReady \ {t}
    /\ ptPair' = [ptPair EXCEPT ![p].wqM = IF t \in PtMasters THEN @ \cup {t} ELSE @,
                                ![p].wqS = IF t \in PtSlaves THEN @ \cup {t} ELSE @]
    /\ ptTask' = [ptTask EXCEPT ![t].at = "look",
                                ![t].left = IF PtAt(t, "open") THEN @ - 1 ELSE @]
    /\ UNCHANGED <<ptBitmap, ptTable, Io>>

Buffer(t) == IF t \in PtMasters THEN ptPair[ptTask[t].pair].s2m ELSE ptPair[ptTask[t].pair].m2s
Gone(t) == (IF t \in PtMasters THEN ptPair[ptTask[t].pair].slaves
            ELSE ptPair[ptTask[t].pair].masters) = 0

Look(t) ==
    /\ PtAt(t, "look")
    /\ PtGoto(t, IF Buffer(t) # << >> \/ Gone(t) THEN "take" ELSE "asleep")
    /\ UNCHANGED <<ptBitmap, ptTable, ptPair, ptReady, Io>>

\* (mutant) the end of file comes before the bytes still queued
TakeEofFirst(t) ==
    /\ PtAt(t, "take")
    /\ IF Gone(t) THEN PtGoto(t, "eof") ELSE PtGoto(t, "again")
    /\ UNCHANGED <<ptBitmap, ptTable, ptPair, ptReady, Io>>

\* The second look: one byte, the end of file, or another round (another reader
\* was faster).  A reader then wakes one of the other side's queue.
Take(t) ==
    LET p == ptTask[t].pair IN
    /\ PtAt(t, "take")
    /\ IF Buffer(t) = << >>
         THEN PtGoto(t, IF Gone(t) THEN "eof" ELSE "again")
              /\ UNCHANGED <<ptPair, ptGotS, ptGotM>>
         ELSE /\ PtGoto(t, "wakeone")
              /\ IF t \in PtMasters
                   THEN /\ ptPair' = [ptPair EXCEPT ![p].s2m = Tail(@)]
                        /\ ptGotM' = [ptGotM EXCEPT ![p] = Append(@, Head(Buffer(t)))]
                        /\ UNCHANGED ptGotS
                   ELSE /\ ptPair' = [ptPair EXCEPT ![p].m2s = Tail(@)]
                        /\ ptGotS' = [ptGotS EXCEPT ![p] = Append(@, Head(Buffer(t)))]
                        /\ UNCHANGED ptGotM
    /\ UNCHANGED <<ptBitmap, ptTable, ptReady, ptIn, ptOut, ptCut>>

WakeOne(t) ==
    LET p == ptTask[t].pair
        wq == IF t \in PtMasters THEN ptPair[p].wqS ELSE ptPair[p].wqM IN
    /\ PtAt(t, "wakeone")
    /\ IF wq = {} THEN UNCHANGED <<ptReady, ptPair>>
       ELSE \E u \in wq :
              /\ ptReady' = ptReady \cup {u}
              /\ ptPair' = IF t \in PtMasters THEN [ptPair EXCEPT ![p].wqS = @ \ {u}]
                           ELSE [ptPair EXCEPT ![p].wqM = @ \ {u}]
    /\ PtGoto(t, "open")
    /\ UNCHANGED <<ptBitmap, ptTable, Io>>

-----------------------------------------------------------------------------
(* Drops. *)

\* PtySlave::drop, when the last reference goes.
DropSlave(p, table, task) ==
    IF References(p, table, task) > 0 THEN UNCHANGED <<ptPair, ptReady>>
    ELSE /\ ptPair' = [ptPair EXCEPT ![p].slaves = 0, ![p].wqM = {}]
         /\ ptReady' = ptReady \cup ptPair[p].wqM

CloseSlave(t) ==
    LET p == ptTask[t].pair
        task == [ptTask EXCEPT ![t].at = "closed", ![t].pair = 0] IN
    /\ t \in PtSlaves /\ (PtAt(t, "open") \/ PtAt(t, "eof"))
    /\ ptTask' = task
    /\ DropSlave(p, ptTable, task)
    /\ UNCHANGED <<ptBitmap, ptTable, Io>>

\* Other threads still use the master.
Shared(t) == \E u \in PtMasters \ {t} : ptTask[u].pair = ptTask[t].pair

LeaveMaster(t) ==
    /\ t \in PtMasters /\ (PtAt(t, "open") \/ PtAt(t, "eof")) /\ Shared(t)
    /\ ptTask' = [ptTask EXCEPT ![t].at = "closed", ![t].pair = 0]
    /\ UNCHANGED <<ptBitmap, ptTable, ptPair, ptReady, Io>>

\* (mutant) the index is free before the table's entry is gone
CloseMasterFreesIndex(t) ==
    LET p == ptTask[t].pair IN
    /\ t \in PtMasters /\ (PtAt(t, "open") \/ PtAt(t, "eof")) /\ ~Shared(t)
    /\ ptPair' = [ptPair EXCEPT ![p].masters = 0, ![p].wqS = {}]
    /\ ptReady' = ptReady \cup ptPair[p].wqS
    /\ ptBitmap' = ptBitmap \ {ptPair[p].index}
    /\ PtGoto(t, "unpublish")
    /\ UNCHANGED <<ptTable, Io>>

\* PtyMaster::drop: the count and the wake-ups of slaves.
CloseMaster(t) ==
    LET p == ptTask[t].pair IN
    /\ t \in PtMasters /\ (PtAt(t, "open") \/ PtAt(t, "eof")) /\ ~Shared(t)
    /\ ptPair' = [ptPair EXCEPT ![p].masters = 0, ![p].wqS = {}]
    /\ ptReady' = ptReady \cup ptPair[p].wqS
    /\ PtGoto(t, "unpublish")
    /\ UNCHANGED <<ptBitmap, ptTable, Io>>

\* The table's reference to the slave goes first ...
Unpublish(t) ==
    LET p == ptTask[t].pair
        table == [ptTable EXCEPT ![ptPair[p].index] = 0] IN
    /\ PtAt(t, "unpublish")
    /\ ptTable' = table
    /\ DropSlave(p, table, ptTask)
    /\ PtGoto(t, "free")
    /\ UNCHANGED <<ptBitmap, Io>>

\* ... and then the index.
FreeIndex(t) ==
    /\ PtAt(t, "free")
    /\ ptBitmap' = ptBitmap \ {ptPair[ptTask[t].pair].index}
    /\ ptTask' = [ptTask EXCEPT ![t].at = "closed", ![t].pair = 0]
    /\ UNCHANGED <<ptTable, ptPair, ptReady, Io>>

PtNext ==
    \E t \in Tasks :
        \/ TakeIndex(t) \/ Publish(t) \/ WriteRaw(t) \/ WriteMaster(t) \/ QueueStaged(t) \/ WriteSlave(t) \/ WakeAll(t)
        \/ Register(t) \/ Look(t) \/ Take(t) \/ WakeOne(t)
        \/ CloseSlave(t) \/ LeaveMaster(t) \/ CloseMaster(t) \/ Unpublish(t) \/ FreeIndex(t)
        \/ \E i \in Indices : OpenSlave(t, i)
        \/ \E u \in PtMasters : ShareMaster(t, u)

PtSpec == PtInit /\ [][PtNext]_ptVars

-----------------------------------------------------------------------------

\* While a master is open its slave is found under its index, its index is taken,
\* and no other pair has it, however closes and opens of /dev/ptmx overlap.
SlavesFindable ==
    \A t \in PtMasters : ptTask[t].at \notin {"closed", "publish", "unpublish", "free"} =>
        LET i == ptPair[ptTask[t].pair].index
        IN ptTable[i] = ptTask[t].pair /\ i \in ptBitmap

OnTheWay(p) ==
    FlattenSeq(SetToSeq({ ptTask[t].staged : t \in { u \in PtMasters : ptTask[u].pair = p } } \ {<< >>}))

\* What a slave reads is the text its master wrote, as edited in canonical mode,
\* and what a master reads is what the slave wrote, with its newlines converted,
\* unless a full buffer cut something off (both writes report complete success) or
\* two threads wrote lines at once, which may be queued in the other order.
TerminalsIntact ==
    \A p \in { q \in Pairs : ptPair[q] # NoPair } :
        /\ <<p, "in">> \notin ptCut =>
             ptGotS[p] \o ptPair[p].m2s \o OnTheWay(p) = IF ptPair[p].icanon THEN Edited(ptIn[p]) ELSE ptIn[p]
        /\ <<p, "out">> \notin ptCut => ptGotM[p] \o ptPair[p].s2m = Processed(ptOut[p])

\* A task that sleeps in a read has nothing to read and its peer is there, when no
\* wake-up is under way; and it is told of the end only after the last byte.  (The
\* table's own reference to the slave keeps a master from ever seeing one go.)
NoStuckTerminal ==
    /\ \A t \in Tasks : PtAt(t, "eof") => Buffer(t) = << >>
    /\ \A t \in Tasks :
         PtAt(t, "asleep") /\ t \notin ptReady
         /\ (\A u \in Tasks : ptTask[u].at # "wake" \/ ptTask[u].pair # ptTask[t].pair)
         => Buffer(t) = << >> /\ ~Gone(t)
=============================================================================
