------------------------------- MODULE MCIpc -------------------------------
(***************************************************************************)
(* Small instances of the kernel's means of communication for TLC.  They do  *)
(* not interact, so a behaviour exercises one of them, chosen in the initial *)
(* state.  Channels have variables of their own, and rest in their initial   *)
(* state when another one is chosen; the others share v1 to v17, with 0 in   *)
(* those they have no use for.                                              *)
(***************************************************************************)
EXTENDS Channel, TLC

CONSTANTS a1, b1, b2, none

VARIABLES
    part, v1, v2, v3, v4, v5, v6, v7, v8, v9, v10, v11, v12, v13, v14, v15, v16, v17

CONSTANTS
    UnThreads, UnSockets, UnPaths, UnBacklog, UnPairs,
    UsTasks, SOCK_BUF_CAPACITY, MAX_PENDING_FDS, UsChunk, UsOps, UsRounds,
    LINE_BUF_SIZE, READY_CAPACITY,
    TyVts, TyReaders, TyCallers, TyCases, SCANCODE_BUF_SIZE,
    PtMasters, PtSlaves, MAX_PTYS, PTY_BUF_SIZE, PtStage, PtPairs, PtInput, PtOutput, PtCalls

\* Every task on a CPU of its own.
OwnCpu == [t \in Tasks |-> t]

\* Side b sends; side a receives, and answers.
Service == [t \in Tasks |-> IF t \in TasksA THEN {"send", "recv", "recv_fd"}
                            ELSE IF t = b1 THEN {"send", "send_fd"} ELSE {"send", "recv"}]
FdsOnly == [t \in Tasks |-> {"send_fd", "recv_fd"}]

Twice == [t \in Tasks |-> 2]
SendTwice == [t \in Tasks |-> IF t = b2 THEN 1 ELSE 2]

StreamTasks == {<<"a", 1>>, <<"a", 2>>, <<"b", 1>>}
StreamOps == [t \in StreamTasks |->
                IF t = <<"a", 2>> THEN {"recv"} ELSE {"send", "recv", "shutdown"}]
StreamCalls == [t \in StreamTasks |-> IF t[1] = "a" THEN 1 ELSE 2]

\* One reader of each VT, and another thread's system calls.
VtReaders == {<<0, 1>>, <<1, 1>>}
SystemCalls == {<<9, 1>>}
CallsOf(first, second, other) ==
    (<<0, 1>> :> first) @@ (<<1, 1>> :> second) @@ (<<9, 1>> :> other)
\* Editing, Ctrl+C, switches to VT 1 with and without a bystander, and Ctrl+D.
Typing ==
    {[script |-> <<"a", "bs", "b", "nl">>, calls |-> CallsOf(2, 0, 1)],
     [script |-> <<"a", "ctrl+", "c", "nl">>, calls |-> CallsOf(1, 0, 1)],
     [script |-> <<"alt+", "F2", "a", "nl">>, calls |-> CallsOf(1, 1, 0)],
     [script |-> <<"alt+", "F2", "nl">>, calls |-> CallsOf(0, 1, 1)],
     [script |-> <<"E0", "ctrl+", "d", "shift+", "c">>, calls |-> CallsOf(1, 0, 0)]}

\* The first fits the stage in canonical mode, the second the buffer in raw mode.
EmulatorWrites == {<<"c", "^C", "b", "bs", "d", "nl">>, <<"a", "b", "e", "^D">>}
ShellWrites == {<<"a", "nl">>}
TerminalCalls == ("m1" :> 2) @@ ("m2" :> 1) @@ ("s1" :> 1)


Un == INSTANCE UnixSockets WITH
    unState <- v1, unOpen <- v2, unGone <- v3, unQueue <- v4, unRegistry <- v5,
    unServer <- v6, unClosed <- v7, unMade <- v8, unCall <- v9, unAsleep <- v10,
    unReady <- v11, unClash <- v12, unOverlap <- v13, unJammed <- v14,
    usData <- v1, usFds <- v2, usWq <- v3, usClosed <- v4, usOpen <- v5, usPc <- v6,
    usReady <- v7, usLeft <- v8, usArg <- v9, usSent <- v10, usGot <- v11, usEof <- v12,
    usLate <- v13, usBehind <- v14
Te == INSTANCE Terminals WITH
    tyScript <- v1, tyKeys <- v2, tyFifo <- v3, tyIrq <- v4, tyBuf <- v5, tyPending <- v6,
    tyActive <- v7, tyLdisc <- v8, tyWaker <- v9, tyCall <- v10, tyReady <- v11, tySig <- v12,
    tyOut <- v13, tyFed <- v14, tyFedTo <- v15, tyMixed <- v16, tyBumped <- v17,
    ptBitmap <- v1, ptTable <- v2, ptPair <- v3, ptTask <- v4, ptReady <- v5, ptIn <- v6,
    ptGotS <- v7, ptOut <- v8, ptGotM <- v9, ptCut <- v10

IpcVars ==
    <<vars, part, v1, v2, v3, v4, v5, v6, v7, v8, v9, v10, v11, v12, v13, v14, v15, v16, v17>>

IpcInit ==
    /\ Init
    /\ \/ /\ part = "channel"
          /\ v1 = 0 /\ v2 = 0 /\ v3 = 0 /\ v4 = 0 /\ v5 = 0 /\ v6 = 0 /\ v7 = 0 /\ v8 = 0
          /\ v9 = 0 /\ v10 = 0 /\ v11 = 0 /\ v12 = 0 /\ v13 = 0 /\ v14 = 0 /\ v15 = 0
          /\ v16 = 0 /\ v17 = 0
       \/ part = "socket" /\ Un!UnInit /\ v15 = 0 /\ v16 = 0 /\ v17 = 0
       \/ part = "stream" /\ Un!UsInit /\ v15 = 0 /\ v16 = 0 /\ v17 = 0
       \/ part = "tty" /\ Te!TyInit
       \/ /\ part = "pty" /\ Te!PtInit
          /\ v11 = 0 /\ v12 = 0 /\ v13 = 0 /\ v14 = 0 /\ v15 = 0 /\ v16 = 0 /\ v17 = 0

IpcNext ==
    \/ /\ part = "channel" /\ Next
       /\ UNCHANGED <<part, v1, v2, v3, v4, v5, v6, v7, v8, v9, v10, v11, v12, v13, v14,
                      v15, v16, v17>>
    \/ part = "socket" /\ Un!UnNext /\ UNCHANGED <<vars, part, v15, v16, v17>>
    \/ part = "stream" /\ Un!UsNext /\ UNCHANGED <<vars, part, v15, v16, v17>>
    \/ part = "tty" /\ Te!TyNext /\ UNCHANGED <<vars, part>>
    \/ part = "pty" /\ Te!PtNext /\ UNCHANGED <<vars, part, v11, v12, v13, v14, v15, v16, v17>>

IpcSpec == IpcInit /\ [][IpcNext]_IpcVars

ChannelSpec == part = "channel" /\ IpcInit /\ [][IpcNext]_IpcVars

-----------------------------------------------------------------------------
(* The properties of the components, where they are chosen. *)

\* What comes out is what went in, in order, and the end comes last: of a socket's
\* bytes and descriptors, of the keys typed on a VT, of both sides of a PTY.
DataIntact ==
    CASE part = "stream" -> Un!StreamsIntact /\ Un!EofIsLast /\ Un!FdsNotLeftBehind
      [] part = "tty" -> Te!KeysInOrder /\ Te!LinesAsEdited
      [] part = "pty" -> Te!TerminalsIntact
      [] OTHER -> TRUE

\* Nobody sleeps on what has already happened: data, room, a connection, a key or a
\* hang-up reaches whoever waits for it.
NobodyStuck ==
    CASE part = "channel" -> HangupReachesSleepers
      [] part = "socket" -> Un!NoSleepingAccept
      [] part = "stream" -> Un!NoStuckEnd
      [] part = "tty" -> Te!NoKeyForgotten
      [] part = "pty" -> Te!NoStuckTerminal

\* Both ends of a connection are accounted for, and what is offered under a name (a
\* listening socket, a slave terminal) is found there.
PeersFindable ==
    CASE part = "socket" -> Un!ListenersFindable /\ Un!BothEndsAccounted
      [] part = "pty" -> Te!SlavesFindable
      [] OTHER -> TRUE
=============================================================================
