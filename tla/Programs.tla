------------------------------ MODULE Programs ------------------------------
(*****************************************************************************)
(* The shell, the terminal and the compositor.                               *)
(*****************************************************************************)
EXTENDS Naturals, Sequences, FiniteSets, SequencesExt, TLC

-----------------------------------------------------------------------------
(***************************************************************************)
(* The front end of userspace/shell/src/main.rs: tokenize, expand_vars, parse *)
(* and normalize_path. A line and a word are sequences of characters, a token  *)
(* is <<kind, word>>.                                                          *)
(***************************************************************************)
CONSTANTS
    MaxTokens, MaxArgs, MaxStages,  \* MAX_TOKENS, MAX_ARGS, MAX_STAGES
    ExpandBufSize, PathBufSize,     \* EXPAND_BUF_SIZE, PATH_BUF_SIZE
    VarChars                        \* characters of variable names

Blanks == {" ", "\t"}
Special == [c \in {"|", "&", "<"} |-> IF c = "|" THEN "Pipe" ELSE IF c = "&" THEN "Background" ELSE "RedirectIn"]

Foldl(op(_, _), init, s) == FoldLeft(op, init, s)

\* A token beyond MAX_TOKENS is dropped.
Push(s, kind, word) ==
    [s EXCEPT !.toks = IF Len(@) < MaxTokens THEN Append(@, <<kind, word>>) ELSE @, !.mode = "none", !.word = <<>>]

\* What a token that is being read becomes when it ends.
EndToken(s) ==
    CASE s.mode \in {"word", "quote"} -> Push(s, "Word", s.word)
      [] s.mode = "gt" -> Push(s, "RedirectOut", <<>>)
      [] OTHER -> s

StartToken(s, c) ==
    CASE c \in Blanks -> s
      [] c \in DOMAIN Special -> Push(s, Special[c], <<>>)
      [] c = ">" -> [s EXCEPT !.mode = "gt"]
      [] c = "\"" -> [s EXCEPT !.mode = "quote"]
      [] OTHER -> [s EXCEPT !.mode = "word", !.word = <<c>>]

\* (mutant) A word goes on across a redirection.
WordTakesRedirect(s, c) ==
    CASE s.mode = "quote" -> IF c = "\"" THEN EndToken(s) ELSE [s EXCEPT !.word = Append(@, c)]
      [] s.mode = "word" /\ c \notin Blanks \cup DOMAIN Special \cup {"\""} -> [s EXCEPT !.word = Append(@, c)]
      [] s.mode = "gt" /\ c = ">" -> Push(s, "RedirectAppend", <<>>)
      [] OTHER -> StartToken(EndToken(s), c)

ReadChar(s, c) ==
    CASE s.mode = "quote" -> IF c = "\"" THEN EndToken(s) ELSE [s EXCEPT !.word = Append(@, c)]
      [] s.mode = "word" /\ c \notin Blanks \cup DOMAIN Special \cup {"\"", ">"} -> [s EXCEPT !.word = Append(@, c)]
      [] s.mode = "gt" /\ c = ">" -> Push(s, "RedirectAppend", <<>>)
      [] OTHER -> StartToken(EndToken(s), c)

Tokenize(line) == EndToken(Foldl(ReadChar, [toks |-> <<>>, mode |-> "none", word |-> <<>>], line)).toks

-----------------------------------------------------------------------------
\* expand_vars: one buffer for all words of the line; what does not fit is cut.
Emit(s, text) ==
    LET room == ExpandBufSize - s.used
        n == IF Len(text) < room THEN Len(text) ELSE room
    IN  [s EXCEPT !.out = @ \o SubSeq(text, 1, n), !.used = @ + n]

EndName(s, env) ==
    LET t == [s EXCEPT !.name = <<>>, !.mode = "text"]
    IN  CASE s.mode = "name" -> IF s.name \in DOMAIN env THEN Emit(t, env[s.name]) ELSE t
          [] s.mode = "dollar" -> Emit(t, <<"$">>)
          [] OTHER -> t

ExpandChar(s, c, env) ==
    CASE s.mode \in {"name", "dollar"} /\ c \in VarChars -> [s EXCEPT !.mode = "name", !.name = Append(@, c)]
      [] c = "$" -> [EndName(s, env) EXCEPT !.mode = "dollar"]
      [] OTHER -> Emit(EndName(s, env), <<c>>)

ExpandWord(word, used, env) ==
    EndName(Foldl(LAMBDA s, c : ExpandChar(s, c, env),
                  [out |-> <<>>, used |-> used, mode |-> "text", name |-> <<>>], word), env)

ExpandVars(toks, env) ==
    Foldl(LAMBDA s, t : IF t[1] = "Word" /\ "$" \in ToSet(t[2])
                        THEN LET x == ExpandWord(t[2], s.used, env)
                             IN  [toks |-> Append(s.toks, <<"Word", x.out>>), used |-> x.used]
                        ELSE [s EXCEPT !.toks = Append(@, t)],
          [toks |-> <<>>, used |-> 0], toks).toks

-----------------------------------------------------------------------------
NewStage == [args |-> <<>>, in |-> <<>>, out |-> <<>>, append |-> FALSE]

\* A redirection takes the next token whatever it is and uses it if it is a word.
Redirect(s, word) ==
    CASE s.want = "RedirectIn" -> [s EXCEPT !.stages[Len(s.stages)].in = word, !.want = ""]
      [] OTHER -> [s EXCEPT !.stages[Len(s.stages)].out = word,
                            !.stages[Len(s.stages)].append = (s.want = "RedirectAppend"), !.want = ""]

ParseToken(s, t) ==
    IF s.full THEN s
    ELSE IF s.want # "" THEN (IF t[1] = "Word" THEN Redirect(s, t[2]) ELSE [s EXCEPT !.want = ""]) ELSE
    CASE t[1] = "Pipe" -> IF Len(s.stages) >= MaxStages THEN [s EXCEPT !.full = TRUE]
                          ELSE [s EXCEPT !.stages = Append(@, NewStage)]
      [] t[1] = "Background" -> [s EXCEPT !.background = TRUE]
      [] t[1] = "Word" -> IF Len(s.stages[Len(s.stages)].args) < MaxArgs
                          THEN [s EXCEPT !.stages[Len(s.stages)].args = Append(@, t[2])] ELSE s
      [] OTHER -> [s EXCEPT !.want = t[1]]

Parse(toks) == Foldl(ParseToken, [stages |-> <<NewStage>>, background |-> FALSE, want |-> "", full |-> FALSE], toks)

-----------------------------------------------------------------------------
\* The components of a path.
Components(path) ==
    LET split == Foldl(LAMBDA s, c : IF c = "/" THEN [done |-> Append(s.done, s.cur), cur |-> <<>>]
                                     ELSE [s EXCEPT !.cur = Append(@, c)],
                       [done |-> <<>>, cur |-> <<>>], path)
    IN  SelectSeq(Append(split.done, split.cur), LAMBDA x : x # <<>> /\ x # <<".">>)

DotDot == <<".", ".">>

\* normalize_path: the components are laid out in the buffer ...
LayOut(path) ==
    Foldl(LAMBDA s, x :
            CASE x = DotDot -> IF s.comps = <<>> THEN s
                               ELSE [s EXCEPT !.off = Last(s.comps)[1], !.comps = Front(@)]
              [] x # DotDot /\ s.off + Len(x) < PathBufSize ->
                   [buf |-> [i \in 1..PathBufSize |-> IF i \in s.off + 1 .. s.off + Len(x) THEN x[i - s.off] ELSE s.buf[i]],
                    comps |-> Append(s.comps, <<s.off, Len(x)>>), off |-> s.off + Len(x)]
              [] OTHER -> s,
          [buf |-> [i \in 1..PathBufSize |-> " "], comps |-> <<>>, off |-> 0], Components(path))

\* ... and copied within the same buffer, character by character, each after a "/".
NormalizePath(path) ==
    LET s == LayOut(path)
        moves == FlattenSeq([i \in DOMAIN s.comps |-> <<0>> \o [j \in 1..s.comps[i][2] |-> s.comps[i][1] + j]])
        done == Foldl(LAMBDA b, from : IF b.out >= PathBufSize THEN b
                                       ELSE [out |-> b.out + 1,
                                             buf |-> [b.buf EXCEPT ![b.out + 1] = IF from = 0 THEN "/" ELSE b.buf[from]]],
                      [buf |-> s.buf, out |-> 0], moves)
    IN  IF s.comps = <<>> THEN <<"/">> ELSE SubSeq(done.buf, 1, done.out)

-----------------------------------------------------------------------------
(***************************************************************************)
(* The shell (userspace/shell/src/main.rs): a line is read, parsed and executed *)
(* with dup2 over its own standard descriptors, pipes, redirections, spawned     *)
(* children and the job table. Opening a file, finding a command and making a    *)
(* pipe may fail at every point; a child that reads a pipe ends when no writer    *)
(* of that pipe is left.                                                         *)
(***************************************************************************)
CONSTANTS
    ShLines,        \* the lines that are typed
    ShBuiltins,     \* word -> built-in command
    ShEnv,          \* the environment at the start
    ShTty,          \* what the descriptors 0 to 2 are at the start: a /dev/ttyN or the slave of a pty
    MaxJobs,        \* MAX_JOBS
    ShCalls,        \* bound: lines
    ShPipeFails     \* whether pipe() may fail

VARIABLES
    shPc,       \* "prompt", "save", "pipes", "stage", "close", "wait", "exited"
    shLine,     \* the pipeline that is executed
    shAt,       \* the stage, or the child that is waited for
    shFds,      \* descriptor -> what is open there; <<>>: it was closed
    shSaved,    \* saved_stdin and saved_stdout
    shPipes,    \* the descriptors of the pipes made so far
    shKids,     \* children of this pipeline: [stage, in, out, alive]
    shJobs,     \* how many jobs the table holds
    shEnvNow,   \* environment
    shFront,    \* the foreground group is the pipeline's
    shLeaked,   \* history: the ends of pipes left open by a line whose next pipe() failed
    shLeft      \* lines left

shVars == <<shPc, shLine, shAt, shFds, shSaved, shPipes, shKids, shJobs, shEnvNow, shFront, shLeaked, shLeft>>

Console == <<"console">>
NoLine == [stages |-> <<>>, background |-> FALSE, want |-> "", full |-> FALSE]

ShInit ==
    /\ shPc = "prompt" /\ shLine = NoLine /\ shAt = 0
    /\ shFds = [f \in 0..2 |-> ShTty]
    /\ shSaved = <<>> /\ shPipes = <<>> /\ shKids = <<>> /\ shJobs = 0
    /\ shEnvNow = ShEnv /\ shFront = FALSE /\ shLeaked = {} /\ shLeft = ShCalls

Stages == shLine.stages
NStages == Len(Stages)

\* The kernel's table never gives a descriptor out again: open takes the next one (those
\* that resolve_command uses up for its probes are not numbered here).
NextFd(fds) == Cardinality(DOMAIN fds)
Open(fds, obj) == [f \in DOMAIN fds \cup {NextFd(fds)} |-> IF f \in DOMAIN fds THEN fds[f] ELSE obj]
Dup2(fds, from, to) == [fds EXCEPT ![to] = fds[from]]
Close(fds, which) == [f \in DOMAIN fds |-> IF f \in which THEN <<>> ELSE fds[f]]

\* builtin_cd: relative to PWD; the directory has to open.
Pwd == <<"P">>
Cd(args, exists) ==
    LET target == IF Len(args) > 1 THEN args[2] ELSE <<"/">>
        abs == IF Head(target) = "/" THEN target
               ELSE IF shEnvNow[Pwd] = <<"/">> THEN <<"/">> \o target ELSE shEnvNow[Pwd] \o <<"/">> \o target
    IN  shEnvNow' = IF Len(abs) > PathBufSize \/ ~exists THEN shEnvNow
                    ELSE [shEnvNow EXCEPT ![Pwd] = NormalizePath(abs)]

\* builtin_export of arguments KEY=value.
EqualsAt(arg) == CHOOSE i \in DOMAIN arg : arg[i] = "=" /\ \A j \in 1 .. i - 1 : arg[j] # "="
SetEnv(env, k, v) == [x \in DOMAIN env \cup {k} |-> IF x = k THEN v ELSE env[x]]
Export(args) ==
    shEnvNow' = Foldl(LAMBDA env, a : IF "=" \notin ToSet(a) THEN env
                                      ELSE SetEnv(env, SubSeq(a, 1, EqualsAt(a) - 1), SubSeq(a, EqualsAt(a) + 1, Len(a))),
                      shEnvNow, Tail(args))

\* execute_builtin.
RunBuiltin(args) ==
    LET kind == ShBuiltins[args[1]]
    IN  /\ shPc' = IF kind = "exit" THEN "exited" ELSE "prompt"
        /\ CASE kind = "cd" -> \E e \in BOOLEAN : Cd(args, e)
             [] kind = "export" -> Export(args)
             [] OTHER -> UNCHANGED shEnvNow
        /\ UNCHANGED <<shLine, shAt>>

\* main: one line.
ReadLine(line) ==
    LET p == Parse(ExpandVars(Tokenize(line), shEnvNow))
        args == p.stages[1].args
    IN  /\ shPc = "prompt" /\ shLeft > 0
        /\ shLeft' = shLeft - 1
        /\ shKids' = <<>>
        /\ IF Tokenize(line) = <<>> THEN UNCHANGED <<shPc, shLine, shAt, shEnvNow>>
           ELSE IF Len(p.stages) = 1 /\ args # <<>> /\ args[1] \in DOMAIN ShBuiltins THEN RunBuiltin(args)
           ELSE shPc' = "save" /\ shLine' = p /\ shAt' = 1 /\ UNCHANGED shEnvNow
        /\ UNCHANGED <<shFds, shSaved, shPipes, shJobs, shFront, shLeaked>>

\* read_line returns None: the shell exits.
EndOfInput ==
    /\ shPc = "prompt"
    /\ shPc' = "exited"
    /\ UNCHANGED <<shLine, shAt, shFds, shSaved, shPipes, shKids, shJobs, shEnvNow, shFront, shLeaked, shLeft>>

\* "Save original stdin/stdout by opening /dev/console.", which is always there, and
\* which is not what the shell was started on.
Save ==
    LET a == Open(shFds, Console)
    IN  /\ shPc = "save"
        /\ shSaved' = <<NextFd(shFds), NextFd(a)>> /\ shFds' = Open(a, Console)
        /\ shPc' = "pipes"
        /\ UNCHANGED <<shLine, shAt, shPipes, shKids, shJobs, shEnvNow, shFront, shLeaked, shLeft>>

\* The pipes of a line are told apart from those an earlier line has left open.
PipeId(k) == <<shLeft, k>>

MakePipe ==
    LET r == NextFd(shFds)
        a == Open(shFds, <<"r", PipeId(Len(shPipes) + 1)>>)
    IN  /\ shPc = "pipes" /\ Len(shPipes) < NStages - 1
        /\ shPipes' = Append(shPipes, <<r, NextFd(a)>>)
        /\ shFds' = Open(a, <<"w", PipeId(Len(shPipes) + 1)>>)
        /\ UNCHANGED <<shPc, shLine, shAt, shSaved, shKids, shJobs, shEnvNow, shFront, shLeaked, shLeft>>

\* pipe() fails: the saved descriptors are closed, the pipes made before are not.
PipeFailed ==
    /\ ShPipeFails /\ shPc = "pipes" /\ Len(shPipes) < NStages - 1
    /\ shFds' = Close(shFds, ToSet(shSaved))
    /\ shLeaked' = shLeaked \cup UNION {ToSet(shPipes[k]) : k \in DOMAIN shPipes}
    /\ shPc' = "prompt" /\ shLine' = NoLine /\ shAt' = 0 /\ shSaved' = <<>> /\ shPipes' = <<>>
    /\ UNCHANGED <<shKids, shJobs, shEnvNow, shFront, shLeft>>

PipesMade ==
    /\ shPc = "pipes" /\ Len(shPipes) = NStages - 1
    /\ shPc' = "stage"
    /\ UNCHANGED <<shLine, shAt, shFds, shSaved, shPipes, shKids, shJobs, shEnvNow, shFront, shLeaked, shLeft>>

\* What is put back when the input file of stage i cannot be opened.
InputMissing(fds, i) == IF i > 1 THEN Dup2(fds, shSaved[1], 0) ELSE fds

\* The descriptors while stage i is set up: pipe in, file in, pipe out, file out.
PipeIn(i) == IF i > 1 THEN Dup2(shFds, shPipes[i - 1][1], 0) ELSE shFds
FileIn(fds, i) == IF Stages[i].in = <<>> THEN fds ELSE Dup2(Open(fds, <<"in", Stages[i].in>>), NextFd(fds), 0)
PipeOut(fds, i) == IF i < NStages THEN Dup2(fds, shPipes[i][2], 1) ELSE fds
FileOut(fds, i) == IF Stages[i].out = <<>> THEN fds ELSE Dup2(Open(fds, <<"out", Stages[i].out>>), NextFd(fds), 1)

\* Both put back when the output file cannot be opened; afterwards the input file
\* is closed.
OutputMissing(fds, i) ==
    LET a == IF i > 1 \/ Stages[i].in # <<>> THEN Dup2(fds, shSaved[1], 0) ELSE fds
    IN  IF i < NStages THEN Dup2(a, shSaved[2], 1) ELSE a

\* (mutant) Only a pipe is taken off standard output again.
RestoredFromPipes(fds, i) ==
    LET a == IF i > 1 \/ Stages[i].in # <<>> THEN Dup2(fds, shSaved[1], 0) ELSE fds
    IN  IF i < NStages THEN Dup2(a, shSaved[2], 1) ELSE a

\* After the spawn.
Restored(fds, i) ==
    LET a == IF i > 1 \/ Stages[i].in # <<>> THEN Dup2(fds, shSaved[1], 0) ELSE fds
    IN  IF i < NStages \/ Stages[i].out # <<>> THEN Dup2(a, shSaved[2], 1) ELSE a

\* The files this stage has opened.
FileFds(fds) == DOMAIN fds \ DOMAIN shFds

\* One stage of execute.
Stage(i) ==
    /\ shPc = "stage" /\ shAt = i /\ i <= NStages
    /\ shAt' = i + 1
    /\ \/ /\ Stages[i].args = <<>>
          /\ UNCHANGED <<shFds, shKids>>
       \/ /\ Stages[i].args # <<>> /\ Stages[i].in # <<>>
          /\ shFds' = InputMissing(PipeIn(i), i)
          /\ UNCHANGED shKids
       \/ /\ Stages[i].args # <<>> /\ Stages[i].out # <<>>
          /\ LET fds == PipeOut(FileIn(PipeIn(i), i), i)
             IN  shFds' = Close(OutputMissing(fds, i), FileFds(fds))
          /\ UNCHANGED shKids
       \/ /\ Stages[i].args # <<>>
          /\ LET fds == FileOut(PipeOut(FileIn(PipeIn(i), i), i), i)
             IN  /\ shFds' = Close(Restored(fds, i), FileFds(fds))
                 /\ \/ shKids' = Append(shKids, [stage |-> i, in |-> fds[0], out |-> fds[1], alive |-> TRUE])
                    \/ UNCHANGED shKids     \* command not found, or spawn fails
    /\ UNCHANGED <<shPc, shLine, shSaved, shPipes, shJobs, shEnvNow, shFront, shLeaked, shLeft>>

Leftover == UNION {ToSet(shPipes[k]) : k \in DOMAIN shPipes} \cup ToSet(shSaved)

\* All pipes and the saved descriptors are closed; then the children become jobs
\* or are waited for, in the foreground.
CloseAll ==
    LET n == Len(shKids)
    IN  /\ shPc = "stage" /\ shAt > NStages
        /\ shFds' = Close(shFds, Leftover)
        /\ shPipes' = <<>> /\ shSaved' = <<>>
        /\ shAt' = 1
        /\ IF shLine.background \/ n = 0
           THEN /\ shPc' = "prompt" /\ shFront' = FALSE
                /\ shJobs' = IF shJobs + n < MaxJobs THEN shJobs + n ELSE MaxJobs
           ELSE shPc' = "wait" /\ shFront' = TRUE /\ UNCHANGED shJobs
        /\ UNCHANGED <<shLine, shKids, shEnvNow, shLeaked, shLeft>>

\* waitpid of the children in the order they were spawned.
WaitPid ==
    /\ shPc = "wait" /\ shAt <= Len(shKids) /\ ~shKids[shAt].alive
    /\ shAt' = shAt + 1
    /\ IF shAt = Len(shKids) THEN shPc' = "prompt" /\ shFront' = FALSE ELSE UNCHANGED <<shPc, shFront>>
    /\ UNCHANGED <<shLine, shFds, shSaved, shPipes, shKids, shJobs, shEnvNow, shLeaked, shLeft>>

\* A child that reads a pipe ends at its end, which it sees when no one can write.
Writers(p) == {f \in DOMAIN shFds : shFds[f] = <<"w", p>>} \cup
              {k \in DOMAIN shKids : shKids[k].alive /\ shKids[k].out = <<"w", p>>}
MayEnd(k) == shKids[k].alive /\ (shKids[k].in[1] = "r" => Writers(shKids[k].in[2]) = {})

ChildEnds(k) ==
    /\ MayEnd(k)
    /\ shKids' = [shKids EXCEPT ![k].alive = FALSE]
    /\ UNCHANGED <<shPc, shLine, shAt, shFds, shSaved, shPipes, shJobs, shEnvNow, shFront, shLeaked, shLeft>>

ShNext ==
    \/ \E l \in ShLines : ReadLine(l)
    \/ EndOfInput \/ Save \/ MakePipe \/ PipeFailed \/ PipesMade \/ CloseAll \/ WaitPid
    \/ \E i \in 1..MaxStages : Stage(i)
    \/ \E k \in DOMAIN shKids : ChildEnds(k)

ShSpec == ShInit /\ [][ShNext]_shVars

-----------------------------------------------------------------------------
\* Each child reads and writes what the line says: its own redirection, else the
\* pipe to its neighbour, else a terminal, the shell's own or the console that
\* execute puts back in its place; whichever stages before it failed.
Wired ==
    \A k \in DOMAIN shKids :
        LET c == shKids[k]
            s == shLine.stages[c.stage]
            own == {ShTty, Console}
        IN  shPc # "prompt" =>
            /\ c.in \in IF s.in # <<>> THEN {<<"in", s.in>>} ELSE IF c.stage > 1 THEN {<<"r", PipeId(c.stage - 1)>>} ELSE own
            /\ c.out \in IF s.out # <<>> THEN {<<"out", s.out>>} ELSE IF c.stage < NStages THEN {<<"w", PipeId(c.stage)>>} ELSE own

\* At the prompt the shell's standard descriptors are terminals again, its own or
\* the console (never a pipe or a file of the last line), standard error is its own,
\* and nothing else is open: execute leaks nothing on any path but the one on which
\* pipe() fails, and there only the pipes made before.
FdsRestored ==
    shPc = "prompt" => \A f \in DOMAIN shFds :
        CASE f < 2 -> shFds[f] \in {ShTty, Console}
          [] f = 2 -> shFds[f] = ShTty
          [] OTHER -> shFds[f] = <<>> \/ f \in shLeaked

\* The wait for a foreground pipeline ends: the awaited child is gone or some child
\* of the pipeline can end.
PipelineEnds ==
    shPc = "wait" => ~shKids[shAt].alive \/ \E k \in DOMAIN shKids : MayEnd(k)

\* Tokens keep the characters of the line, in order, blanks and quotes aside, as
\* long as there is room for tokens.
Text(t) ==
    CASE t[1] = "Word" -> t[2] [] t[1] = "Pipe" -> <<"|">> [] t[1] = "Background" -> <<"&">>
      [] t[1] = "RedirectIn" -> <<"<">> [] t[1] = "RedirectOut" -> <<">">> [] OTHER -> <<">", ">">>
TokensKeepText ==
    \A l \in ShLines : "\"" \notin ToSet(l) /\ Len(Tokenize(l)) < MaxTokens =>
        /\ FlattenSeq([i \in DOMAIN Tokenize(l) |-> Text(Tokenize(l)[i])]) = SelectSeq(l, LAMBDA c : c \notin Blanks)
        /\ \A i \in DOMAIN Tokenize(l) : Tokenize(l)[i][1] = "Word" => ToSet(Tokenize(l)[i][2]) \cap {"|", "&", "<", ">"} = {}

-----------------------------------------------------------------------------
(***************************************************************************)
(* The graphical terminal (userspace/lepton-terminal): bytes from the pty go   *)
(* through the escape-sequence parser (ansi.rs) into the grid (grid.rs), which  *)
(* the main loop renders and commits when it is dirty; keys go to the pty.      *)
(* The pty hands out its output in chunks that may cut a sequence anywhere.      *)
(***************************************************************************)
CONSTANTS
    TmCols, TmRows,
    TmMaxParams,    \* MAX_PARAMS
    TmChunks,       \* what one read of the pty may return: sequences of bytes
    TmReads,        \* bound: reads
    TmDigit         \* value of the digits

VARIABLES
    tmGrid,     \* Grid: [cells, row, col, fg, bg, state, params, started, dirty]
    tmShown,    \* the cells and the cursor on the surface that was committed last
    tmLast,     \* <<byte>> printed last, nothing moved or erased since; else <<>>
    tmKeys,     \* keys pressed and not yet taken, keys written to the pty
    tmFds,      \* who has what open: the terminal "display", "master", "slave", the "shell" the slave
    tmPc,       \* the next step of the start, or where the frame loop is: "read", "keys", "draw"
    tmLeft      \* reads left

tmVars == <<tmGrid, tmShown, tmLast, tmKeys, tmFds, tmPc, tmLeft>>

Last0 == TmCols * TmRows - 1
Default == 8
BlankCell == <<" ", Default, Default>>
NewGrid == [cells |-> [i \in 0..Last0 |-> BlankCell], row |-> 0, col |-> 0, fg |-> Default, bg |-> Default,
            state |-> "Ground", params |-> <<>>, started |-> FALSE, dirty |-> TRUE]

Picture(g) == [cells |-> g.cells, row |-> g.row, col |-> g.col]

Lesser(a, b) == IF a < b THEN a ELSE b
Sub(a, b) == IF a < b THEN 0 ELSE a - b

-----------------------------------------------------------------------------
(* grid.rs *)

ScrollUp(g) ==
    [g EXCEPT !.cells = [i \in 0..Last0 |-> IF i + TmCols <= Last0 THEN @[i + TmCols] ELSE BlankCell], !.dirty = TRUE]

\* The row after the last one is the last one of the scrolled screen.
Wrap(g) == IF g.row >= TmRows THEN [ScrollUp(g) EXCEPT !.row = TmRows - 1] ELSE g

PutChar(g, ch) ==
    LET at == g.row * TmCols + g.col
        w == [g EXCEPT !.cells = IF at <= Last0 THEN [@ EXCEPT ![at] = <<ch, g.fg, g.bg>>] ELSE @, !.col = @ + 1]
    IN  [(IF w.col >= TmCols THEN Wrap([w EXCEPT !.col = 0, !.row = @ + 1]) ELSE w) EXCEPT !.dirty = TRUE]

Execute(g, b) ==
    LET moved == CASE b = "\n" -> Wrap([g EXCEPT !.row = @ + 1])
                   [] b = "\r" -> [g EXCEPT !.col = 0]
                   [] b = "BS" -> [g EXCEPT !.col = Sub(@, 1)]
                   [] b = "\t" -> [g EXCEPT !.col = Lesser(((@ + 8) \div 8) * 8, TmCols - 1)]
                   [] OTHER -> g
    IN  [moved EXCEPT !.dirty = TRUE]

\* A parameter that is missing or 0 has its default.
Param(g, i, def) == IF i <= Len(g.params) /\ g.params[i] # 0 THEN g.params[i] ELSE def

Colour(g, n) ==
    CASE n = 0 -> [g EXCEPT !.fg = Default, !.bg = Default]
      [] n \in 30..37 -> [g EXCEPT !.fg = n - 30]
      [] n = 39 -> [g EXCEPT !.fg = Default]
      [] n \in 40..47 -> [g EXCEPT !.bg = n - 40]
      [] n = 49 -> [g EXCEPT !.bg = Default]
      [] OTHER -> g

\* The colours; without parameters the early return leaves dirty alone.
Sgr(g) ==
    IF g.params = <<>> THEN Colour(g, 0) ELSE [FoldLeft(Colour, g, g.params) EXCEPT !.dirty = TRUE]

Blank(g, from, upto) ==
    [g EXCEPT !.cells = [i \in 0..Last0 |-> IF i \in from..upto THEN BlankCell ELSE @[i]]]

\* What J and K erase, by their parameter.
Erase(g, b) ==
    LET here == g.row * TmCols + g.col
        start == g.row * TmCols
        mode == Param(g, 1, 0)
    IN  CASE mode = 0 -> Blank(g, here, IF b = "J" THEN Last0 ELSE start + TmCols - 1)
          [] mode = 1 -> Blank(g, IF b = "J" THEN 0 ELSE start, here)
          [] mode = 2 -> Blank(g, IF b = "J" THEN 0 ELSE start, IF b = "J" THEN Last0 ELSE start + TmCols - 1)
          [] OTHER -> g

Move(g, b) ==
    LET n == Param(g, 1, 1)
    IN  CASE b \in {"H", "f"} -> [g EXCEPT !.row = Lesser(Sub(n, 1), TmRows - 1),
                                           !.col = Lesser(Sub(Param(g, 2, 1), 1), TmCols - 1)]
          [] b = "A" -> [g EXCEPT !.row = Sub(@, n)]
          [] b = "B" -> [g EXCEPT !.row = Lesser(@ + n, TmRows - 1)]
          [] b = "C" -> [g EXCEPT !.col = Lesser(@ + n, TmCols - 1)]
          [] OTHER -> [g EXCEPT !.col = Sub(@, n)]

CsiDispatch(g, b) ==
    CASE b = "m" -> Sgr(g)
      [] b \in {"J", "K"} -> [Erase(g, b) EXCEPT !.dirty = TRUE]
      [] b \in {"H", "f", "A", "B", "C", "D"} -> [Move(g, b) EXCEPT !.dirty = TRUE]
      [] OTHER -> [g EXCEPT !.dirty = TRUE]

-----------------------------------------------------------------------------
(* ansi.rs: each state takes a byte and the grid with the parser in it.       *)

Controls == {"\n", "\r", "BS", "\t", "BEL"}
Finals == {"m", "J", "K", "H", "f", "A", "B", "C", "D", "x", "c", "["}

Ground(g, b) ==
    CASE b = "ESC" -> [g EXCEPT !.state = "Escape"]
      [] b \in Controls -> Execute(g, b)
      [] b = "DEL" -> g
      [] OTHER -> PutChar(g, b)

Escape(g, b) ==
    CASE b = "[" -> [g EXCEPT !.params = <<>>, !.started = FALSE, !.state = "CsiParam"]
      [] b = "]" -> [g EXCEPT !.state = "OscString"]
      [] b = "c" -> [CsiDispatch([g EXCEPT !.params = <<2>>], "J") EXCEPT !.state = "Ground", !.params = g.params]
      [] OTHER -> Ground([g EXCEPT !.state = "Ground"], b)

OneMore(g) == [g EXCEPT !.params = IF Len(@) < TmMaxParams THEN Append(@, 0) ELSE @]

\* A digit beyond the last parameter goes into that one.
Digit(g, d) ==
    LET h == IF g.started THEN g ELSE OneMore([g EXCEPT !.started = TRUE])
    IN  [h EXCEPT !.params[Len(h.params)] = Lesser(Lesser(@ * 10, 65535) + d, 65535)]

CsiParam(g, b) ==
    CASE b \in DOMAIN TmDigit -> Digit(g, TmDigit[b])
      [] b = ";" -> [(IF g.started THEN g ELSE OneMore(g)) EXCEPT !.started = FALSE]
      [] b = " " -> [g EXCEPT !.state = "CsiIntermediate"]
      [] b \in Finals -> CsiDispatch([g EXCEPT !.state = "Ground"], b)
      [] OTHER -> [g EXCEPT !.state = "Ground"]

CsiIntermediate(g, b) ==
    CASE b = " " -> g
      [] b \in Finals -> CsiDispatch([g EXCEPT !.state = "Ground"], b)
      [] OTHER -> [g EXCEPT !.state = "Ground"]

OscString(g, b) ==
    CASE b = "BEL" -> [g EXCEPT !.state = "Ground"]
      [] b = "ESC" -> [g EXCEPT !.state = "Escape"]
      [] OTHER -> g

Feed(g, b) ==
    CASE g.state = "Ground" -> Ground(g, b)
      [] g.state = "Escape" -> Escape(g, b)
      [] g.state = "CsiParam" -> CsiParam(g, b)
      [] g.state = "CsiIntermediate" -> CsiIntermediate(g, b)
      [] OTHER -> OscString(g, b)

FeedBytes(g, bytes) == FoldLeft(Feed, g, bytes)

-----------------------------------------------------------------------------
(* main.rs *)

TmInit ==
    /\ tmGrid = NewGrid /\ tmShown = <<>> /\ tmLast = <<>>
    /\ tmKeys = [pressed |-> 0, written |-> 0]
    /\ tmFds = {} /\ tmPc = "connect" /\ tmLeft = TmReads

\* main, up to the loop: the compositor, the master of a pty and its number, the
\* slave, and a shell that gets the slave as its three streams.  Whatever fails ends
\* the program, and with it what it had open.
StartUp(ok) ==
    /\ tmPc \in {"connect", "master", "number", "slave", "spawn"}
    /\ tmPc' = IF ~ok THEN "failed"
               ELSE CASE tmPc = "connect" -> "master" [] tmPc = "master" -> "number" [] tmPc = "number" -> "slave"
                      [] tmPc = "slave" -> "spawn" [] tmPc = "spawn" -> "read"
    /\ tmFds' = IF ~ok THEN {}
                ELSE CASE tmPc = "connect" -> {"display"} [] tmPc = "master" -> tmFds \cup {"master"} [] tmPc = "number" -> tmFds
                       [] tmPc = "slave" -> tmFds \cup {"slave"} [] tmPc = "spawn" -> (tmFds \ {"slave"}) \cup {"shell"}
    /\ UNCHANGED <<tmGrid, tmShown, tmLast, tmKeys, tmLeft>>

\* The shell exits, and its descriptors are closed (external).
ShellExits ==
    /\ "shell" \in tmFds /\ tmFds' = tmFds \ {"shell"}
    /\ UNCHANGED <<tmGrid, tmShown, tmLast, tmKeys, tmPc, tmLeft>>

\* The last byte of a chunk was printed.
PrintedLast(g, bytes) ==
    LET before == FeedBytes(g, Front(bytes))
    IN  IF before.state \in {"Ground", "Escape"} /\ Last(bytes) = "x" THEN <<"x", before.fg, before.bg>> ELSE <<>>

ReadPty(bytes) ==
    /\ tmPc = "read" /\ tmLeft > 0
    /\ tmLeft' = tmLeft - 1
    /\ tmGrid' = FeedBytes(tmGrid, bytes)
    /\ tmLast' = PrintedLast(tmGrid, bytes)
    /\ tmPc' = "keys"
    /\ UNCHANGED <<tmShown, tmKeys, tmFds>>

NoOutput ==
    /\ tmPc = "read" /\ tmPc' = "keys"
    /\ UNCHANGED <<tmGrid, tmShown, tmLast, tmKeys, tmLeft, tmFds>>

\* Nobody has the slave any more: the read returns 0, the loop ends, and the master
\* and the display are closed.
PtyClosed ==
    /\ tmPc = "read" /\ tmFds \cap {"slave", "shell"} = {}
    /\ tmPc' = "ended" /\ tmFds' = {}
    /\ UNCHANGED <<tmGrid, tmShown, tmLast, tmKeys, tmLeft>>

KeyPressed ==
    /\ tmKeys.pressed < 1 /\ tmKeys' = [tmKeys EXCEPT !.pressed = @ + 1]
    /\ UNCHANGED <<tmGrid, tmShown, tmLast, tmPc, tmLeft, tmFds>>

\* Every event that is there is taken; a key with a character is written.
TakeKeys ==
    /\ tmPc = "keys" /\ tmPc' = "draw"
    /\ tmKeys' = [tmKeys EXCEPT !.written = tmKeys.pressed]
    /\ UNCHANGED <<tmGrid, tmShown, tmLast, tmLeft, tmFds>>

Draw ==
    /\ tmPc = "draw" /\ tmPc' = "read"
    /\ tmShown' = IF tmGrid.dirty THEN <<Picture(tmGrid)>> ELSE tmShown
    /\ tmGrid' = [tmGrid EXCEPT !.dirty = FALSE]
    /\ UNCHANGED <<tmLast, tmKeys, tmLeft, tmFds>>

TmNext ==
    \/ \E ok \in BOOLEAN : StartUp(ok)
    \/ (\E c \in TmChunks : ReadPty(c)) \/ ShellExits \/ NoOutput \/ PtyClosed \/ KeyPressed \/ TakeKeys \/ Draw

TmSpec == TmInit /\ [][TmNext]_tmVars

-----------------------------------------------------------------------------
\* The cursor stays in the grid, so that the slices of J and K and the position
\* of put_char are within it, after any bytes cut anywhere.
CursorInGrid == tmGrid.row \in 0 .. TmRows - 1 /\ tmGrid.col \in 0 .. TmCols - 1

\* What a frame leaves on the surface is the grid and its cursor: nothing that
\* changes them leaves dirty unset.
ShownCurrent == tmPc = "read" /\ tmShown # <<>> => tmShown = <<Picture(tmGrid)>>

\* The character printed last is in the cell before the cursor, in the colours it
\* was printed with, also when it wrapped or scrolled the screen.
LastBeforeCursor ==
    tmLast # <<>> => LET at == tmGrid.row * TmCols + tmGrid.col
                     IN  tmGrid.cells[at - 1] = tmLast

\* In the loop the terminal has no slave open of its own: when the shell is gone
\* the next read of the master ends the program, and it leaves nothing open.
EndsWithShell ==
    /\ tmPc \in {"read", "keys", "draw"} => "slave" \notin tmFds
    /\ tmPc \in {"ended", "failed"} => tmFds = {}

-----------------------------------------------------------------------------
(***************************************************************************)
(* The display protocol between the compositor (userspace/lepton-compositor)   *)
(* and its clients (userspace/lepton-display-client over lepton-wayland): the   *)
(* socket as two streams, descriptors on the side, messages that may arrive in  *)
(* pieces; the frame loop polls, reads, dispatches, draws and flushes; a client  *)
(* may go at any time. A message is <<object, opcode, argument, argument>> and   *)
(* takes two pieces of the stream.                                              *)
(***************************************************************************)
CONSTANTS
    WsClients,
    WsChunks,       \* how many pieces one recvmsg may take
    WsCommits,      \* bound: commits of a client that runs
    WsMayDie        \* whether clients may go without a word

VARIABLES
    wsPc,       \* client -> where it is
    wsIn,       \* client -> pieces it has read and not used
    wsSeen,     \* client -> [globals, format, configured] it has seen
    wsUp,       \* client -> pieces on the way to the compositor
    wsFds,      \* client -> descriptors on the way (pending_fds)
    wsDown,     \* client -> pieces on the way to the client
    wsConn,     \* client -> "none", "queued", "open", "gone" as the compositor knows it
    wsReady,    \* clients the poll of this frame found readable; {0} before the poll
    wsSrv,      \* client -> [in, out, objects, deferred, serial] of struct Client
    wsPools,    \* pools (of clients) the compositor has mapped, with their descriptors
    wsLost,     \* descriptors it took and dropped without closing
    wsShown,    \* clients whose surface the last frame showed
    wsLeft      \* client -> commits left

wsVars == <<wsPc, wsIn, wsSeen, wsUp, wsFds, wsDown, wsConn, wsReady, wsSrv, wsPools, wsLost, wsShown, wsLeft>>

\* Object numbers of the client.
Display == 1
Registry == 2
Compositor == 3
Shm == 4
WmBase == 5
Surface == 6
Pool == 7
Buffer == 8
XdgSurface == 9
Toplevel == 10

Pieces(msgs) == FlattenSeq([i \in DOMAIN msgs |-> <<<<"first", msgs[i]>>, <<"rest", msgs[i]>>>>])

\* parse_header in a loop: the messages that are there whole, and what remains.
Whole(pieces) == LET n == Len(pieces) \div 2 IN [i \in 1..n |-> pieces[2 * i][2]]
Remainder(pieces) == SubSeq(pieces, 2 * (Len(pieces) \div 2) + 1, Len(pieces))

Object(kind) == [kind |-> kind, pending |-> 0, current |-> 0, acked |-> FALSE, ref |-> 0]

NewClient == [in |-> <<>>, out |-> <<>>, objects |-> (Display :> Object("Display")), deferred |-> 0, serial |-> 1]

WsInit ==
    /\ wsPc = [c \in WsClients |-> "start"] /\ wsIn = [c \in WsClients |-> <<>>]
    /\ wsSeen = [c \in WsClients |-> [globals |-> 0, format |-> FALSE, configured |-> FALSE]]
    /\ wsUp = [c \in WsClients |-> <<>>] /\ wsFds = [c \in WsClients |-> <<>>]
    /\ wsDown = [c \in WsClients |-> <<>>] /\ wsConn = [c \in WsClients |-> "none"]
    /\ wsReady = {0} /\ wsSrv = [c \in WsClients |-> NewClient]
    /\ wsPools = {} /\ wsLost = {} /\ wsShown = {} /\ wsLeft = [c \in WsClients |-> WsCommits]

-----------------------------------------------------------------------------
(* The client: Display::connect, commit, poll_event, disconnect.              *)

Server == <<wsConn, wsReady, wsSrv, wsPools, wsLost, wsShown>>

\* send_all: what the compositor has hung up on goes nowhere.
Send(c, msgs) == wsUp' = [wsUp EXCEPT ![c] = IF wsConn[c] = "gone" THEN @ ELSE @ \o Pieces(msgs)]
Goes(c, pc) == wsPc' = [wsPc EXCEPT ![c] = pc]

Connect(c) ==
    /\ wsPc[c] = "start" /\ wsConn[c] = "none"
    /\ wsConn' = [wsConn EXCEPT ![c] = "queued"]
    /\ Send(c, <<<<Display, 1, Registry, 0>>>>) /\ Goes(c, "globals")
    /\ UNCHANGED <<wsIn, wsSeen, wsFds, wsDown, wsReady, wsSrv, wsPools, wsLost, wsShown, wsLeft>>

\* What a batch of events tells the loop it is read in.
Note(seen, msgs) ==
    [globals |-> seen.globals + Len(SelectSeq(msgs, LAMBDA m : m[1] = Registry /\ m[2] = 0)),
     format |-> seen.format \/ \E i \in DOMAIN msgs : msgs[i][1] = Shm /\ msgs[i][2] = 0,
     configured |-> seen.configured \/ \E i \in DOMAIN msgs : msgs[i][1] = XdgSurface /\ msgs[i][2] = 0]

\* One recvmsg of one of the three loops of connect, which keep the rest of a
\* message for the next.
Receive(c, k) ==
    LET n == IF k < Len(wsDown[c]) THEN k ELSE Len(wsDown[c])
        all == wsIn[c] \o SubSeq(wsDown[c], 1, n)
    IN  /\ wsPc[c] \in {"globals", "format", "configure"}
        /\ n > 0
        /\ wsDown' = [wsDown EXCEPT ![c] = SubSeq(@, n + 1, Len(@))]
        /\ wsIn' = [wsIn EXCEPT ![c] = Remainder(all)]
        /\ wsSeen' = [wsSeen EXCEPT ![c] = Note(@, Whole(all))]
        /\ UNCHANGED <<wsPc, wsUp, wsFds, wsConn, wsReady, wsSrv, wsPools, wsLost, wsShown, wsLeft>>

BindGlobals(c) ==
    /\ wsPc[c] = "globals" /\ wsSeen[c].globals >= 3
    /\ Send(c, <<<<Registry, 0, 1, Compositor>>, <<Registry, 0, 2, Shm>>, <<Registry, 0, 3, WmBase>>>>)
    /\ Goes(c, "format")
    /\ UNCHANGED <<wsIn, wsSeen, wsFds, wsDown, wsLeft>> /\ UNCHANGED Server

\* create_surface; create_pool with the descriptor of the shared memory; then
\* the buffer, the roles and a first commit without a buffer.
Setup(c) ==
    /\ wsPc[c] = "format" /\ wsSeen[c].format
    /\ Send(c, <<<<Compositor, 0, Surface, 0>>, <<Shm, 0, Pool, 0>>>>)
    /\ wsFds' = [wsFds EXCEPT ![c] = IF wsConn[c] = "gone" THEN @ ELSE Append(@, c)]
    /\ Goes(c, "roles")
    /\ UNCHANGED <<wsIn, wsSeen, wsDown, wsLeft>> /\ UNCHANGED Server

Roles(c) ==
    /\ wsPc[c] = "roles"
    /\ Send(c, <<<<Pool, 0, Buffer, 0>>, <<WmBase, 2, XdgSurface, Surface>>,
                 <<XdgSurface, 1, Toplevel, 0>>, <<Surface, 6, 0, 0>>>>)
    /\ Goes(c, "configure")
    /\ UNCHANGED <<wsIn, wsSeen, wsFds, wsDown, wsLeft>> /\ UNCHANGED Server

AckConfigure(c) ==
    /\ wsPc[c] = "configure" /\ wsSeen[c].configured
    /\ Send(c, <<<<XdgSurface, 4, 0, 0>>, <<Surface, 1, Buffer, 0>>, <<Surface, 6, 0, 0>>>>)
    /\ Goes(c, "running")
    /\ UNCHANGED <<wsIn, wsSeen, wsFds, wsDown, wsLeft>> /\ UNCHANGED Server

Commit(c) ==
    /\ wsPc[c] = "running" /\ wsLeft[c] > 0
    /\ Send(c, <<<<Surface, 1, Buffer, 0>>, <<Surface, 6, 0, 0>>>>)
    /\ wsLeft' = [wsLeft EXCEPT ![c] = @ - 1]
    /\ UNCHANGED <<wsPc, wsIn, wsSeen, wsFds, wsDown>> /\ UNCHANGED Server

\* poll_event: answers a ping; what is left over of a message is thrown away.
PollEvent(c, k) ==
    LET n == IF k < Len(wsDown[c]) THEN k ELSE Len(wsDown[c])
        pings == SelectSeq(Whole(SubSeq(wsDown[c], 1, n)), LAMBDA m : m[1] = WmBase /\ m[2] = 0)
    IN  /\ wsPc[c] = "running" /\ n > 0
        /\ wsDown' = [wsDown EXCEPT ![c] = SubSeq(@, n + 1, Len(@))]
        /\ Send(c, [i \in DOMAIN pings |-> <<WmBase, 3, 0, 0>>])
        /\ UNCHANGED <<wsPc, wsIn, wsSeen, wsFds, wsLeft>> /\ UNCHANGED Server

\* disconnect sends the destroy requests (opcode 2 for the pool) and closes.
Disconnect(c) ==
    /\ wsPc[c] = "running"
    /\ Send(c, <<<<Surface, 0, 0, 0>>, <<Buffer, 0, 0, 0>>, <<Pool, 2, 0, 0>>>>)
    /\ Goes(c, "closed")
    /\ UNCHANGED <<wsIn, wsSeen, wsFds, wsDown, wsLeft>> /\ UNCHANGED Server

Die(c) ==
    /\ WsMayDie /\ wsPc[c] \notin {"start", "closed"}
    /\ Goes(c, "closed")
    /\ UNCHANGED <<wsIn, wsSeen, wsUp, wsFds, wsDown, wsLeft>> /\ UNCHANGED Server

-----------------------------------------------------------------------------
(* The compositor's handlers: each takes and gives struct Client, here with    *)
(* the descriptor at hand (0: none) and the pools it has mapped as r.          *)

Register(r, id, o) ==
    [r EXCEPT !.cl.objects = [x \in DOMAIN @ \cup {id} |-> IF x = id THEN o ELSE @[x]]]
Answer(r, msgs) == [r EXCEPT !.cl.out = @ \o msgs]

GetRegistry(r, id) ==
    Answer(Register(r, id, Object("Registry")), <<<<id, 0, 1, 0>>, <<id, 0, 2, 0>>, <<id, 0, 3, 0>>>>)

Bind(r, name, id) ==
    CASE name = 1 -> Register(r, id, Object("Compositor"))
      [] name = 2 -> Answer(Register(r, id, Object("Shm")), <<<<id, 0, 0, 0>>, <<id, 0, 1, 0>>>>)
      [] name = 3 -> [Answer(Register(r, id, Object("XdgWmBase")), <<<<id, 0, r.cl.serial, 0>>>>) EXCEPT !.cl.serial = @ + 1]
      [] OTHER -> r

\* Without a descriptor at hand nothing is created.
CreatePool(r, id) ==
    IF r.fd = 0 THEN r
    ELSE [Register(r, id, [Object("ShmPool") EXCEPT !.ref = r.fd]) EXCEPT !.fd = 0, !.pools = @ \cup {r.fd}]

\* destroy_obj: a pool is unmapped and its descriptor closed.
DestroyObj(r, id) ==
    [r EXCEPT !.cl.objects[id] = Object("Deleted"), !.pools = @ \ {r.cl.objects[id].ref}]

\* handle_surface_commit: the pending buffer becomes current, the one before is
\* released.
CommitSurface(r, id) ==
    LET s == r.cl.objects[id]
        released == IF s.current # 0 /\ s.current # s.pending THEN <<<<s.current, 0, 0, 0>>>> ELSE <<>>
    IN  Answer([r EXCEPT !.cl.objects[id].current = s.pending, !.cl.objects[id].pending = 0], released)

GetToplevel(r, xdg, id) ==
    LET a == Answer(Register(r, id, Object("XdgToplevel")), <<<<id, 0, 0, 0>>, <<xdg, 0, r.cl.serial, 0>>>>)
    IN  [a EXCEPT !.cl.serial = @ + 1]

AckSurface(r, xdg) ==
    LET id == r.cl.objects[xdg].ref
    IN  IF id \in DOMAIN r.cl.objects /\ r.cl.objects[id].kind = "Surface"
        THEN [r EXCEPT !.cl.objects[id].acked = TRUE] ELSE r

\* handle_shm_pool_resize reads a size; the destroy request of the client library
\* comes with this opcode and without one.
ResizePool(r, id) == r

Handlers == {<<"Display", 1>>, <<"Registry", 0>>, <<"Compositor", 0>>, <<"Surface", 0>>, <<"Surface", 1>>, <<"Surface", 6>>,
             <<"Shm", 0>>, <<"ShmPool", 0>>, <<"ShmPool", 1>>, <<"ShmPool", 2>>, <<"Buffer", 0>>, <<"XdgWmBase", 2>>,
             <<"XdgWmBase", 3>>, <<"XdgSurface", 1>>, <<"XdgSurface", 4>>}

KindOf(objects, id) == IF id \in DOMAIN objects THEN objects[id].kind ELSE "Deleted"

\* dispatch.
Dispatch(r, m) ==
    LET key == <<KindOf(r.cl.objects, m[1]), m[2]>>
    IN  CASE key = <<"Display", 1>> -> GetRegistry(r, m[3])
          [] key = <<"Registry", 0>> -> Bind(r, m[3], m[4])
          [] key = <<"Compositor", 0>> -> Register(r, m[3], Object("Surface"))
          [] key \in {<<"Surface", 0>>, <<"Buffer", 0>>, <<"ShmPool", 1>>} -> DestroyObj(r, m[1])
          [] key = <<"Surface", 1>> -> [r EXCEPT !.cl.objects[m[1]].pending = m[3]]
          [] key = <<"Surface", 6>> -> CommitSurface(r, m[1])
          [] key = <<"Shm", 0>> -> CreatePool(r, m[3])
          [] key = <<"ShmPool", 0>> -> Register(r, m[3], [Object("Buffer") EXCEPT !.ref = m[1]])
          [] key = <<"ShmPool", 2>> -> ResizePool(r, m[1])
          [] key = <<"XdgWmBase", 2>> -> Register(r, m[3], [Object("XdgSurface") EXCEPT !.ref = m[4]])
          [] key = <<"XdgSurface", 1>> -> GetToplevel(r, m[1], m[3])
          [] key = <<"XdgSurface", 4>> -> AckSurface(r, m[1])
          [] OTHER -> [r EXCEPT !.unknown = @ \cup (IF key \in Handlers THEN {} ELSE {key})]

\* The frame: who is readable (or has hung up), and one new connection.
Poll ==
    /\ wsReady = {0}
    /\ wsReady' = {c \in WsClients : wsConn[c] = "open" /\ (wsUp[c] # <<>> \/ wsPc[c] = "closed")}
    /\ \/ \E c \in WsClients : wsConn[c] = "queued" /\ wsConn' = [wsConn EXCEPT ![c] = "open"]
       \/ (\A c \in WsClients : wsConn[c] # "queued") /\ UNCHANGED wsConn
    /\ UNCHANGED <<wsPc, wsIn, wsSeen, wsUp, wsFds, wsDown, wsSrv, wsPools, wsLost, wsShown, wsLeft>>

\* One recvmsg of a readable client, and every whole message of it. A descriptor
\* that comes while another is deferred displaces it.
Serve(c, k) ==
    LET n == IF k < Len(wsUp[c]) THEN k ELSE Len(wsUp[c])
        all == wsSrv[c].in \o SubSeq(wsUp[c], 1, n)
        got == IF wsFds[c] = <<>> THEN 0 ELSE Head(wsFds[c])
        r0 == [cl |-> wsSrv[c], fd |-> IF got # 0 THEN got ELSE wsSrv[c].deferred, pools |-> wsPools, unknown |-> {}]
        r == FoldSeq(LAMBDA m, acc : Dispatch(acc, m), r0, Reverse(Whole(all)))
    IN  /\ wsReady # {0} /\ c \in wsReady /\ n > 0
        /\ wsReady' = wsReady \ {c}
        /\ wsUp' = [wsUp EXCEPT ![c] = SubSeq(@, n + 1, Len(@))]
        /\ wsFds' = [wsFds EXCEPT ![c] = IF @ = <<>> THEN @ ELSE Tail(@)]
        /\ wsLost' = wsLost \cup (IF got # 0 /\ wsSrv[c].deferred # 0 THEN {<<"fd", wsSrv[c].deferred>>} ELSE {})
                       \cup r.unknown
        /\ wsSrv' = [wsSrv EXCEPT ![c] = [r.cl EXCEPT !.in = Remainder(all), !.deferred = r.fd]]
        /\ wsPools' = r.pools
        /\ UNCHANGED <<wsPc, wsIn, wsSeen, wsDown, wsConn, wsShown, wsLeft>>

\* recvmsg returns 0: the client is removed. Nothing unmaps its pools.
Drop(c) ==
    /\ wsReady # {0} /\ c \in wsReady /\ wsUp[c] = <<>> /\ wsPc[c] = "closed"
    /\ wsReady' = wsReady \ {c}
    /\ wsConn' = [wsConn EXCEPT ![c] = "gone"]
    /\ wsFds' = [wsFds EXCEPT ![c] = <<>>]
    /\ UNCHANGED <<wsPc, wsIn, wsSeen, wsUp, wsDown, wsSrv, wsPools, wsLost, wsShown, wsLeft>>

\* composite draws the surfaces whose buffer and pool are there, then everything
\* is flushed.
Shows(c) ==
    LET os == wsSrv[c].objects
    IN  \E s \in DOMAIN os :
            /\ os[s].kind = "Surface" /\ KindOf(os, os[s].current) = "Buffer"
            /\ KindOf(os, os[os[s].current].ref) = "ShmPool"

Composite ==
    /\ wsReady = {}
    /\ wsReady' = {0}
    /\ wsShown' = {c \in WsClients : wsConn[c] = "open" /\ Shows(c)}
    /\ wsDown' = [c \in WsClients |-> IF wsConn[c] = "open" /\ wsPc[c] # "closed"
                                      THEN wsDown[c] \o Pieces(wsSrv[c].out) ELSE wsDown[c]]
    /\ wsSrv' = [c \in WsClients |-> IF wsConn[c] = "open" THEN [wsSrv[c] EXCEPT !.out = <<>>] ELSE wsSrv[c]]
    /\ UNCHANGED <<wsPc, wsIn, wsSeen, wsUp, wsFds, wsConn, wsPools, wsLost, wsLeft>>

WsNext ==
    \/ \E c \in WsClients : Connect(c) \/ BindGlobals(c) \/ Setup(c) \/ Roles(c) \/ AckConfigure(c) \/ Commit(c)
                            \/ Disconnect(c) \/ Die(c) \/ Drop(c)
    \/ \E c \in WsClients, k \in WsChunks : Receive(c, k) \/ PollEvent(c, k) \/ Serve(c, k)
    \/ Poll \/ Composite

WsSpec == WsInit /\ [][WsNext]_wsVars

-----------------------------------------------------------------------------
\* Every request finds the object it is for with a handler for it, however the
\* stream was cut, and no descriptor is dropped on the way to its pool.
RequestsUnderstood == wsLost = {}

\* The compositor maps for a client the memory that client has sent, once.
PoolsRight ==
    \A c \in WsClients : KindOf(wsSrv[c].objects, Pool) = "ShmPool" =>
        wsSrv[c].objects[Pool].ref = c /\ c \in wsPools /\ wsSrv[c].deferred = 0

\* Whether pieces hold a message that a client in this loop waits for.
Brings(c, pieces) ==
    \E i \in DOMAIN pieces :
        LET m == pieces[i][2]
        IN  CASE wsPc[c] = "globals" -> m[1] = Registry
              [] wsPc[c] = "format" -> m[1] = Shm
              [] OTHER -> m[1] = XdgSurface

\* A client that waits for an event will get it: the event is on its way, or the
\* request that causes it is, and no cut of the streams loses either.
NoneStuck ==
    \A c \in WsClients :
        wsPc[c] \in {"globals", "format", "configure"} =>
            \/ wsSeen[c].globals >= 3 /\ wsPc[c] = "globals"
            \/ wsSeen[c].format /\ wsPc[c] = "format"
            \/ wsSeen[c].configured
            \/ Brings(c, wsIn[c] \o wsDown[c] \o Pieces(wsSrv[c].out))
            \/ \E i \in DOMAIN (wsSrv[c].in \o wsUp[c]) :
                  LET m == (wsSrv[c].in \o wsUp[c])[i][2]
                  IN  m \in {<<Display, 1, Registry, 0>>, <<Registry, 0, 2, Shm>>, <<XdgSurface, 1, Toplevel, 0>>}

\* A client that runs and whose requests have all been read is on the screen
\* after the next frame.
RunningShown ==
    \A c \in WsClients :
        /\ wsPc[c] = "running" /\ wsUp[c] = <<>> /\ wsConn[c] = "open" /\ wsSrv[c].in = <<>>
        /\ wsReady = {}
        => Shows(c) /\ wsSrv[c].objects[Surface].acked
=============================================================================
