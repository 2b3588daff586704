----------------------------- MODULE MCProcess -----------------------------
(* A small instance of Process for TLC. *)
EXTENDS Process

Each(a, b, c) == [p \in Pids |-> IF p = 1 THEN a ELSE IF p = 2 THEN b ELSE c]

\* Three generations spawn, exit and wait; processes signal each other; process
\* groups are signalled from the terminal while their members block.
Family == [ops |-> {"Spawn", "Wait"}, left |-> Each(4, 1, 1)]
Killing == [ops |-> {"Spawn", "Kill", "SigProcMask", "SigAction", "Preempt"}, left |-> Each(2, 1, 0)]
Groups == [ops |-> {"Clone", "SetPgid", "SigAction", "Terminal", "Block", "Exec"}, left |-> Each(2, 1, 0)]
Mixed == {Family, Killing, Groups}

SomeMasks == {{}, {2, 9}}
Caught == {[to |-> "handler", reset |-> TRUE], [to |-> "ignore", reset |-> FALSE]}
=============================================================================
