------------------------------- MODULE MCPipe -------------------------------
(* Small instances of Pipe for TLC. *)
EXTENDS Pipe

CONSTANTS r1, r2, w1, x, y, none

\* The first reader and writer on different CPUs.
Apart == [t \in Tasks |-> IF t \in Readers THEN x ELSE y]

\* Everything on one CPU.
Together == [t \in Tasks |-> x]

OneOrTwo == {<<1>>, <<2, 1>>}

Twice == [t \in Tasks |-> 2]
ReadOnce == [t \in Tasks |-> IF t \in Readers THEN 1 ELSE 2]
=============================================================================
