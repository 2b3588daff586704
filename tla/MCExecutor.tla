----------------------------- MODULE MCExecutor -----------------------------
(* A small instance of Executor for TLC. *)
EXTENDS Executor

CONSTANTS a, b, c, x, y

\* One task of each kind.
Mixed == [t \in Tasks |-> IF t = a THEN "critical"
                          ELSE IF t = b THEN "normal" ELSE "background"]
=============================================================================
