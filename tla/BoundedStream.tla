--------------------------- MODULE BoundedStream ---------------------------
(***************************************************************************)
(* What a pipe and each direction of a channel promise their users: a        *)
(* bounded stream of items (bytes or messages) with two ends.  Items come    *)
(* out once, in the order they went in; end-of-file is reported only when    *)
(* the stream is drained and can never grow again, a broken pipe only when   *)
(* nobody can receive any more.                                              *)
(***************************************************************************)
EXTENDS Naturals, Sequences

CONSTANTS Item, Capacity

VARIABLES
    stream,     \* the items written and not yet read
    out,        \* what the last successful read returned
    wopen,      \* the write end exists
    ropen,      \* the read end exists
    ended,      \* some read has returned end-of-file
    broken      \* some write has failed

vars == <<stream, out, wopen, ropen, ended, broken>>

Init ==
    /\ stream = << >> /\ out = << >>
    /\ wopen = TRUE /\ ropen = TRUE /\ ended = FALSE /\ broken = FALSE

\* The stream grows at its end.
Put ==
    /\ wopen
    /\ stream' \in Seq(Item)
    /\ Len(stream) < Len(stream') /\ Len(stream') <= Capacity
    /\ SubSeq(stream', 1, Len(stream)) = stream
    /\ UNCHANGED <<out, wopen, ropen, ended, broken>>

Get(n) ==
    /\ ropen
    /\ out' = SubSeq(stream, 1, n)
    /\ stream' = SubSeq(stream, n + 1, Len(stream))
    /\ UNCHANGED <<wopen, ropen, ended, broken>>

EndOfFile ==
    /\ ropen /\ ~wopen /\ stream = << >>
    /\ ended' = TRUE
    /\ UNCHANGED <<stream, out, wopen, ropen, broken>>

Broken ==
    /\ wopen /\ ~ropen
    /\ broken' = TRUE
    /\ UNCHANGED <<stream, out, wopen, ropen, ended>>

Close ==
    /\ \/ wopen' = FALSE /\ UNCHANGED ropen
       \/ ropen' = FALSE /\ UNCHANGED wopen
    /\ UNCHANGED <<stream, out, ended, broken>>

Next ==
    \/ Put
    \/ \E n \in 1 .. Len(stream) : Get(n)
    \/ EndOfFile \/ Broken \/ Close

Spec == Init /\ [][Next]_vars
=============================================================================
