----------------------------- MODULE MCPthread -----------------------------
EXTENDS Pthread, TLC

CONSTANTS p1, p2, p3, q1, q2, P, Q

TwoSpaces == (p1 :> P) @@ (p2 :> P) @@ (p3 :> P) @@ (q1 :> Q) @@ (q2 :> Q)

Calls(ops, n1, n2, n3, strays) ==
    [ops |-> ops, left |-> (p1 :> n1) @@ (p2 :> n2) @@ (p3 :> n3) @@ (q1 :> 0) @@ (q2 :> 0),
     strays |-> strays, others |-> 0]

\* One process: contended locking; waiters that signals or broadcasts of a third
\* thread wake; a race of everyone for one once control; sleepers that are polled
\* once more; room for one address only.  Two processes that lock mutexes at the
\* same address.
Loads ==
    { Calls({"Lock", "TryLock"}, 2, 2, 2, 0),
      Calls({"Lock", "CondWait", "Signal"}, 2, 2, 1, 0),
      Calls({"Lock", "CondWait", "Signal"}, 2, 1, 1, 1),
      Calls({"Lock", "CondWait", "Broadcast"}, 2, 2, 1, 0),
      Calls({"Lock", "CondWait", "Broadcast"}, 2, 1, 1, 1),
      Calls({"Lock"}, 1, 1, 1, 2),
      Calls({"Once"}, 2, 2, 2, 1),
      [Calls({"Lock", "CondWait", "Broadcast"}, 2, 1, 1, 0) EXCEPT !.others = 2],
      [Calls({"Lock"}, 1, 1, 0, 0) EXCEPT !.left[q1] = 1, !.left[q2] = 1] }
=============================================================================
