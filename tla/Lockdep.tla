------------------------------- MODULE Lockdep -------------------------------
(***************************************************************************)
(* The lock dependency tracker (kernel/core/src/sync/lockdep.rs) in its       *)
(* warning-only build, with the locks that call it.  Every CPU runs base code *)
(* and, unless an IrqSpinLock masks it, an interrupt handler that takes       *)
(* IrqSpinLocks.  The graph lock is a raw spin lock that masks nothing.       *)
(***************************************************************************)
EXTENDS Naturals, Sequences, FiniteSets

CONSTANTS
    LdCpus,
    PlainKeys,     \* SpinLocks, by address
    IrqKeys,       \* IrqSpinLocks, by address
    MAX_CLASSES,
    MAX_HELD,
    LdRounds       \* bound: acquisitions of each context

VARIABLES
    ldClasses,     \* CLASSES[0 .. CLASS_COUNT), by key
    ldEdges,       \* GRAPH
    ldReports,     \* the violations reported
    ldUsage,       \* irq_usage of each class
    ldHeld,        \* HELD: the stack of classes of each CPU
    ldIn,          \* CPUs with IN_LOCKDEP set
    ldGraph,       \* the context that holds GRAPH_LOCK
    ldOwner,       \* the context that holds each lock
    ldGuards,      \* the guards of each context: key and class
    ldPc,          \* where each context is, with its locals
    ldIrq,         \* CPUs that run an interrupt handler
    ldLeft

ldVars == <<ldClasses, ldEdges, ldReports, ldUsage, ldHeld, ldIn, ldGraph, ldOwner,
            ldGuards, ldPc, ldIrq, ldLeft>>

Keys == PlainKeys \cup IrqKeys
NONE == 0                       \* LockClassId::NONE; classes count from 1 here
Contexts == LdCpus \X {"base", "irq"}
Nobody == <<0, "none">>
Idle == [at |-> "idle", key |-> 0, class |-> NONE, i |-> 0]

\* The order the locks should be taken in: Level(k), 0 for the locks without one.
Level(k) == IF k \in PlainKeys THEN k ELSE 0

Init ==
    /\ ldClasses = << >> /\ ldEdges = {} /\ ldReports = {}
    /\ ldUsage = [n \in 1 .. MAX_CLASSES |-> {}]
    /\ ldHeld = [c \in LdCpus |-> << >>]
    /\ ldIn = {} /\ ldGraph = Nobody
    /\ ldOwner = [k \in Keys |-> Nobody]
    /\ ldGuards = [x \in Contexts |-> << >>]
    /\ ldPc = [x \in Contexts |-> Idle]
    /\ ldIrq = {}
    /\ ldLeft = [x \in Contexts |-> LdRounds[x]]

Runs(x) == x[2] = (IF x[1] \in ldIrq THEN "irq" ELSE "base")
At(x, label) == Runs(x) /\ ldPc[x].at = label
ClassOf(k) == CHOOSE n \in 1 .. Len(ldClasses) : ldClasses[n] = k
Known(k) == \E n \in 1 .. Len(ldClasses) : ldClasses[n] = k
Holds(x, k) == \E n \in 1 .. Len(ldGuards[x]) : ldGuards[x][n].key = k

\* in_irq_context(): an IrqSpinLock is held on the CPU, or being accounted.
InIrqContext(c) ==
    \E x \in Contexts, k \in IrqKeys : x[1] = c /\ (Holds(x, k) \/ ldPc[x].key = k)

\* The lock's own compare-exchange; the hooks follow.
TakeLock(x, k) ==
    /\ At(x, "idle") /\ ldLeft[x] > 0
    /\ x[2] = "irq" => k \in IrqKeys
    /\ ldOwner[k] = Nobody
    /\ ldOwner' = [ldOwner EXCEPT ![k] = x]
    /\ ldLeft' = [ldLeft EXCEPT ![x] = @ - 1]
    /\ ldPc' = [ldPc EXCEPT ![x] = [Idle EXCEPT !.at = "lookup", !.key = k]]
    /\ UNCHANGED <<ldClasses, ldEdges, ldReports, ldUsage, ldHeld, ldIn, ldGraph, ldGuards, ldIrq>>

\* get_or_register_full, fast path.
Lookup(x) ==
    /\ At(x, "lookup")
    /\ IF Known(ldPc[x].key)
         THEN ldPc' = [ldPc EXCEPT ![x].at = "hook", ![x].class = ClassOf(ldPc[x].key)]
         ELSE ldPc' = [ldPc EXCEPT ![x].at = "graph"]
    /\ UNCHANGED <<ldClasses, ldEdges, ldReports, ldUsage, ldHeld, ldIn, ldGraph, ldOwner,
                   ldGuards, ldIrq, ldLeft>>

\* acquire_graph_lock, for a registration or for an edge.
AcquireGraphLock(x) ==
    /\ (At(x, "graph") \/ At(x, "edge_graph")) /\ ldGraph = Nobody
    /\ ldGraph' = x
    /\ ldPc' = [ldPc EXCEPT ![x].at = IF @ = "graph" THEN "register" ELSE "set_edge"]
    /\ UNCHANGED <<ldClasses, ldEdges, ldReports, ldUsage, ldHeld, ldIn, ldOwner, ldGuards,
                   ldIrq, ldLeft>>

\* get_or_register_full, slow path: look again, refuse when full, append.
Register(x) ==
    LET k == ldPc[x].key
        full == Len(ldClasses) >= MAX_CLASSES IN
    /\ At(x, "register")
    /\ ldClasses' = IF Known(k) \/ full THEN ldClasses ELSE Append(ldClasses, k)
    /\ ldPc' = [ldPc EXCEPT ![x].at = "hook",
                            ![x].class = CASE Known(k) -> ClassOf(k)
                                           [] ~Known(k) /\ full -> NONE
                                           [] OTHER -> Len(ldClasses) + 1]
    /\ ldGraph' = Nobody
    /\ UNCHANGED <<ldEdges, ldReports, ldUsage, ldHeld, ldIn, ldOwner, ldGuards, ldIrq, ldLeft>>

\* The guard is built and the call returns.
Return(x) ==
    /\ ldGuards' = [ldGuards EXCEPT ![x] = Append(@, [key |-> ldPc[x].key, class |-> ldPc[x].class])]
    /\ ldPc' = [ldPc EXCEPT ![x] = Idle]

\* Levels of held locks above the new one's.
Inverts(c, n) ==
    \E i \in 1 .. Len(ldHeld[c]) :
        /\ Level(ldClasses[n]) > 0 /\ ldHeld[c][i] # n
        /\ Level(ldClasses[ldHeld[c][i]]) > Level(ldClasses[n])

\* (mutant) no reentrancy guard
LockAcquiredReentrant(x) ==
    /\ At(x, "hook")
    /\ IF ldPc[x].class = NONE
         THEN Return(x) /\ UNCHANGED ldIn
         ELSE /\ ldIn' = ldIn \cup {x[1]}
              /\ ldPc' = [ldPc EXCEPT ![x].at = "edge", ![x].i = 1]
              /\ UNCHANGED ldGuards
    /\ UNCHANGED <<ldClasses, ldEdges, ldReports, ldUsage, ldHeld, ldGraph, ldOwner, ldIrq, ldLeft>>

\* lock_acquired: the reentrancy guard, the usage and level checks.
LockAcquired(x) ==
    LET n == ldPc[x].class
        irq == InIrqContext(x[1]) IN
    /\ At(x, "hook")
    /\ IF n = NONE \/ x[1] \in ldIn
         THEN Return(x) /\ UNCHANGED <<ldIn, ldUsage, ldReports>>
         ELSE /\ ldIn' = ldIn \cup {x[1]}
              /\ ldUsage' = [ldUsage EXCEPT ![n] = @ \cup {irq}]
              /\ ldReports' = ldReports
                    \cup (IF irq /\ FALSE \in ldUsage[n] /\ ldClasses[n] \in PlainKeys
                            THEN {<<"irq", n>>} ELSE {})
                    \cup (IF Inverts(x[1], n) THEN {<<"level", n>>} ELSE {})
              /\ ldPc' = [ldPc EXCEPT ![x].at = "edge", ![x].i = 1]
              /\ UNCHANGED ldGuards
    /\ UNCHANGED <<ldClasses, ldEdges, ldHeld, ldGraph, ldOwner, ldIrq, ldLeft>>

Push(stack, n) == IF Len(stack) < MAX_HELD THEN Append(stack, n) ELSE stack

\* The loop over the held locks: the unlocked test for the edge, or the end.
NextEdge(x) ==
    LET c == x[1]  n == ldPc[x].class  i == ldPc[x].i IN
    /\ At(x, "edge")
    /\ IF i > Len(ldHeld[c])
         THEN /\ ldHeld' = [ldHeld EXCEPT ![c] = Push(@, n)]
              /\ ldIn' = ldIn \ {c}
              /\ Return(x)
         ELSE /\ ldPc' = [ldPc EXCEPT ![x] =
                    IF ldHeld[c][i] = n \/ <<ldHeld[c][i], n>> \in ldEdges
                      THEN [@ EXCEPT !.i = @ + 1]
                      ELSE [@ EXCEPT !.at = "edge_graph"]]
              /\ UNCHANGED <<ldHeld, ldIn, ldGuards>>
    /\ UNCHANGED <<ldClasses, ldEdges, ldReports, ldUsage, ldGraph, ldOwner, ldIrq, ldLeft>>

\* has_path: the depth-first search with its fixed stack of MAX_CLASSES entries.
RECURSIVE PushAll(_, _, _)
PushAll(stack, seen, neighbours) ==
    IF neighbours = {} THEN stack
    ELSE LET m == CHOOSE m \in neighbours : \A o \in neighbours : m <= o
             next == IF m \notin seen /\ Len(stack) < MAX_CLASSES THEN Append(stack, m) ELSE stack
         IN PushAll(next, seen, neighbours \ {m})

RECURSIVE Search(_, _, _, _)
Search(edges, dst, stack, seen) ==
    IF stack = << >> THEN FALSE
    ELSE LET node == stack[Len(stack)]
             rest == SubSeq(stack, 1, Len(stack) - 1)
         IN CASE node = dst -> TRUE
              [] node # dst /\ node \in seen -> Search(edges, dst, rest, seen)
              [] OTHER ->
                   LET now == seen \cup {node}
                       out == { m \in 1 .. Len(ldClasses) : <<node, m>> \in edges }
                   IN Search(edges, dst, PushAll(rest, now, out), now)

\* (mutant) only a direct edge back is looked for
HasEdgeBack(edges, src, dst) == <<src, dst>> \in edges

HasPath(edges, src, dst) == Search(edges, dst, <<src>>, {})

\* (mutant) the search runs without the edge another CPU has just added
SetEdgeUnchecked(x) ==
    /\ At(x, "set_edge")
    /\ ldGraph' = Nobody
    /\ ldEdges' = ldEdges \cup {<<ldHeld[x[1]][ldPc[x].i], ldPc[x].class>>}
    /\ ldPc' = [ldPc EXCEPT ![x].at = "edge", ![x].i = @ + 1]
    /\ UNCHANGED <<ldClasses, ldReports, ldUsage, ldHeld, ldIn, ldOwner, ldGuards, ldIrq, ldLeft>>

\* Under the graph lock: the edge, its cycle check and, on a cycle, the early return.
SetEdge(x) ==
    LET c == x[1]  n == ldPc[x].class  h == ldHeld[c][ldPc[x].i]
        edges == ldEdges \cup {<<h, n>>} IN
    /\ At(x, "set_edge")
    /\ ldGraph' = Nobody
    /\ ldEdges' = edges
    /\ IF <<h, n>> \notin ldEdges /\ HasPath(edges, n, h)
         THEN /\ ldReports' = ldReports \cup {<<"cycle", n>>}
              /\ ldHeld' = [ldHeld EXCEPT ![c] = Push(@, n)]
              /\ ldIn' = ldIn \ {c}
              /\ Return(x)
         ELSE /\ ldPc' = [ldPc EXCEPT ![x].at = "edge", ![x].i = @ + 1]
              /\ UNCHANGED <<ldReports, ldHeld, ldIn, ldGuards>>
    /\ UNCHANGED <<ldClasses, ldUsage, ldOwner, ldIrq, ldLeft>>

\* A guard's drop: the lock is free before the hook runs.
DropGuard(x, i) ==
    /\ At(x, "idle") /\ i \in 1 .. Len(ldGuards[x])
    /\ ldOwner' = [ldOwner EXCEPT ![ldGuards[x][i].key] = Nobody]
    /\ ldPc' = [ldPc EXCEPT ![x] = [at |-> "unhook", key |-> ldGuards[x][i].key,
                                    class |-> ldGuards[x][i].class, i |-> 0]]
    /\ ldGuards' = [ldGuards EXCEPT ![x] = SubSeq(@, 1, i - 1) \o SubSeq(@, i + 1, Len(@))]
    /\ UNCHANGED <<ldClasses, ldEdges, ldReports, ldUsage, ldHeld, ldIn, ldGraph, ldIrq, ldLeft>>

\* (mutant) pop takes the top entry
PopTop(stack, n) == SubSeq(stack, 1, Len(stack) - 1)

\* HeldLocks::pop: the topmost entry of the class, wherever it is.
Pop(stack, n) ==
    LET at == { i \in 1 .. Len(stack) : stack[i] = n } IN
    IF at = {} THEN stack
    ELSE LET i == CHOOSE i \in at : \A j \in at : j <= i
         IN SubSeq(stack, 1, i - 1) \o SubSeq(stack, i + 1, Len(stack))

\* lock_released.
LockReleased(x) ==
    /\ At(x, "unhook")
    /\ ldHeld' = IF ldPc[x].class = NONE \/ x[1] \in ldIn THEN ldHeld
                 ELSE [ldHeld EXCEPT ![x[1]] = Pop(@, ldPc[x].class)]
    /\ ldPc' = [ldPc EXCEPT ![x] = Idle]
    /\ UNCHANGED <<ldClasses, ldEdges, ldReports, ldUsage, ldIn, ldGraph, ldOwner, ldGuards,
                   ldIrq, ldLeft>>

\* An interrupt, while no IrqSpinLock of the base code masks it.
Interrupt(c) ==
    /\ c \notin ldIrq /\ ~InIrqContext(c) /\ ldLeft[<<c, "irq">>] > 0
    /\ ldIrq' = ldIrq \cup {c}
    /\ UNCHANGED <<ldClasses, ldEdges, ldReports, ldUsage, ldHeld, ldIn, ldGraph, ldOwner,
                   ldGuards, ldPc, ldLeft>>

\* The handler returns, its guards dropped.
Iret(c) ==
    /\ c \in ldIrq /\ ldPc[<<c, "irq">>] = Idle /\ ldGuards[<<c, "irq">>] = << >>
    /\ ldIrq' = ldIrq \ {c}
    /\ UNCHANGED <<ldClasses, ldEdges, ldReports, ldUsage, ldHeld, ldIn, ldGraph, ldOwner,
                   ldGuards, ldPc, ldLeft>>

Next ==
    \/ \E x \in Contexts, k \in Keys : TakeLock(x, k)
    \/ \E x \in Contexts, i \in 1 .. Cardinality(Keys) : DropGuard(x, i)
    \/ \E x \in Contexts :
         \/ Lookup(x) \/ AcquireGraphLock(x) \/ Register(x) \/ LockAcquired(x)
         \/ NextEdge(x) \/ SetEdge(x) \/ LockReleased(x)
    \/ \E c \in LdCpus : Interrupt(c) \/ Iret(c)

Spec == Init /\ [][Next]_ldVars

-----------------------------------------------------------------------------

\* The pairs of classes connected in the graph, by repeated squaring.
Closure ==
    LET N == 1 .. Len(ldClasses)
        Step(R) == R \cup { p \in N \X N : \E m \in N : <<p[1], m>> \in R /\ <<m, p[2]>> \in R }
    IN Step(Step(ldEdges))

\* Every lock order inversion is reported: the graph, which edges of several CPUs
\* and handlers enter at once, has a cycle only after a cycle report, and an edge
\* against the levels only after a level report (when no hook is under way).
InversionsReported ==
    (ldGraph = Nobody) =>
        /\ (\E n \in 1 .. Len(ldClasses) : <<n, n>> \in Closure) =>
              \E r \in ldReports : r[1] = "cycle"
        /\ (\E e \in ldEdges : 0 < Level(ldClasses[e[2]])
                               /\ Level(ldClasses[e[2]]) < Level(ldClasses[e[1]])) =>
              \E r \in ldReports : r[1] = "level"

\* Between calls, a CPU's held stack lists the classes of the locks its base code
\* holds, in order, up to MAX_HELD: whatever handlers did inside its hooks, and
\* whatever the order of the drops.
HeldStackFaithful ==
    \A c \in LdCpus :
        LET g == SelectSeq(ldGuards[<<c, "base">>], LAMBDA e : e.class # NONE)
        IN (c \notin ldIrq /\ ldPc[<<c, "base">>] = Idle /\ Len(g) <= MAX_HELD)
             => ldHeld[c] = [i \in 1 .. Len(g) |-> g[i].class]

\* The reentrancy guard keeps handlers out of the hook they interrupted: none
\* waits for the graph lock while its own CPU's base code holds it to add an edge.
\* (A registration is outside the guard: a handler can wait for ever for that.)
EdgesNotReentered ==
    \A c \in LdCpus :
        ldPc[<<c, "irq">>].at = "edge_graph" /\ ldGraph = <<c, "base">> =>
            ldPc[<<c, "base">>].at = "register"
=============================================================================
