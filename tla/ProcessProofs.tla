--------------------------- MODULE ProcessProofs ---------------------------
(***************************************************************************)
(* Proofs about processes: the tree of parents and children, reaping, the    *)
(* wake-up of a parent that waits, and SIGKILL, for any number of processes, *)
(* any signals and any workload.                                             *)
(***************************************************************************)
EXTENDS Process, WellFoundedInduction, TLAPS

-----------------------------------------------------------------------------
(* The inductive invariant *)

\* The places of a task outside handle_wait, inside it, and after its exit.
Live == {"start", "user", "check", "yielded", "blocked"}
InWait == {"looking", "asleep", "reap"}
Gone == {"dying", "dead"}
Phases == {"none", "once", "scan", "register", "recheck", "asleep"}

Looks == [phase : Phases, of : Seq(Pids), rest : Seq(Pids), nohang : BOOLEAN]

\* The types of what the invariant speaks of.
Typed ==
    /\ next \in 2 .. MaxPid + 1
    /\ table \subseteq Pids
    /\ parent \in [Pids -> Nat]
    /\ children \in [Pids -> Seq(Pids)]
    /\ notify \in [Pids -> SUBSET Pids]
    /\ pending \in [Pids -> SUBSET Signals]
    /\ pc \in [Pids -> Live \cup InWait \cup Gone \cup {"unborn"}]
    /\ look \in [Pids -> Looks]
    /\ DOMAIN status = Pids

\* Numbers are given out in order, a process is in the table from its birth until
\* it is reaped, which it can only be once it has exited.
Births ==
    /\ \A p \in Pids : pc[p] = "unborn" <=> p >= next
    /\ \A p \in Pids : p >= next => children[p] = << >>
    /\ \A p \in table : p < next /\ parent[p] < next
    /\ \A p \in Pids : pc[p] \in Live \cup InWait => p \in table

\* A status is set exactly when the task leaves its loop.
Statuses ==
    \A p \in Pids : \/ pc[p] \notin Gone /\ status[p] = << >>
                    \/ pc[p] \in Gone /\ \E code : status[p] = <<code>>

\* A process in task_wait looks at children of its own that nobody else can reap.
OwnChildren(p) ==
    pc[p] \in InWait =>
        /\ \A c \in Range(look[p].of) : c \in table /\ parent[c] = p
        /\ Range(look[p].rest) \subseteq Range(look[p].of)
        /\ pc[p] = "looking" => look[p].phase \in {"once", "scan", "register", "recheck"}
        /\ pc[p] = "reap" => look[p].rest # << >> /\ pc[Head(look[p].rest)] \in Gone

\* c's exit_notify holds p's waker, or c has called wake_all already; c's exit is
\* still to wake p, or p is due to be polled; the children passed in this pass.
Told(p, c) == p \in notify[c] \/ pc[c] = "dead"
WillTell(p, c) == (p \in notify[c] /\ pc[c] # "dead") \/ p \in ready
Seen(p) == Range(look[p].of) \ Range(look[p].rest)

\* Where handle_wait is decides what it may rely on: what it has passed in the
\* registering pass holds its waker unless it exited before; what it has passed in
\* the second look had not exited then, so that its exit wakes the task.
Watch(p) ==
    /\ pc[p] = "looking" /\ look[p].phase = "register" => \A c \in Seen(p) : Told(p, c)
    /\ pc[p] = "looking" /\ look[p].phase = "recheck" =>
          /\ \A c \in Range(look[p].of) : Told(p, c)
          /\ \A c \in Seen(p) : WillTell(p, c)
    /\ pc[p] = "asleep" => \A c \in Range(look[p].of) : WillTell(p, c)

\* The inductive invariant.
IInv ==
    /\ Typed /\ Births /\ Statuses
    /\ \A p \in Pids : OwnChildren(p) /\ Watch(p)
    /\ TreeConsistent /\ ReapedByParent
    /\ \A x \in collected : x[2] \in Pids /\ x[2] < next

-----------------------------------------------------------------------------
(* Retain *)

\* Induction over the numbers, for a set of them.
LEMMA Induction ==
    ASSUME NEW S, 0 \in S, \A n \in Nat : n \in S => n + 1 \in S
    PROVE  Nat \subseteq S
<1> SUFFICES ASSUME ~(Nat \subseteq S) PROVE FALSE
      BY Zenon
<1> DEFINE B == Nat \ S
           R == {p \in Nat \X Nat : p[1] < p[2]}
<1>1. IsWellFoundedOn(R, Nat)
      BY NatLessThanWellFounded, Zenon DEF OpToRel
<1>2. B \in SUBSET Nat /\ B # {}
      BY Zenon
<1>3. \A a, b \in Nat : <<a, b>> \in R <=> a < b
      BY Zenon
<1> HIDE DEF R
<1>4. PICK x \in B : \A y \in B : ~(<<y, x>> \in R)
      BY <1>1, <1>2, WFMin, Zenon
<1>5. x \in Nat /\ x # 0 /\ x \notin S
      BY Zenon
<1>6. x - 1 \in Nat /\ x - 1 < x /\ (x - 1) + 1 = x
      BY <1>5
<1>7. x - 1 \in B
      BY <1>5, <1>6, Zenon
<1> QED
      BY <1>3, <1>4, <1>5, <1>6, <1>7, Zenon

\* f holds what retain has kept after each of the first m entries.
KeptFrom(s, c, f, m) ==
    f = [n \in 0 .. m |-> IF n = 0 THEN << >>
                          ELSE IF s[n] = c THEN f[n - 1] ELSE Append(f[n - 1], s[n])]

\* There is such an f: the recursive definition of Retain defines something.
LEMMA KeptExists ==
    ASSUME NEW S, NEW s \in Seq(S), NEW c
    PROVE  \E f : KeptFrom(s, c, f, Len(s))
<1> DEFINE N == {m \in Nat : \E f : KeptFrom(s, c, f, m)}
<1>1. 0 \in N
  <2> DEFINE f == [n \in 0 .. 0 |-> << >>]
  <2>1. KeptFrom(s, c, f, 0)
        BY DEF KeptFrom
  <2> QED
        BY <2>1, Zenon
<1>2. ASSUME NEW m \in Nat, m \in N PROVE m + 1 \in N
  <2>1. PICK f : KeptFrom(s, c, f, m)
        BY <1>2, Zenon
  <2> DEFINE v == IF s[m + 1] = c THEN f[m] ELSE Append(f[m], s[m + 1])
             g == [n \in 0 .. m + 1 |-> IF n = m + 1 THEN v ELSE f[n]]
             h == [n \in 0 .. m + 1 |-> IF n = 0 THEN << >>
                          ELSE IF s[n] = c THEN g[n - 1] ELSE Append(g[n - 1], s[n])]
  <2>2. \A n \in 0 .. m : f[n] = IF n = 0 THEN << >>
                          ELSE IF s[n] = c THEN f[n - 1] ELSE Append(f[n - 1], s[n])
        BY <2>1, Zenon DEF KeptFrom
  <2>3. \A n \in 0 .. m : g[n] = f[n]
        OBVIOUS
  <2>4. \A n \in 1 .. m + 1 : n - 1 \in 0 .. m
        OBVIOUS
  <2>5. ASSUME NEW n \in 0 .. m + 1 PROVE g[n] = h[n]
    <3>1. CASE n = m + 1
          BY <3>1, <2>3, <2>4
    <3>2. CASE n = 0
          BY <3>2, <2>2, <2>3
    <3>3. CASE n \in 1 .. m
          BY <3>3, <2>2, <2>3, <2>4
    <3> QED
          BY <3>1, <3>2, <3>3
  <2>6. g = h
        BY <2>5, Zenon
  <2>7. KeptFrom(s, c, g, m + 1)
        BY <2>6, Zenon DEF KeptFrom
  <2> QED
        BY <2>7
<1>3. Nat \subseteq N
  <2> HIDE DEF N
  <2> QED
        BY <1>1, <1>2, Induction, Zenon
<1> QED
      BY <1>3

\* Retain is what is kept after the last entry.
LEMMA RetainIs ==
    ASSUME NEW S, NEW s \in Seq(S), NEW c
    PROVE  \E f : KeptFrom(s, c, f, Len(s)) /\ Retain(s, c) = f[Len(s)]
<1> DEFINE k == CHOOSE f : KeptFrom(s, c, f, Len(s))
<1>1. KeptFrom(s, c, k, Len(s))
      BY KeptExists, Zenon
<1>2. Retain(s, c) = k[Len(s)]
      BY Zenon DEF Retain, KeptFrom
<1> QED
      BY <1>1, <1>2, Zenon

\* Append adds one entry, and no repetition when that is new.
LEMMA AppendFacts ==
    ASSUME NEW S, NEW a \in Seq(S), NEW x \in S
    PROVE  /\ Append(a, x) \in Seq(S) /\ Range(Append(a, x)) = Range(a) \cup {x}
           /\ IsInjective(a) /\ x \notin Range(a) => IsInjective(Append(a, x))
<1> DEFINE b == Append(a, x)
<1>1. b \in Seq(S) /\ Len(b) = Len(a) + 1 /\ b[Len(a) + 1] = x
      /\ \A i \in 1 .. Len(a) : b[i] = a[i]
      OBVIOUS
<1>2. DOMAIN b = DOMAIN a \cup {Len(a) + 1} /\ DOMAIN a = 1 .. Len(a) /\ Len(a) \in Nat
  <2>1. DOMAIN b = 1 .. Len(b) /\ DOMAIN a = 1 .. Len(a) /\ Len(a) \in Nat
        BY <1>1
  <2> QED
        BY <1>1, <2>1
<1> HIDE DEF b
<1>3. Range(b) = Range(a) \cup {x}
  <2>1. \A y : y \in Range(b) <=> \E i \in DOMAIN b : y = b[i]
        BY Zenon DEF Range
  <2>2. \A y : y \in Range(a) <=> \E i \in DOMAIN a : y = a[i]
        BY Zenon DEF Range
  <2> QED
        BY <1>1, <1>2, <2>1, <2>2
<1>4. ASSUME IsInjective(a), x \notin Range(a) PROVE IsInjective(b)
  <2> SUFFICES ASSUME NEW i \in DOMAIN b, NEW j \in DOMAIN b, b[i] = b[j] PROVE i = j
        BY Zenon DEF IsInjective
  <2>1. \A k \in DOMAIN a : a[k] \in Range(a)
        BY Zenon DEF Range
  <2>2. \A k, l \in DOMAIN a : a[k] = a[l] => k = l
        BY <1>4, Zenon DEF IsInjective
  <2> QED
        BY <1>1, <1>2, <1>4, <2>1, <2>2, Zenon
<1> QED
      BY <1>1, <1>3, <1>4, Zenon DEF b

\* What retain leaves: the other entries, and no new repetitions.
LEMMA RetainFacts ==
    ASSUME NEW S, NEW s \in Seq(S), NEW c
    PROVE  /\ Retain(s, c) \in Seq(S)
           /\ Range(Retain(s, c)) = Range(s) \ {c}
           /\ IsInjective(s) => IsInjective(Retain(s, c))
<1>1. PICK f : KeptFrom(s, c, f, Len(s)) /\ Retain(s, c) = f[Len(s)]
      BY RetainIs, Zenon
<1> DEFINE L == Len(s)
           Kept(n) == /\ f[n] \in Seq(S)
                      /\ Range(f[n]) = {s[i] : i \in 1 .. n} \ {c}
                      /\ IsInjective(s) => IsInjective(f[n])
           N == {n \in Nat : n <= L => Kept(n)}
<1>2. \A n \in 0 .. L : f[n] = IF n = 0 THEN << >>
                          ELSE IF s[n] = c THEN f[n - 1] ELSE Append(f[n - 1], s[n])
      BY <1>1, Zenon DEF KeptFrom
<1>3. L \in Nat
      OBVIOUS
<1>4. 0 \in N
  <2>1. f[0] = << >>
        BY <1>2, <1>3
  <2>2. Range(<< >>) = {} /\ IsInjective(<< >>) /\ << >> \in Seq(S)
        BY DEF Range, IsInjective
  <2>3. {s[i] : i \in 1 .. 0} = {}
        OBVIOUS
  <2> QED
        BY <2>1, <2>2, <2>3, Zenon
<1>5. ASSUME NEW n \in Nat, n \in N PROVE n + 1 \in N
  <2> SUFFICES ASSUME n + 1 <= L PROVE Kept(n + 1)
        OBVIOUS
  <2> DEFINE x == s[n + 1]
  <2>1. n + 1 \in 0 .. L /\ n + 1 # 0 /\ (n + 1) - 1 = n /\ n <= L /\ n + 1 \in 1 .. L
        BY <1>3
  <2>2. Kept(n)
        BY <1>5, <2>1, Zenon
  <2>3. f[n + 1] = IF x = c THEN f[n] ELSE Append(f[n], x)
        BY <1>2, <2>1, Zenon
  <2>4. x \in S
        BY <2>1
  <2>5. {s[i] : i \in 1 .. n + 1} = {s[i] : i \in 1 .. n} \cup {x}
    <3>1. 1 .. n + 1 = (1 .. n) \cup {n + 1}
          OBVIOUS
    <3> QED
          BY <3>1, Zenon
  <2>6. IsInjective(s) => x \notin {s[i] : i \in 1 .. n}
    <3>1. \A i \in 1 .. n : i \in DOMAIN s /\ n + 1 \in DOMAIN s /\ i # n + 1
          BY <2>1
    <3> QED
          BY <3>1, Zenon DEF IsInjective
  <2>7. CASE x = c
        BY <2>2, <2>3, <2>5, <2>7, Zenon
  <2>8. CASE x # c
    <3> DEFINE a == f[n]
               b == Append(a, x)
    <3>1. a \in Seq(S) /\ f[n + 1] = b
          BY <2>2, <2>3, <2>8, Zenon
    <3> HIDE DEF a
    <3>2. /\ b \in Seq(S) /\ Range(b) = Range(a) \cup {x}
          /\ IsInjective(a) /\ x \notin Range(a) => IsInjective(b)
          BY <2>4, <3>1, AppendFacts, Zenon
    <3> HIDE DEF b, x
    <3>5. Range(b) = {s[i] : i \in 1 .. n + 1} \ {c}
      <4>1. Range(a) = {s[i] : i \in 1 .. n} \ {c}
            BY <2>2, Zenon DEF a
      <4> QED
            BY <2>5, <2>8, <3>2, <4>1, Zenon
    <3>6. IsInjective(s) => IsInjective(b)
          BY <2>2, <2>6, <3>2, Zenon DEF a
    <3> QED
          BY <3>1, <3>2, <3>5, <3>6, Zenon
  <2> QED
        BY <2>7, <2>8, Zenon
<1>6. Kept(L)
  <2>1. Nat \subseteq N
    <3> HIDE DEF N
    <3> QED
          BY <1>4, <1>5, Induction, Zenon
  <2>2. L \in N
    <3> HIDE DEF N
    <3> QED
          BY <2>1, <1>3, Zenon
  <2>3. L <= L
        BY <1>3
  <2> HIDE DEF Kept, L
  <2> QED
        BY <2>2, <2>3, Zenon
<1>7. Range(s) = {s[i] : i \in 1 .. L}
      BY DEF Range
<1> QED
      BY <1>1, <1>6, <1>7, Zenon

-----------------------------------------------------------------------------
(* The steps *)

USE ProcessAssumption

\* A list that is not empty is its head and the rest.
LEMMA HeadAndTail ==
    ASSUME NEW S, NEW s \in Seq(S), s # << >>
    PROVE  /\ Head(s) \in S /\ Tail(s) \in Seq(S)
           /\ Range(s) = {Head(s)} \cup Range(Tail(s))
<1>1. Len(s) \in Nat /\ Len(s) >= 1 /\ DOMAIN s = 1 .. Len(s) /\ 1 \in DOMAIN s /\ Head(s) = s[1]
      OBVIOUS
<1>2. /\ Tail(s) \in Seq(S) /\ DOMAIN Tail(s) = 1 .. Len(s) - 1
      /\ \A i \in 1 .. Len(s) - 1 : Tail(s)[i] = s[i + 1]
      OBVIOUS
<1>3. Head(s) \in Range(s) /\ Head(s) \in S
      BY <1>1 DEF Range
<1>4. Range(Tail(s)) \subseteq Range(s)
  <2>1. \A i \in 1 .. Len(s) - 1 : i + 1 \in 1 .. Len(s)
        BY <1>1
  <2> QED
        BY <1>1, <1>2, <2>1, Zenon DEF Range
<1>5. ASSUME NEW i \in DOMAIN s PROVE s[i] = Head(s) \/ s[i] \in Range(Tail(s))
  <2>1. CASE i = 1
        BY <1>1, <2>1, Zenon
  <2>2. CASE i # 1
    <3>1. i - 1 \in 1 .. Len(s) - 1 /\ (i - 1) + 1 = i
          BY <1>1, <2>2
    <3> QED
          BY <1>2, <3>1, Zenon DEF Range
  <2> QED
        BY <2>1, <2>2, Zenon
<1>6. Range(s) \subseteq {Head(s)} \cup Range(Tail(s))
      BY <1>5, Zenon DEF Range
<1> QED
      BY <1>2, <1>3, <1>4, <1>6, Zenon

\* What a process waits for, and has yet to look at, are processes.
LEMMA LookTypes ==
    ASSUME Typed, NEW q \in Pids
    PROVE  /\ look[q].of \in Seq(Pids) /\ look[q].rest \in Seq(Pids)
           /\ Range(look[q].of) \subseteq Pids /\ Range(look[q].rest) \subseteq Pids
           /\ Seen(q) \subseteq Pids
           /\ look[q].rest # << >> => Head(look[q].rest) \in Pids
<1>1. look[q].of \in Seq(Pids) /\ look[q].rest \in Seq(Pids)
      BY Zenon DEF Typed, Looks
<1>2. Range(look[q].of) \subseteq Pids /\ Range(look[q].rest) \subseteq Pids
      BY <1>1 DEF Range
<1> QED
      BY <1>1, <1>2, HeadAndTail, Zenon DEF Seen

\* Only init exists at first.
LEMMA InitHolds == Init => IInv
<1> SUFFICES ASSUME Init PROVE IInv
      BY Zenon
<1> USE DEF Init
<1>1. Typed
      BY DEF Pids, Typed, Live, InWait, Gone, Phases, Looks, NoLook
<1>2. Births
  <2>1. \A p \in Pids : pc[p] = "unborn" <=> p >= next
        BY DEF Pids
  <2>2. \A p \in Pids : pc[p] \in Live \cup InWait => p \in table
        BY Zenon DEF Live, InWait
  <2>3. 1 \in Pids
        BY DEF Pids
  <2> QED
        BY <2>1, <2>2, <2>3 DEF Births
<1>3. Statuses
      BY Zenon DEF Statuses, Gone
<1>4. \A p \in Pids : OwnChildren(p) /\ Watch(p)
      BY Zenon DEF OwnChildren, Watch, InWait
<1>5. TreeConsistent
  <2>1. Range(<< >>) = {} /\ IsInjective(<< >>)
        BY DEF Range, IsInjective
  <2> QED
        BY <2>1 DEF TreeConsistent, Pids
<1>6. ReapedByParent
      BY DEF ReapedByParent
<1> QED
      BY <1>1, <1>2, <1>3, <1>4, <1>5, <1>6, Zenon DEF IInv

\* A process keeps its place in handle_wait when others do not reap its children.
LEMMA OwnKept ==
    ASSUME IInv, NEW q \in Pids, pc'[q] \in InWait => pc'[q] = pc[q] /\ look'[q] = look[q],
           \A c \in table : parent[c] = q => c \in table' /\ parent'[c] = q,
           \A c \in Pids : pc[c] \in Gone => pc'[c] \in Gone
    PROVE  OwnChildren(q)'
<1> SUFFICES ASSUME pc'[q] \in InWait PROVE OwnChildren(q)'
      BY Zenon DEF OwnChildren
<1>1. OwnChildren(q) /\ pc'[q] = pc[q] /\ look'[q] = look[q]
      BY Zenon DEF IInv
<1>2. look[q].rest # << >> => Head(look[q].rest) \in Pids
      BY LookTypes, Zenon DEF IInv
<1> QED
      BY <1>1, <1>2, Zenon DEF OwnChildren

\* What a process relies on in handle_wait is kept when its wakers are.
LEMMA WatchKept ==
    ASSUME IInv, NEW q \in Pids, pc'[q] \in InWait => pc'[q] = pc[q] /\ look'[q] = look[q],
           \A c \in Pids : Told(q, c) => Told(q, c)',
           \A c \in Pids : pc[q] \in InWait /\ WillTell(q, c) => WillTell(q, c)'
    PROVE  Watch(q)'
<1>1. Watch(q) /\ Range(look[q].of) \subseteq Pids /\ Seen(q) \subseteq Pids
      BY LookTypes, Zenon DEF IInv
<1>2. look'[q] = look[q] => Seen(q)' = Seen(q)
      BY Zenon DEF Seen
<1>3. ASSUME pc'[q] = "looking", look'[q].phase = "register", NEW c \in Seen(q)'
      PROVE  Told(q, c)'
      BY <1>1, <1>2, <1>3, Zenon DEF Watch, InWait
<1>4. ASSUME pc'[q] = "looking", look'[q].phase = "recheck"
      PROVE  /\ \A c \in Range(look'[q].of) : Told(q, c)'
             /\ \A c \in Seen(q)' : WillTell(q, c)'
  <2>1. pc[q] = "looking" /\ look[q].phase = "recheck" /\ look'[q] = look[q]
        BY <1>4, Zenon DEF InWait
  <2>2. /\ \A c \in Range(look[q].of) : Told(q, c)
        /\ \A c \in Seen(q) : WillTell(q, c)
        BY <1>1, <2>1, Zenon DEF Watch
  <2> QED
        BY <1>1, <1>2, <2>1, <2>2, Zenon DEF InWait
<1>5. ASSUME pc'[q] = "asleep", NEW c \in Range(look'[q].of)
      PROVE  WillTell(q, c)'
      BY <1>1, <1>5, Zenon DEF Watch, InWait
<1> QED
      BY <1>3, <1>4, <1>5, Zenon DEF Watch

\* A step that leaves the tree, the statuses and handle_wait alone.
Quiet ==
    /\ UNCHANGED <<next, table, parent, children, status, notify, look, collected>>
    /\ pending' \in [Pids -> SUBSET Signals]
    /\ pc' \in [Pids -> Live \cup InWait \cup Gone \cup {"unborn"}]
    /\ \A q \in Pids : pc'[q] = pc[q] \/ (pc[q] \in Live /\ pc'[q] \in Live)
    /\ \A q \in Pids : pc[q] \in InWait /\ q \in ready => q \in ready'

\* Such a step keeps the invariant.
LEMMA QuietStep ==
    ASSUME IInv, Quiet
    PROVE  IInv'
<1>1. Typed'
      BY Zenon DEF IInv, Quiet, Typed
<1>2. Births'
      BY Zenon DEF IInv, Quiet, Typed, Births, Live, InWait
<1>3. Statuses'
      BY Zenon DEF IInv, Quiet, Typed, Statuses, Live, Gone
<1>4. ASSUME NEW q \in Pids PROVE OwnChildren(q)'
  <2>1. pc'[q] \in InWait => pc'[q] = pc[q] /\ look'[q] = look[q]
        BY Zenon DEF Quiet, Live, InWait
  <2>2. \A c \in Pids : pc[c] \in Gone => pc'[c] \in Gone
        BY Zenon DEF Quiet, Live, Gone
  <2>3. \A c \in table : parent[c] = q => c \in table' /\ parent'[c] = q
        BY Zenon DEF Quiet
  <2> QED
        BY <2>1, <2>2, <2>3, OwnKept, Zenon
<1>5. ASSUME NEW q \in Pids PROVE Watch(q)'
  <2>1. pc'[q] \in InWait => pc'[q] = pc[q] /\ look'[q] = look[q]
        BY Zenon DEF Quiet, Live, InWait
  <2>2. \A c \in Pids : pc[c] = "dead" <=> pc'[c] = "dead"
        BY Zenon DEF Quiet, Live
  <2>3. \A c \in Pids : Told(q, c) => Told(q, c)'
        BY <2>2, Zenon DEF Quiet, Told
  <2>4. \A c \in Pids : pc[q] \in InWait /\ WillTell(q, c) => WillTell(q, c)'
        BY <2>2, Zenon DEF Quiet, WillTell
  <2> QED
        BY <2>1, <2>3, <2>4, WatchKept, Zenon
<1>6. TreeConsistent' /\ ReapedByParent' /\ \A x \in collected' : x[2] \in Pids /\ x[2] < next'
      BY Zenon DEF IInv, Quiet, TreeConsistent, ReapedByParent
<1> QED
      BY <1>1, <1>2, <1>3, <1>4, <1>5, <1>6, Zenon DEF IInv

\* A process sets its exit status and leaves its loop.
LEMMA DieStep ==
    ASSUME IInv, NEW p \in Pids, pc[p] \in {"user", "check"}, NEW code, SetStatus(p, code),
           UNCHANGED <<treeVars, notify, look, ready, collected>>,
           pending' \in [Pids -> SUBSET Signals]
    PROVE  IInv'
<1> USE DEF treeVars
<1>1. /\ pc' = [pc EXCEPT ![p] = "dying"] /\ status' = [status EXCEPT ![p] = <<code>>]
      /\ pc \in [Pids -> Live \cup InWait \cup Gone \cup {"unborn"}] /\ DOMAIN status = Pids
      BY Zenon DEF SetStatus, Goto, IInv, Typed
<1>2. \A q \in Pids : q # p => pc'[q] = pc[q] /\ status'[q] = status[q]
      BY <1>1, Zenon
<1>3. pc'[p] = "dying" /\ status'[p] = <<code>>
      BY <1>1, Zenon
<1>4. Typed'
      BY <1>1, Zenon DEF IInv, Typed, Gone
<1>5. Births'
      BY <1>2, <1>3, Zenon DEF IInv, Births, Live, InWait, Typed
<1>6. Statuses'
      BY <1>2, <1>3 DEF IInv, Statuses, Gone
<1>7. ASSUME NEW q \in Pids PROVE OwnChildren(q)'
  <2>1. pc'[q] \in InWait => pc'[q] = pc[q] /\ look'[q] = look[q]
        BY <1>2, <1>3, Zenon DEF InWait
  <2>2. \A c \in Pids : pc[c] \in Gone => pc'[c] \in Gone
        BY <1>2, <1>3, Zenon DEF Gone
  <2>3. \A c \in table : parent[c] = q => c \in table' /\ parent'[c] = q
        BY Zenon
  <2> QED
        BY <2>1, <2>2, <2>3, OwnKept, Zenon
<1>8. ASSUME NEW q \in Pids PROVE Watch(q)'
  <2>1. pc'[q] \in InWait => pc'[q] = pc[q] /\ look'[q] = look[q]
        BY <1>2, <1>3, Zenon DEF InWait
  <2>2. \A c \in Pids : pc[c] = "dead" <=> pc'[c] = "dead"
        BY <1>2, <1>3, Zenon
  <2>3. \A c \in Pids : Told(q, c) => Told(q, c)'
        BY <2>2, Zenon DEF Told
  <2>4. \A c \in Pids : pc[q] \in InWait /\ WillTell(q, c) => WillTell(q, c)'
        BY <2>2, Zenon DEF WillTell
  <2> QED
        BY <2>1, <2>3, <2>4, WatchKept, Zenon
<1>9. status[p] = << >>
      BY Zenon DEF IInv, Statuses, Gone
<1>10. \A x \in collected : x[2] \in Pids /\ x[2] # p
  <2>1. \A x \in collected : x[2] \in Pids /\ status[x[2]] = <<x[3]>>
        BY Zenon DEF IInv, ReapedByParent
  <2>2. \A y : <<y>> # << >>
        OBVIOUS
  <2> QED
        BY <1>9, <2>1, <2>2, Zenon
<1>11. ReapedByParent'
      BY <1>2, <1>10, Zenon DEF IInv, ReapedByParent
<1>12. TreeConsistent' /\ \A x \in collected' : x[2] \in Pids /\ x[2] < next'
      BY Zenon DEF IInv, TreeConsistent
<1> QED
      BY <1>4, <1>5, <1>6, <1>7, <1>8, <1>11, <1>12, Zenon DEF IInv

\* wake_all wakes every waker it takes out.
LEMMA NotifyStep ==
    ASSUME IInv, NEW p \in Pids, NotifyExit(p)
    PROVE  IInv'
<1> USE DEF treeVars, signalVars
<1>1. /\ pc' = [pc EXCEPT ![p] = "dead"] /\ notify' = [notify EXCEPT ![p] = {}]
      /\ ready' = ready \cup notify[p] /\ pc[p] = "dying"
      /\ UNCHANGED <<treeVars, status, pending, look, collected>>
      /\ pc \in [Pids -> Live \cup InWait \cup Gone \cup {"unborn"}]
      /\ notify \in [Pids -> SUBSET Pids]
      BY Zenon DEF NotifyExit, Goto, IInv, Typed
<1>2. \A q \in Pids : q # p => pc'[q] = pc[q] /\ notify'[q] = notify[q]
      BY <1>1, Zenon
<1>3. pc'[p] = "dead"
      BY <1>1, Zenon
<1>4. Typed'
      BY <1>1, Zenon DEF IInv, Typed, Gone
<1>5. Births'
      BY <1>1, <1>2, <1>3 DEF IInv, Births, Live, InWait, Typed
<1>6. Statuses'
      BY <1>1, <1>2, <1>3 DEF IInv, Statuses, Gone
<1>7. ASSUME NEW q \in Pids PROVE OwnChildren(q)'
  <2>1. pc'[q] \in InWait => pc'[q] = pc[q] /\ look'[q] = look[q]
        BY <1>1, <1>2, <1>3, Zenon DEF InWait
  <2>2. \A c \in Pids : pc[c] \in Gone => pc'[c] \in Gone
        BY <1>2, <1>3, Zenon DEF Gone
  <2>3. \A c \in table : parent[c] = q => c \in table' /\ parent'[c] = q
        BY <1>1, Zenon
  <2> QED
        BY <2>1, <2>2, <2>3, OwnKept, Zenon
<1>8. ASSUME NEW q \in Pids PROVE Watch(q)'
  <2>1. pc'[q] \in InWait => pc'[q] = pc[q] /\ look'[q] = look[q]
        BY <1>1, <1>2, <1>3, Zenon DEF InWait
  <2>2. \A c \in Pids : Told(q, c) => Told(q, c)'
        BY <1>2, <1>3, Zenon DEF Told
  <2>3. \A c \in Pids : WillTell(q, c) => WillTell(q, c)'
        BY <1>1, <1>2, <1>3, Zenon DEF WillTell
  <2> QED
        BY <2>1, <2>2, <2>3, WatchKept, Zenon
<1>9. TreeConsistent' /\ ReapedByParent' /\ \A x \in collected' : x[2] \in Pids /\ x[2] < next'
      BY <1>1, Zenon DEF IInv, TreeConsistent, ReapedByParent
<1> QED
      BY <1>4, <1>5, <1>6, <1>7, <1>8, <1>9, Zenon DEF IInv

\* ProcessTable::register enters the child in the table and in its parent's list.
LEMMA RegisterStep ==
    ASSUME IInv, NEW p \in Pids, pc[p] = "user", NEW g, Register(p, g),
           UNCHANGED <<status, notify, pending, look, collected>>
    PROVE  IInv'
<1> DEFINE n == next
<1>1. n \in Pids /\ pc[n] = "unborn" /\ children[n] = << >> /\ n \notin table
      BY DEF Register, IInv, Births, Typed, Pids
<1>2. p \in table /\ p # n /\ p < n
      BY <1>1, Zenon DEF IInv, Births, Live
<1>3. /\ next' = n + 1 /\ table' = table \cup {n} /\ ready \subseteq ready'
      /\ parent' = [parent EXCEPT ![n] = p]
      /\ children' = [children EXCEPT ![p] = Append(@, n)]
      /\ pc' = [pc EXCEPT ![n] = "start"]
      BY <1>2, Zenon DEF Register
<1>4. Typed
      BY Zenon DEF IInv
<1>n. n \in Nat /\ table \subseteq Pids /\ parent \in [Pids -> Nat] /\ \A q \in Pids : q \in Nat
  <2>1. \A q \in Pids : q \in Nat
        BY DEF Pids
  <2> QED
        BY <1>4, <2>1 DEF Typed
<1>5. /\ \A q \in Pids : q # n => pc'[q] = pc[q] /\ parent'[q] = parent[q]
      /\ pc'[n] = "start" /\ parent'[n] = p
      /\ \A q \in Pids : q # p => children'[q] = children[q]
      /\ children'[p] = Append(children[p], n)
      BY <1>1, <1>3, <1>4, Zenon DEF Typed
<1>6. /\ Append(children[p], n) \in Seq(Pids)
      /\ Range(Append(children[p], n)) = Range(children[p]) \cup {n}
      /\ IsInjective(children[p]) /\ n \notin Range(children[p]) => IsInjective(Append(children[p], n))
      BY <1>1, <1>4, AppendFacts DEF Typed
<1>7. Typed'
  <2>1. children' \in [Pids -> Seq(Pids)]
        BY <1>3, <1>4, <1>6, Zenon DEF Typed
  <2>2. parent' \in [Pids -> Nat]
        BY <1>3, <1>n, Zenon
  <2>3. next' \in 2 .. MaxPid + 1
        BY <1>1, <1>3, <1>4 DEF Typed, Pids
  <2>4. pc' \in [Pids -> Live \cup InWait \cup Gone \cup {"unborn"}]
        BY <1>3, <1>4, Zenon DEF Typed, Live
  <2> QED
        BY <1>1, <1>3, <1>4, <2>1, <2>2, <2>3, <2>4, Zenon DEF Typed
<1>8. Births'
  <2>1. \A q \in Pids : pc'[q] = "unborn" <=> q >= next'
        BY <1>1, <1>3, <1>5, <1>n DEF IInv, Births
  <2>2. \A q \in Pids : q >= next' => q # n /\ q # p /\ q >= next
        BY <1>2, <1>3, <1>n
  <2>3. \A q \in Pids : q >= next' => children'[q] = << >>
        BY <1>5, <2>2, Zenon DEF IInv, Births
  <2>4. \A q \in table' : q < next' /\ parent'[q] < next'
    <3> SUFFICES ASSUME NEW q \in table' PROVE q < next' /\ parent'[q] < next'
          BY Zenon
    <3>1. next \in Nat /\ p \in Nat /\ parent \in [Pids -> Nat]
          BY <1>4 DEF Typed, Pids
    <3>2. CASE q = n
          BY <1>2, <1>3, <1>5, <3>1, <3>2
    <3>3. CASE q # n
      <4>1. q \in table /\ q \in Pids /\ q \in Nat /\ parent[q] \in Nat
            BY <1>3, <1>n, <3>3, Zenon
      <4> QED
            BY <1>3, <1>5, <3>1, <3>3, <4>1 DEF IInv, Births
    <3> QED
          BY <3>2, <3>3, Zenon
  <2>5. \A q \in Pids : pc'[q] \in Live \cup InWait => q \in table'
        BY <1>3, <1>5, Zenon DEF IInv, Births
  <2> QED
        BY <2>1, <2>3, <2>4, <2>5, Zenon DEF Births
<1>9. Statuses'
      BY <1>1, <1>5 DEF IInv, Statuses, Gone
<1>10. \A x \in collected : x[2] \in Pids /\ x[2] # n /\ x[2] < n
      BY <1>4 DEF IInv, Typed, Pids
<1>11. ASSUME NEW q \in Pids PROVE OwnChildren(q)'
  <2>1. pc'[q] \in InWait => pc'[q] = pc[q] /\ look'[q] = look[q]
        BY <1>5, Zenon DEF InWait
  <2>2. \A c \in Pids : pc[c] \in Gone => pc'[c] \in Gone
        BY <1>1, <1>5, Zenon DEF Gone
  <2>3. \A c \in table : parent[c] = q => c \in table' /\ parent'[c] = q
        BY <1>1, <1>3, <1>4, <1>5, Zenon DEF Typed
  <2> QED
        BY <2>1, <2>2, <2>3, OwnKept, Zenon
<1>12. ASSUME NEW q \in Pids PROVE Watch(q)'
  <2>1. pc'[q] \in InWait => pc'[q] = pc[q] /\ look'[q] = look[q]
        BY <1>5, Zenon DEF InWait
  <2>2. \A c \in Pids : pc[c] = "dead" <=> pc'[c] = "dead"
        BY <1>1, <1>5, Zenon
  <2>3. \A c \in Pids : Told(q, c) => Told(q, c)'
        BY <2>2, Zenon DEF Told
  <2>4. \A c \in Pids : pc[q] \in InWait /\ WillTell(q, c) => WillTell(q, c)'
        BY <1>3, <2>2, Zenon DEF WillTell
  <2> QED
        BY <2>1, <2>3, <2>4, WatchKept, Zenon
<1>13. TreeConsistent'
  <2> SUFFICES ASSUME NEW q \in table'
               PROVE  /\ Range(children'[q]) = {c \in table' : parent'[c] = q}
                      /\ IsInjective(children'[q])
        BY Zenon DEF TreeConsistent
  <2>1. TreeConsistent /\ \A c \in table : c \in Pids /\ c # n /\ parent'[c] = parent[c] /\ parent[c] # n
    <3>1. \A c \in table : c \in Pids /\ c # n /\ parent[c] \in Nat /\ parent[c] < next
          BY <1>1, <1>4, Zenon DEF IInv, Births, Typed
    <3> QED
          BY <1>4, <1>5, <3>1 DEF IInv, Typed
  <2>2. CASE q = n
    <3>1. {c \in table' : parent'[c] = n} = {}
          BY <1>2, <1>3, <1>5, <2>1
    <3>2. Range(<< >>) = {} /\ IsInjective(<< >>)
          BY DEF Range, IsInjective
    <3> QED
          BY <1>1, <1>2, <1>5, <2>2, <3>1, <3>2, Zenon
  <2>3. CASE q = p
    <3>1. Range(children[p]) = {c \in table : parent[c] = p} /\ IsInjective(children[p])
          BY <1>2, <2>1, Zenon DEF TreeConsistent
    <3>2. {c \in table' : parent'[c] = p} = {c \in table : parent[c] = p} \cup {n}
          BY <1>3, <1>5, <2>1, Zenon
    <3>3. n \notin Range(children[p])
          BY <1>1, <3>1, Zenon
    <3> QED
          BY <1>5, <1>6, <2>3, <3>1, <3>2, <3>3, Zenon
  <2>4. CASE q # n /\ q # p
    <3>1. q \in table /\ q \in Pids
          BY <1>3, <1>4, <2>4, Zenon DEF Typed
    <3>2. {c \in table' : parent'[c] = q} = {c \in table : parent[c] = q}
          BY <1>3, <1>5, <2>1, <2>4
    <3> QED
          BY <1>5, <2>1, <2>4, <3>1, <3>2, Zenon DEF TreeConsistent
  <2> QED
        BY <2>2, <2>3, <2>4, Zenon
<1>14. ReapedByParent'
  <2>1. \A x \in collected : x[1] = parent'[x[2]] /\ status[x[2]] = <<x[3]>> /\ x[2] \notin table'
    <3>1. \A x \in collected : x[1] = parent[x[2]] /\ status[x[2]] = <<x[3]>> /\ x[2] \notin table
          BY Zenon DEF IInv, ReapedByParent
    <3>2. \A x \in collected : parent'[x[2]] = parent[x[2]] /\ x[2] # n
          BY <1>5, <1>10, Zenon
    <3> QED
          BY <1>3, <3>1, <3>2, Zenon
  <2>2. \A q \in 1 .. next' - 1 : q = n \/ q \in 1 .. next - 1
        BY <1>3, <1>4 DEF Typed
  <2>3. \A q \in 1 .. next' - 1 : q \in table' \/ \E x \in collected : x[2] = q
        BY <1>3, <2>2, Zenon DEF IInv, ReapedByParent
  <2> QED
        BY <2>1, <2>3, Zenon DEF ReapedByParent
<1>15. \A x \in collected' : x[2] \in Pids /\ x[2] < next'
      BY <1>3, <1>n, <1>10
<1> QED
      BY <1>7, <1>8, <1>9, <1>11, <1>12, <1>13, <1>14, <1>15, Zenon DEF IInv

-----------------------------------------------------------------------------

\* A step of handle_wait that reaps nobody: it only has to take care of itself.
LEMMA WaitMove ==
    ASSUME IInv, NEW p \in Pids, pc[p] \in {"user"} \cup InWait,
           NEW l \in {"check"} \cup InWait, pc' = [pc EXCEPT ![p] = l],
           look' \in [Pids -> Looks], \A q \in Pids : q # p => look'[q] = look[q],
           notify' \in [Pids -> SUBSET Pids], \A c \in Pids : notify[c] \subseteq notify'[c],
           ready \ {p} \subseteq ready',
           UNCHANGED <<next, table, parent, children, status, pending, collected>>,
           OwnChildren(p)', Watch(p)'
    PROVE  IInv'
<1>1. pc \in [Pids -> Live \cup InWait \cup Gone \cup {"unborn"}]
      BY Zenon DEF IInv, Typed
<1>2. pc'[p] = l /\ \A q \in Pids : q # p => pc'[q] = pc[q]
      BY <1>1, Zenon
<1>3. Typed'
  <2>1. pc' \in [Pids -> Live \cup InWait \cup Gone \cup {"unborn"}]
        BY <1>1, Zenon DEF Live
  <2> QED
        BY <2>1, Zenon DEF IInv, Typed
<1>4. Births'
      BY <1>2, Zenon DEF IInv, Births, Live, InWait
<1>5. Statuses'
      BY <1>2 DEF IInv, Statuses, Gone, InWait
<1>6. ASSUME NEW q \in Pids, q # p PROVE OwnChildren(q)'
  <2>1. pc'[q] \in InWait => pc'[q] = pc[q] /\ look'[q] = look[q]
        BY <1>2, <1>6, Zenon
  <2>2. \A c \in Pids : pc[c] \in Gone => pc'[c] \in Gone
        BY <1>2, Zenon DEF Gone, InWait
  <2>3. \A c \in table : parent[c] = q => c \in table' /\ parent'[c] = q
        BY Zenon
  <2> QED
        BY <2>1, <2>2, <2>3, OwnKept, Zenon
<1>7. ASSUME NEW q \in Pids, q # p PROVE Watch(q)'
  <2>1. pc'[q] \in InWait => pc'[q] = pc[q] /\ look'[q] = look[q]
        BY <1>2, <1>7, Zenon
  <2>2. \A c \in Pids : pc[c] = "dead" <=> pc'[c] = "dead"
        BY <1>2, Zenon DEF InWait
  <2>3. \A c \in Pids : Told(q, c) => Told(q, c)'
        BY <2>2, Zenon DEF Told
  <2>4. \A c \in Pids : pc[q] \in InWait /\ WillTell(q, c) => WillTell(q, c)'
        BY <1>7, <2>2, Zenon DEF WillTell
  <2> QED
        BY <2>1, <2>3, <2>4, WatchKept, Zenon
<1>8. TreeConsistent' /\ ReapedByParent' /\ \A x \in collected' : x[2] \in Pids /\ x[2] < next'
      BY Zenon DEF IInv, TreeConsistent, ReapedByParent
<1> QED
      BY <1>3, <1>4, <1>5, <1>6, <1>7, <1>8, Zenon DEF IInv

\* task_wait begins with children of its own only.
LEMMA WaitStep ==
    ASSUME IInv, NEW p \in Pids, Wait(p)
    PROVE  IInv'
<1> USE DEF treeVars, signalVars
<1>1. PICK kids \in {children[p]} \cup { <<t>> : t \in Pids }, nohang \in BOOLEAN :
         LET own == Len(kids) > 0 /\ \A i \in 1 .. Len(kids) : IsOwnChild(p, kids[i]) IN
          /\ look' = [look EXCEPT ![p] = IF own THEN [phase |-> "once", of |-> kids,
                                                     rest |-> kids, nohang |-> nohang]
                                                ELSE NoLook]
          /\ Goto(p, IF own THEN "looking" ELSE "check")
      BY Zenon DEF Wait
<1> DEFINE own == Len(kids) > 0 /\ \A i \in 1 .. Len(kids) : IsOwnChild(p, kids[i])
           v == IF own THEN [phase |-> "once", of |-> kids, rest |-> kids, nohang |-> nohang]
                ELSE NoLook
           l == IF own THEN "looking" ELSE "check"
<1>2. /\ UNCHANGED <<next, table, parent, children, status, notify, pending, ready, collected>>
      /\ pc[p] = "user"
      BY Zenon DEF Wait, Trap
<1>3. kids \in Seq(Pids)
  <2>1. children[p] \in Seq(Pids)
        BY Zenon DEF IInv, Typed
  <2>2. \A t \in Pids : <<t>> \in Seq(Pids)
        OBVIOUS
  <2> QED
        BY <2>1, <2>2, Zenon
<1>4. v \in Looks
      BY <1>3 DEF Looks, Phases, NoLook
<1>5. pc' = [pc EXCEPT ![p] = l] /\ look' = [look EXCEPT ![p] = v]
      BY <1>1, Zenon DEF Goto
<1>6. look \in [Pids -> Looks] /\ pc \in [Pids -> Live \cup InWait \cup Gone \cup {"unborn"}]
      /\ notify \in [Pids -> SUBSET Pids]
      BY Zenon DEF IInv, Typed
<1>7. /\ look' \in [Pids -> Looks] /\ look'[p] = v /\ pc'[p] = l
      /\ \A q \in Pids : q # p => look'[q] = look[q]
      BY <1>4, <1>5, <1>6, Zenon
<1>8. OwnChildren(p)'
  <2>1. CASE own
    <3>1. \A c \in Range(kids) : c \in table /\ parent[c] = p
          BY <1>3, <2>1 DEF Range, IsOwnChild
    <3>2. look'[p].of = kids /\ look'[p].rest = kids /\ pc'[p] = "looking" /\ look'[p].phase = "once"
      <4>1. v = [phase |-> "once", of |-> kids, rest |-> kids, nohang |-> nohang] /\ l = "looking"
            BY <2>1, Zenon
      <4>2. v.phase = "once" /\ v.of = kids /\ v.rest = kids
            BY <4>1, Zenon DEF v
      <4> HIDE DEF v
      <4> QED
            BY <1>7, <4>1, <4>2, Zenon
    <3> QED
          BY <1>2, <3>1, <3>2, Zenon DEF OwnChildren
  <2>2. CASE ~own
        BY <1>7, <2>2, Zenon DEF OwnChildren, InWait
  <2> QED
        BY <2>1, <2>2, Zenon
<1>9. Watch(p)'
  <2>1. pc'[p] # "asleep" /\ look'[p].phase \in {"once", "none"}
        BY <1>7 DEF NoLook
  <2> QED
        BY <2>1, Zenon DEF Watch
<1>10. l \in {"check"} \cup InWait
      BY Zenon DEF InWait
<1> HIDE DEF v, l, own
<1> QED
      BY <1>2, <1>5, <1>6, <1>7, <1>8, <1>9, <1>10, WaitMove, Zenon

\* One child of a pass: a registration, a zombie found, or a child that still runs.
LEMMA LookStep ==
    ASSUME IInv, NEW p \in Pids, LookAtChild(p)
    PROVE  IInv'
<1> USE DEF treeVars, signalVars
<1> DEFINE c == Head(look[p].rest)
<1>1. /\ UNCHANGED <<next, table, parent, children, status, pending, ready, collected>>
      /\ pc[p] = "looking" /\ look[p].rest # << >>
      BY Zenon DEF LookAtChild
<1>2. /\ look \in [Pids -> Looks] /\ look[p] \in Looks
      /\ pc \in [Pids -> Live \cup InWait \cup Gone \cup {"unborn"}]
      /\ notify \in [Pids -> SUBSET Pids]
      BY Zenon DEF IInv, Typed
<1>3. /\ c \in Pids /\ Tail(look[p].rest) \in Seq(Pids)
      /\ Range(look[p].rest) = {c} \cup Range(Tail(look[p].rest))
      BY <1>1, <1>2, HeadAndTail, Zenon DEF Looks
<1>4. /\ \A d \in Range(look[p].of) : d \in table /\ parent[d] = p
      /\ Range(look[p].rest) \subseteq Range(look[p].of)
      /\ look[p].phase \in {"once", "scan", "register", "recheck"}
      /\ Range(look[p].of) \subseteq Pids
      BY <1>1, LookTypes, Zenon DEF IInv, OwnChildren, InWait
<1>5. Watch(p)
      BY Zenon DEF IInv
<1> HIDE DEF c
<1>6. CASE look[p].phase = "register"
  <2>1. /\ notify' = [notify EXCEPT ![c] = @ \cup {p}]
        /\ look' = [look EXCEPT ![p].rest = Tail(@)]
        /\ pc' = pc
        BY <1>6, Zenon DEF LookAtChild, c
  <2>2. pc' = [pc EXCEPT ![p] = "looking"]
        BY <1>1, <1>2, <2>1, Zenon
  <2>3. /\ look' \in [Pids -> Looks] /\ \A q \in Pids : q # p => look'[q] = look[q]
        /\ look'[p].of = look[p].of /\ look'[p].rest = Tail(look[p].rest)
        /\ look'[p].phase = "register"
        BY <1>2, <1>3, <1>6, <2>1, Zenon DEF Looks
  <2>4. /\ notify' \in [Pids -> SUBSET Pids] /\ p \in notify'[c]
        /\ \A d \in Pids : notify[d] \subseteq notify'[d]
        BY <1>2, <1>3, <2>1, Zenon
  <2>5. OwnChildren(p)'
        BY <1>1, <1>3, <1>4, <2>1, <2>3, Zenon DEF OwnChildren
  <2>6. Watch(p)'
    <3>1. \A d \in Seen(p)' : d = c \/ d \in Seen(p)
          BY <1>3, <2>3, Zenon DEF Seen
    <3>2. \A d \in Seen(p) : d \in Pids /\ Told(p, d)
          BY <1>1, <1>4, <1>5, <1>6, Zenon DEF Watch, Seen
    <3>3. \A d \in Seen(p)' : Told(p, d)'
          BY <2>1, <2>4, <3>1, <3>2, Zenon DEF Told
    <3> QED
          BY <1>1, <2>1, <2>3, <3>3, Zenon DEF Watch
  <2> QED
        BY <1>1, <2>2, <2>3, <2>4, <2>5, <2>6, WaitMove, Zenon DEF InWait
<1>7. CASE look[p].phase # "register" /\ Exited(c)
  <2>1. /\ look' = [look EXCEPT ![p].rest = <<c>>] /\ pc' = [pc EXCEPT ![p] = "reap"]
        /\ notify' = notify
        BY <1>7, Zenon DEF LookAtChild, c, Goto
  <2>2. /\ look' \in [Pids -> Looks] /\ \A q \in Pids : q # p => look'[q] = look[q]
        /\ look'[p].of = look[p].of /\ look'[p].rest = <<c>>
    <3>1. <<c>> \in Seq(Pids)
          BY <1>3
    <3> QED
          BY <1>2, <2>1, <3>1, Zenon DEF Looks
  <2>3. pc[c] \in Gone /\ pc'[p] = "reap"
        BY <1>2, <1>3, <1>7, <2>1, Zenon DEF IInv, Statuses, Exited
  <2>4. pc'[c] \in Gone
        BY <1>1, <1>2, <1>3, <2>1, <2>3, Zenon DEF Gone
  <2>5. Range(<<c>>) = {c} /\ Head(<<c>>) = c /\ <<c>> # << >>
        BY DEF Range
  <2>6. OwnChildren(p)'
        BY <1>1, <1>3, <1>4, <2>2, <2>3, <2>4, <2>5, Zenon DEF OwnChildren
  <2>7. Watch(p)'
        BY <2>3, Zenon DEF Watch
  <2> QED
        BY <1>1, <1>2, <2>1, <2>2, <2>6, <2>7, WaitMove, Zenon DEF InWait
<1>8. CASE look[p].phase # "register" /\ ~Exited(c)
  <2>1. /\ look' = [look EXCEPT ![p].rest = Tail(@)] /\ pc' = [pc EXCEPT ![p] = "looking"]
        /\ notify' = notify
        BY <1>8, Zenon DEF LookAtChild, c, Goto
  <2>2. /\ look' \in [Pids -> Looks] /\ \A q \in Pids : q # p => look'[q] = look[q]
        /\ look'[p].of = look[p].of /\ look'[p].rest = Tail(look[p].rest)
        /\ look'[p].phase = look[p].phase
        BY <1>2, <1>3, <2>1, Zenon DEF Looks
  <2>3. pc[c] \notin Gone /\ pc' = pc
    <3>1. pc[c] \notin Gone
      <4>1. status[c] = << >>
            BY <1>8, Zenon DEF Exited
      <4>2. \A code : <<code>> # << >>
            BY Zenon
      <4> QED
            BY <1>3, <4>1, <4>2, Zenon DEF IInv, Statuses
    <3>2. pc' = pc
          BY <1>1, <1>2, <2>1, Zenon
    <3> QED
          BY <3>1, <3>2, Zenon
  <2>4. OwnChildren(p)'
        BY <1>1, <1>3, <1>4, <2>2, <2>3, Zenon DEF OwnChildren
  <2>5. Watch(p)'
    <3> SUFFICES ASSUME look[p].phase = "recheck"
                 PROVE  /\ \A d \in Range(look'[p].of) : Told(p, d)'
                        /\ \A d \in Seen(p)' : WillTell(p, d)'
          BY <1>1, <1>8, <2>2, <2>3, Zenon DEF Watch
    <3>1. \A d \in Seen(p)' : d = c \/ d \in Seen(p)
          BY <1>3, <2>2, Zenon DEF Seen
    <3>2. /\ \A d \in Range(look[p].of) : Told(p, d)
          /\ \A d \in Seen(p) : WillTell(p, d)
          BY <1>1, <1>5, Zenon DEF Watch
    <3>3. c \in Range(look[p].of)
          BY <1>3, <1>4, Zenon
    <3>4. WillTell(p, c)
          BY <2>3, <3>2, <3>3, Zenon DEF Told, WillTell, Gone
    <3> QED
          BY <1>1, <2>1, <2>2, <2>3, <3>1, <3>2, <3>4 DEF Told, WillTell
  <2> QED
        BY <1>1, <1>2, <2>1, <2>2, <2>4, <2>5, WaitMove, Zenon DEF InWait
<1> QED
      BY <1>6, <1>7, <1>8, Zenon

\* The end of a pass hands what the pass established to the next one.
LEMMA EndStep ==
    ASSUME IInv, NEW p \in Pids, EndOfPass(p)
    PROVE  IInv'
<1> USE DEF treeVars, signalVars
<1>1. /\ UNCHANGED <<next, table, parent, children, status, notify, pending, ready, collected>>
      /\ pc[p] = "looking" /\ look[p].rest = << >>
      BY Zenon DEF EndOfPass
<1>2. /\ look \in [Pids -> Looks] /\ look[p] \in Looks
      /\ pc \in [Pids -> Live \cup InWait \cup Gone \cup {"unborn"}]
      /\ notify \in [Pids -> SUBSET Pids]
      BY Zenon DEF IInv, Typed
<1>3. /\ \A d \in Range(look[p].of) : d \in table /\ parent[d] = p
      /\ look[p].phase \in {"once", "scan", "register", "recheck"}
      /\ Range(look[p].of) \subseteq Pids
      BY <1>1, LookTypes, Zenon DEF IInv, OwnChildren, InWait
<1>4. Seen(p) = Range(look[p].of)
  <2>1. Range(<< >>) = {}
        BY DEF Range
  <2> QED
        BY <1>1, <2>1, Zenon DEF Seen
<1>5. Watch(p)
      BY Zenon DEF IInv
<1>6. CASE look[p].phase = "once" /\ look[p].nohang
  <2>1. pc' = [pc EXCEPT ![p] = "check"] /\ look' = [look EXCEPT ![p] = NoLook]
        BY <1>6, Zenon DEF EndOfPass, Goto
  <2>2. NoLook \in Looks
        BY DEF NoLook, Looks, Phases
  <2>3. look' \in [Pids -> Looks] /\ \A q \in Pids : q # p => look'[q] = look[q]
        BY <1>2, <2>1, <2>2, Zenon
  <2>4. OwnChildren(p)' /\ Watch(p)'
        BY <1>2, <2>1, Zenon DEF OwnChildren, Watch, InWait
  <2> QED
        BY <1>1, <1>2, <2>1, <2>3, <2>4, WaitMove, Zenon DEF InWait
<1>7. CASE ~(look[p].phase = "once" /\ look[p].nohang)
  <2> DEFINE l == IF AfterPass(look[p].phase) = "asleep" THEN "asleep" ELSE "looking"
  <2>1. /\ pc' = [pc EXCEPT ![p] = l]
        /\ look' = [look EXCEPT ![p].phase = AfterPass(@), ![p].rest = look[p].of]
        BY <1>7, Zenon DEF EndOfPass, Goto
  <2>2. AfterPass(look[p].phase) \in Phases
        BY <1>3, Zenon DEF AfterPass, Phases
  <2>3. /\ look' \in [Pids -> Looks] /\ \A q \in Pids : q # p => look'[q] = look[q]
        /\ look'[p].of = look[p].of /\ look'[p].rest = look[p].of
        /\ look'[p].phase = AfterPass(look[p].phase)
        BY <1>2, <2>1, <2>2, Zenon DEF Looks
  <2>4. pc'[p] = l /\ l \in InWait /\ l # "reap"
        BY <1>2, <2>1, Zenon DEF InWait
  <2>5. OwnChildren(p)'
    <3>1. l = "looking" => AfterPass(look[p].phase) \in {"once", "scan", "register", "recheck"}
          BY <1>3, Zenon DEF AfterPass
    <3> QED
          BY <1>1, <1>3, <2>3, <2>4, <3>1, Zenon DEF OwnChildren
  <2>6. Seen(p)' = {}
        BY <2>3, Zenon DEF Seen
  <2>7. \A d \in Pids : pc'[d] = "dead" <=> pc[d] = "dead"
        BY <1>1, <1>2, <2>1, Zenon
  <2>8. Watch(p)'
    <3>1. ASSUME pc'[p] = "looking", look'[p].phase = "recheck"
          PROVE  \A d \in Range(look'[p].of) : Told(p, d)'
      <4>1. look[p].phase = "register"
            BY <1>3, <2>3, <3>1, Zenon DEF AfterPass
      <4>2. \A d \in Range(look[p].of) : Told(p, d)
            BY <1>1, <1>4, <1>5, <4>1, Zenon DEF Watch
      <4> QED
            BY <1>1, <1>3, <2>3, <2>7, <4>2, Zenon DEF Told
    <3>2. ASSUME pc'[p] = "asleep"
          PROVE  \A d \in Range(look'[p].of) : WillTell(p, d)'
      <4>1. look[p].phase = "recheck"
            BY <1>3, <2>4, <3>2, Zenon DEF AfterPass
      <4>2. \A d \in Range(look[p].of) : WillTell(p, d)
            BY <1>1, <1>4, <1>5, <4>1, Zenon DEF Watch
      <4> QED
            BY <1>1, <1>3, <2>3, <2>7, <4>2, Zenon DEF WillTell
    <3> QED
          BY <2>6, <3>1, <3>2, Zenon DEF Watch
  <2>9. l \in {"check"} \cup InWait /\ pc[p] \in {"user"} \cup InWait
        BY <1>1, <2>4, Zenon DEF InWait
  <2> HIDE DEF l
  <2> QED
        BY <1>1, <1>2, <2>1, <2>3, <2>5, <2>8, <2>9, WaitMove, Zenon
<1> QED
      BY <1>6, <1>7, Zenon

\* A poll of the sleeping task looks at the children again.
LEMMA RepollStep ==
    ASSUME IInv, NEW p \in Pids, Repoll(p)
    PROVE  IInv'
<1> USE DEF treeVars, signalVars
<1>1. /\ UNCHANGED <<next, table, parent, children, status, notify, pending, collected>>
      /\ pc[p] = "asleep" /\ ready' = ready \ {p} /\ pc' = [pc EXCEPT ![p] = "looking"]
      /\ look' = [look EXCEPT ![p].phase = "scan"]
      BY Zenon DEF Repoll, Goto
<1>2. /\ look \in [Pids -> Looks] /\ look[p] \in Looks
      /\ pc \in [Pids -> Live \cup InWait \cup Gone \cup {"unborn"}]
      /\ notify \in [Pids -> SUBSET Pids]
      BY Zenon DEF IInv, Typed
<1>3. /\ look' \in [Pids -> Looks] /\ \A q \in Pids : q # p => look'[q] = look[q]
      /\ look'[p].of = look[p].of /\ look'[p].rest = look[p].rest /\ look'[p].phase = "scan"
      BY <1>1, <1>2, Zenon DEF Looks, Phases
<1>4. pc'[p] = "looking"
      BY <1>1, <1>2, Zenon
<1>5. OwnChildren(p)
      BY Zenon DEF IInv
<1>6. OwnChildren(p)'
      BY <1>1, <1>3, <1>4, <1>5, Zenon DEF OwnChildren, InWait
<1>7. Watch(p)'
      BY <1>3, <1>4, Zenon DEF Watch
<1> QED
      BY <1>1, <1>2, <1>3, <1>6, <1>7, WaitMove, Zenon DEF InWait

\* ProcessTable::unregister takes the child out of the table and of its parent's list.
LEMMA ReapStep ==
    ASSUME IInv, NEW p \in Pids, Reap(p)
    PROVE  IInv'
<1> USE DEF treeVars, signalVars
<1> DEFINE c == Head(look[p].rest)
<1>1. /\ Unregister(c) /\ collected' = collected \cup {<<p, c, Head(status[c])>>}
      /\ look' = [look EXCEPT ![p] = NoLook] /\ pc[p] = "reap" /\ pc' = [pc EXCEPT ![p] = "check"]
      /\ UNCHANGED <<status, notify, pending, ready>>
      BY Zenon DEF Reap, Goto
<1>2. Typed
      BY Zenon DEF IInv
<1>3. /\ look[p].rest # << >> /\ pc[c] \in Gone
      /\ \A d \in Range(look[p].of) : d \in table /\ parent[d] = p
      /\ Range(look[p].rest) \subseteq Range(look[p].of)
      BY <1>1, Zenon DEF IInv, OwnChildren, InWait
<1>4. c \in Pids /\ c \in Range(look[p].rest)
      BY <1>2, <1>3, LookTypes, HeadAndTail, Zenon
<1>5. c \in table /\ parent[c] = p /\ c # p
      BY <1>1, <1>3, <1>4, Zenon DEF Gone
<1>6. p \in table
      BY <1>1, Zenon DEF IInv, Births, InWait
<1> HIDE DEF c
<1>7. /\ table' = table \ {c} /\ children' = [children EXCEPT ![p] = Retain(@, c)]
      /\ next' = next /\ parent' = parent
      BY <1>1, <1>5, <1>6, Zenon DEF Unregister
<1>8. /\ Retain(children[p], c) \in Seq(Pids)
      /\ Range(Retain(children[p], c)) = Range(children[p]) \ {c}
      /\ IsInjective(children[p]) => IsInjective(Retain(children[p], c))
      BY <1>2, RetainFacts DEF Typed
<1>9. /\ children' \in [Pids -> Seq(Pids)] /\ children'[p] = Retain(children[p], c)
      /\ \A q \in Pids : q # p => children'[q] = children[q]
      BY <1>2, <1>7, <1>8, Zenon DEF Typed
<1>10. /\ pc' \in [Pids -> Live \cup InWait \cup Gone \cup {"unborn"}] /\ pc'[p] = "check"
       /\ \A q \in Pids : q # p => pc'[q] = pc[q]
      BY <1>1, <1>2, Zenon DEF Typed, Live
<1>11. /\ look' \in [Pids -> Looks] /\ \A q \in Pids : q # p => look'[q] = look[q]
  <2>1. NoLook \in Looks
        BY DEF NoLook, Looks, Phases
  <2> QED
        BY <1>1, <1>2, <2>1, Zenon DEF Typed
<1>12. Typed'
      BY <1>1, <1>2, <1>7, <1>9, <1>10, <1>11, Zenon DEF Typed
<1>13. p < next
      BY <1>6, Zenon DEF IInv, Births
<1>14. Births'
  <2>1. \A q \in Pids : pc'[q] = "unborn" <=> q >= next'
        BY <1>1, <1>7, <1>10, Zenon DEF IInv, Births
  <2>2. \A q \in Pids : q >= next' => q # p
        BY <1>2, <1>7, <1>13 DEF Typed, Pids
  <2>3. \A q \in Pids : q >= next' => children'[q] = << >>
        BY <1>7, <1>9, <2>2, Zenon DEF IInv, Births
  <2>4. \A q \in table' : q < next' /\ parent'[q] < next'
        BY <1>7, Zenon DEF IInv, Births
  <2>5. \A q \in Pids : pc'[q] \in Live \cup InWait => q \in table'
        BY <1>3, <1>5, <1>6, <1>7, <1>10, Zenon DEF IInv, Births, Live, InWait, Gone
  <2> QED
        BY <2>1, <2>3, <2>4, <2>5, Zenon DEF Births
<1>15. Statuses'
      BY <1>1, <1>10 DEF IInv, Statuses, Gone
<1>16. ASSUME NEW q \in Pids PROVE OwnChildren(q)'
  <2>1. pc'[q] \in InWait => pc'[q] = pc[q] /\ look'[q] = look[q]
        BY <1>10, <1>11, Zenon DEF InWait
  <2>2. \A d \in Pids : pc[d] \in Gone => pc'[d] \in Gone
        BY <1>1, <1>10, Zenon DEF Gone
  <2>3. CASE q = p
        BY <1>10, <2>3, Zenon DEF OwnChildren, InWait
  <2>4. CASE q # p
    <3>1. \A d \in table : parent[d] = q => d \in table' /\ parent'[d] = q
          BY <1>5, <1>7, <2>4, Zenon
    <3> QED
          BY <2>1, <2>2, <3>1, OwnKept, Zenon
  <2> QED
        BY <2>3, <2>4, Zenon
<1>17. ASSUME NEW q \in Pids PROVE Watch(q)'
  <2>1. pc'[q] \in InWait => pc'[q] = pc[q] /\ look'[q] = look[q]
        BY <1>10, <1>11, Zenon DEF InWait
  <2>2. \A d \in Pids : pc[d] = "dead" <=> pc'[d] = "dead"
        BY <1>1, <1>10, Zenon
  <2>3. \A d \in Pids : Told(q, d) => Told(q, d)'
        BY <1>1, <2>2, Zenon DEF Told
  <2>4. \A d \in Pids : pc[q] \in InWait /\ WillTell(q, d) => WillTell(q, d)'
        BY <1>1, <2>2, Zenon DEF WillTell
  <2> QED
        BY <2>1, <2>3, <2>4, WatchKept, Zenon
<1>18. TreeConsistent'
  <2> SUFFICES ASSUME NEW q \in table'
               PROVE  /\ Range(children'[q]) = {d \in table' : parent'[d] = q}
                      /\ IsInjective(children'[q])
        BY Zenon DEF TreeConsistent
  <2>1. q \in table /\ q \in Pids
        BY <1>2, <1>7, Zenon DEF Typed
  <2>2. Range(children[q]) = {d \in table : parent[d] = q} /\ IsInjective(children[q])
        BY <2>1, Zenon DEF IInv, TreeConsistent
  <2>3. CASE q = p
        BY <1>7, <1>8, <1>9, <2>2, <2>3, Zenon
  <2>4. CASE q # p
    <3>1. {d \in table' : parent'[d] = q} = {d \in table : parent[d] = q}
          BY <1>5, <1>7, <2>4, Zenon
    <3> QED
          BY <1>9, <2>1, <2>2, <2>4, <3>1, Zenon
  <2> QED
        BY <2>3, <2>4, Zenon
<1>19. status[c] = <<Head(status[c])>>
  <2>1. PICK code : status[c] = <<code>>
        BY <1>3, <1>4, Zenon DEF IInv, Statuses
  <2> QED
        BY <2>1
<1> DEFINE y == <<p, c, Head(status[c])>>
<1>20. y[1] = p /\ y[2] = c /\ y[3] = Head(status[c]) /\ collected' = collected \cup {y}
      BY <1>1, Zenon
<1> HIDE DEF y
<1>21. ReapedByParent'
  <2>1. \A x \in collected : x[1] = parent[x[2]] /\ status[x[2]] = <<x[3]>> /\ x[2] \notin table
        BY Zenon DEF IInv, ReapedByParent
  <2>2. \A x \in collected' : x[1] = parent'[x[2]] /\ status'[x[2]] = <<x[3]>> /\ x[2] \notin table'
        BY <1>1, <1>5, <1>7, <1>19, <1>20, <2>1, Zenon
  <2>3. \A q \in 1 .. next' - 1 : q \in table' \/ \E x \in collected' : x[2] = q
        BY <1>7, <1>20, Zenon DEF IInv, ReapedByParent
  <2> QED
        BY <2>2, <2>3, Zenon DEF ReapedByParent
<1>22. \A x \in collected' : x[2] \in Pids /\ x[2] < next'
      BY <1>4, <1>5, <1>7, <1>20, Zenon DEF IInv, Births
<1> QED
      BY <1>12, <1>14, <1>15, <1>16, <1>17, <1>18, <1>21, <1>22, Zenon DEF IInv

-----------------------------------------------------------------------------
(* The theorems *)

\* Pending signals stay signals in use.
LEMMA SignalTypes ==
    ASSUME Typed, NEW p \in Pids
    PROVE  /\ \A t \in table, x \in Signals : Post(t, x) => pending' \in [Pids -> SUBSET Signals]
           /\ \A X \in SUBSET Signals :
                 [pending EXCEPT ![p] = @ \cup X] \in [Pids -> SUBSET Signals]
           /\ \A x : [pending EXCEPT ![p] = @ \ {x}] \in [Pids -> SUBSET Signals]
<1>1. pending \in [Pids -> SUBSET Signals] /\ table \subseteq Pids
      BY Zenon DEF Typed
<1>2. \A t \in Pids, X \in SUBSET Signals :
         [pending EXCEPT ![t] = @ \cup X] \in [Pids -> SUBSET Signals]
      BY <1>1, Zenon
<1>3. \A x : [pending EXCEPT ![p] = @ \ {x}] \in [Pids -> SUBSET Signals]
      BY <1>1, Zenon
<1>4. \A t \in table, x \in Signals : Post(t, x) => pending' \in [Pids -> SUBSET Signals]
  <2>1. \A x \in Signals : {x} \in SUBSET Signals
        BY Zenon
  <2> QED
        BY <1>1, <1>2, <2>1 DEF Post
<1> QED
      BY <1>2, <1>3, <1>4, Zenon

\* A round of check_signals terminates the process or leaves everything but the
\* signal state alone.
LEMMA CheckStep ==
    ASSUME IInv, NEW p \in Pids, CheckSignal(p)
    PROVE  IInv'
<1> USE DEF treeVars, signalVars
<1> DEFINE x == Dequeue(Deliverable(p))
<1>1. /\ pc[p] = "check" /\ pending' = [pending EXCEPT ![p] = @ \ {x}]
      /\ UNCHANGED <<treeVars, notify, look, ready, collected>>
      BY Zenon DEF CheckSignal
<1>2. pending' \in [Pids -> SUBSET Signals]
      BY <1>1, SignalTypes, Zenon DEF IInv
<1>3. \/ SetStatus(p, 128 + x)
      \/ UNCHANGED <<status, pc>>
      \/ Goto(p, "user") /\ UNCHANGED status
      BY Zenon DEF CheckSignal
<1>4. CASE SetStatus(p, 128 + x)
      BY <1>1, <1>2, <1>4, DieStep, Zenon
<1>5. CASE UNCHANGED status /\ (UNCHANGED pc \/ Goto(p, "user"))
  <2>1. Quiet
        BY <1>1, <1>2, <1>5, Zenon DEF Quiet, Goto, IInv, Typed, Live
  <2> QED
        BY <2>1, QuietStep, Zenon
<1> QED
      BY <1>3, <1>4, <1>5, Zenon

\* A task goes from one place outside handle_wait to another.
LEMMA QuietMove ==
    ASSUME IInv, NEW p \in Pids, pc[p] \in Live, NEW l \in Live, pc' = [pc EXCEPT ![p] = l],
           ready \ {p} \subseteq ready', pending' \in [Pids -> SUBSET Signals],
           UNCHANGED <<next, table, parent, children, status, notify, look, collected>>
    PROVE  IInv'
<1>1. pc \in [Pids -> Live \cup InWait \cup Gone \cup {"unborn"}]
      BY Zenon DEF IInv, Typed
<1>2. pc' \in [Pids -> Live \cup InWait \cup Gone \cup {"unborn"}]
      BY <1>1, Zenon
<1>3. pc'[p] = l /\ \A q \in Pids : q # p => pc'[q] = pc[q]
      BY <1>1, Zenon
<1>4. \A q \in Pids : pc'[q] = pc[q] \/ (pc[q] \in Live /\ pc'[q] \in Live)
      BY <1>3, Zenon
<1>5. \A q \in Pids : pc[q] \in InWait /\ q \in ready => q \in ready'
  <2>1. pc[p] \notin InWait
        BY Zenon DEF Live, InWait
  <2> QED
        BY <2>1, Zenon
<1>6. Quiet
      BY <1>2, <1>4, <1>5, Zenon DEF Quiet
<1> QED
      BY <1>6, QuietStep, Zenon

\* The actions that do not touch the tree, the statuses and handle_wait.
LEMMA QuietActions ==
    ASSUME IInv, NEW p \in Pids,
           \/ Start(p) \/ Resume(p) \/ CheckDone(p) \/ SetPgid(p) \/ Kill(p) \/ SigProcMask(p)
           \/ SigAction(p) \/ Preempt(p) \/ Block(p) \/ Complete(p) \/ Exec(p)
    PROVE  IInv'
<1> USE DEF treeVars, signalVars
<1>1. /\ pc = [pc EXCEPT ![p] = pc[p]]
      /\ pending \in [Pids -> SUBSET Signals]
      BY Zenon DEF IInv, Typed
<1>2. {"start", "user", "check", "yielded", "blocked"} \subseteq Live
      BY Zenon DEF Live
<1>3. CASE Start(p)
      BY <1>1, <1>2, <1>3, QuietMove, Zenon DEF Start, Goto
<1>4. CASE Resume(p)
      BY <1>1, <1>2, <1>4, QuietMove, Zenon DEF Resume, Goto
<1>5. CASE CheckDone(p)
      BY <1>1, <1>2, <1>5, QuietMove, Zenon DEF CheckDone, Goto
<1>6. CASE Preempt(p)
      BY <1>1, <1>2, <1>6, QuietMove, Zenon DEF Preempt, Goto
<1>7. CASE Block(p)
      BY <1>1, <1>2, <1>7, QuietMove, Zenon DEF Block, Trap, Goto
<1>8. CASE Complete(p)
  <2>1. Typed
        BY Zenon DEF IInv
  <2>2. PICK S \in SUBSET Signals : pending' = [pending EXCEPT ![p] = @ \cup S]
        BY <1>8, Zenon DEF Complete
  <2>3. pending' \in [Pids -> SUBSET Signals]
        BY <2>1, <2>2, SignalTypes, Zenon
  <2> QED
        BY <1>2, <1>8, <2>3, QuietMove, ZenonT(30) DEF Complete, Goto
<1>9. CASE Kill(p)
  <2>1. pending' \in [Pids -> SUBSET Signals]
        BY <1>9, SignalTypes, Zenon DEF Kill, IInv
  <2> QED
        BY <1>1, <1>2, <1>9, <2>1, QuietMove, Zenon DEF Kill, Trap
<1>10. CASE SetPgid(p)
      BY <1>1, <1>2, <1>10, QuietMove, Zenon DEF SetPgid, Trap
<1>11. CASE SigProcMask(p)
      BY <1>1, <1>2, <1>11, QuietMove, Zenon DEF SigProcMask, Trap
<1>12. CASE SigAction(p)
      BY <1>1, <1>2, <1>12, QuietMove, Zenon DEF SigAction, Trap
<1>13. CASE Exec(p)
      BY <1>1, <1>2, <1>13, QuietMove, Zenon DEF Exec, Trap
<1> QED
      BY <1>3, <1>4, <1>5, <1>6, <1>7, <1>8, <1>9, <1>10, <1>11, <1>12, <1>13, Zenon

\* A signal to a process group changes nothing but the pending signals.
LEMMA GroupStep ==
    ASSUME IInv, NEW g \in Pids, SignalGroup(g)
    PROVE  IInv'
<1> USE DEF treeVars, signalVars
<1>1. pending' \in [Pids -> SUBSET Signals]
      BY Zenon DEF SignalGroup, IInv, Typed
<1>2. Quiet
      BY <1>1, Zenon DEF SignalGroup, Quiet, IInv, Typed
<1> QED
      BY <1>2, QuietStep, Zenon

\* Every step keeps the invariant.
LEMMA NextStep == IInv /\ [Next]_vars => IInv'
<1> SUFFICES ASSUME IInv, [Next]_vars PROVE IInv'
      BY Zenon
<1> USE DEF treeVars, signalVars
<1>1. CASE UNCHANGED vars
  <2>1. Quiet
        BY <1>1, Zenon DEF vars, Quiet, IInv, Typed
  <2> QED
        BY <2>1, QuietStep, Zenon
<1>2. ASSUME NEW g \in Pids, SignalGroup(g) PROVE IInv'
      BY <1>2, GroupStep, Zenon
<1>3. ASSUME NEW p \in Pids, Kernel(p) PROVE IInv'
      BY <1>3, QuietActions, NotifyStep, CheckStep, LookStep, EndStep, RepollStep, ReapStep, Zenon DEF Kernel
<1>4. ASSUME NEW p \in Pids, User(p) PROVE IInv'
  <2>1. CASE Spawn(p) \/ Clone(p)
        BY <2>1, RegisterStep, Zenon DEF Spawn, Clone, Trap
  <2>2. CASE Exit(p)
    <3>1. pending' \in [Pids -> SUBSET Signals]
          BY <2>2, Zenon DEF Exit, IInv, Typed
    <3>2. PICK code : SetStatus(p, code)
          BY <2>2, Zenon DEF Exit
    <3>3. pc[p] = "user" /\ UNCHANGED <<treeVars, notify, look, ready, collected>>
          BY <2>2, Zenon DEF Exit
    <3> QED
          BY <3>1, <3>2, <3>3, DieStep, Zenon
  <2>3. CASE Wait(p)
        BY <2>3, WaitStep, Zenon
  <2> QED
        BY <1>4, <2>1, <2>2, <2>3, QuietActions, Zenon DEF User
<1> QED
      BY <1>1, <1>2, <1>3, <1>4, Zenon DEF Next

\* IInv is an invariant, for any number of processes, signals and workloads.
THEOREM ProcessesSound == Spec => []IInv
<1> QED
      BY InitHolds, NextStep, PTL DEF Spec

\* The children lists and the parent_pid fields always describe the same tree.
THEOREM TreeStaysConsistent == Spec => []TreeConsistent
<1>1. IInv => TreeConsistent
      BY Zenon DEF IInv
<1> QED
      BY <1>1, ProcessesSound, PTL

\* Every process is in the table until its own parent has its exit status.
THEOREM ReapedOnce == Spec => []ReapedByParent
<1>1. IInv => ReapedByParent
      BY Zenon DEF IInv
<1> QED
      BY <1>1, ProcessesSound, PTL

\* The exit of a child between handle_wait's look and its sleep is never missed.
THEOREM NoExitLost == Spec => []NoLostExit
<1>1. IInv => NoLostExit
      BY Zenon DEF IInv, Watch, WillTell, NoLostExit
<1> QED
      BY <1>1, ProcessesSound, PTL

\* What KillIsFinal says of one process.
KillStep(p) ==
    pc[p] = "check" /\ SIGKILL \in pending[p] =>
          \/ pc'[p] = "check" /\ SIGKILL \in pending'[p]
          \/ pc'[p] = "dying" /\ status'[p] = <<128 + SIGKILL>>

\* check_signals takes SIGKILL before all others, and nothing stops it.
LEMMA KillTaken ==
    ASSUME IInv, NEW p \in Pids, CheckSignal(p), SIGKILL \in pending[p]
    PROVE  pc'[p] = "dying" /\ status'[p] = <<128 + SIGKILL>>
<1>1. SIGKILL \in Deliverable(p)
      BY Zenon DEF Deliverable, Unblockable
<1>2. Dequeue(Deliverable(p)) = SIGKILL
      BY <1>1, Zenon DEF Dequeue
<1>3. Disposition(p, SIGKILL) = Default
      BY Zenon DEF Disposition, Unblockable
<1>4. ~Ignores(p, SIGKILL) /\ Default.to # "handler"
      BY <1>3 DEF Ignores, Default, SIGKILL, SIGCHLD
<1>5. \/ SetStatus(p, 128 + SIGKILL)
      \/ Ignores(p, SIGKILL)
      \/ Disposition(p, SIGKILL).to = "handler"
      BY <1>2, Zenon DEF CheckSignal
<1> QED
      BY <1>3, <1>4, <1>5, Zenon DEF SetStatus, Goto, IInv, Typed

\* The steps of other processes neither move a process nor take a signal from it.
LEMMA OthersKeep ==
    ASSUME IInv, NEW p \in Pids, NEW q \in Pids, Kernel(q) \/ User(q), p # q, pc[p] = "check"
    PROVE  pc'[p] = pc[p] /\ pending[p] \subseteq pending'[p]
<1> USE DEF treeVars, signalVars
<1>1. /\ pc \in [Pids -> Live \cup InWait \cup Gone \cup {"unborn"}]
      /\ pending \in [Pids -> SUBSET Signals] /\ table \subseteq Pids
      BY Zenon DEF IInv, Typed
<1>2. CASE Start(q) \/ Resume(q) \/ NotifyExit(q) \/ CheckDone(q) \/ EndOfPass(q) \/ Repoll(q)
        \/ Exit(q) \/ Preempt(q) \/ Block(q)
      BY <1>1, <1>2, Zenon DEF Start, Resume, NotifyExit, CheckDone, EndOfPass, Repoll, Exit, Preempt,
                        Block, Trap, Goto, SetStatus
<1>3. CASE CheckSignal(q)
      BY <1>1, <1>3, Zenon DEF CheckSignal, Goto, SetStatus
<1>4. CASE LookAtChild(q)
      BY <1>1, <1>4, Zenon DEF LookAtChild, Goto
<1>5. CASE Reap(q)
      BY <1>1, <1>5, Zenon DEF Reap, Goto
<1>6. CASE Spawn(q) \/ Clone(q)
  <2>1. next \in Pids /\ pc' = [pc EXCEPT ![next] = "start"] /\ pending' = pending
        BY <1>6, Zenon DEF Spawn, Clone, Register
  <2>4. next \in 2 .. MaxPid + 1
        BY Zenon DEF IInv, Typed
  <2>5. MaxPid \in Nat
        BY ProcessAssumption, Zenon
  <2>2. next \in Nat /\ next >= next
        BY <2>4, <2>5
  <2>3. pc[next] = "unborn"
        BY <2>1, <2>2, Zenon DEF IInv, Births
  <2> QED
        BY <1>1, <2>1, <2>3, Zenon
<1>7. CASE SetPgid(q) \/ SigProcMask(q) \/ SigAction(q) \/ Exec(q)
      BY <1>1, <1>7, Zenon DEF SetPgid, SigProcMask, SigAction, Exec
<1>8. CASE Kill(q)
      BY <1>1, <1>8, Zenon DEF Kill, Post
<1>9. CASE Complete(q)
      BY <1>1, <1>9, Zenon DEF Complete, Goto
<1>10. CASE Wait(q)
  <2>1. PICK l : pc' = [pc EXCEPT ![q] = l]
        BY <1>10, ZenonT(30) DEF Wait, Goto
  <2>2. pending' = pending
        BY <1>10, Zenon DEF Wait
  <2> QED
        BY <1>1, <2>1, <2>2, Zenon
<1> QED
      BY <1>2, <1>3, <1>4, <1>5, <1>6, <1>7, <1>8, <1>9, <1>10, ZenonT(30) DEF Kernel, User

\* No step takes a process that has SIGKILL pending back to userspace from the
\* look at its signals, whatever else is pending, blocked or handled.
THEOREM KillAlwaysFinal == Spec => KillIsFinal
<1> DEFINE A == \A p \in Pids : KillStep(p)
<1>1. IInv /\ [Next]_vars => [A]_vars
  <2> SUFFICES ASSUME IInv, Next, NEW p \in Pids, pc[p] = "check", SIGKILL \in pending[p]
               PROVE  \/ pc'[p] = "check" /\ SIGKILL \in pending'[p]
                      \/ pc'[p] = "dying" /\ status'[p] = <<128 + SIGKILL>>
        BY Zenon DEF KillStep
  <2>1. ASSUME NEW g \in Pids, SignalGroup(g) PROVE pc'[p] = "check" /\ SIGKILL \in pending'[p]
        BY <2>1, Zenon DEF SignalGroup
  <2>2. ASSUME NEW q \in Pids, Kernel(q) \/ User(q), q # p
        PROVE  pc'[p] = "check" /\ SIGKILL \in pending'[p]
        BY <2>2, OthersKeep, Zenon
  <2>3. ASSUME Kernel(p) \/ User(p) PROVE CheckSignal(p)
    <3>1. SIGKILL \in Deliverable(p)
          BY Zenon DEF Deliverable, Unblockable
    <3> QED
          BY <2>3, <3>1, Zenon DEF Kernel, User, Start, Resume, NotifyExit, CheckDone, LookAtChild, EndOfPass,
             Repoll, Reap, Spawn, Clone, SetPgid, Exit, Kill, SigProcMask, SigAction, Preempt, Block,
             Complete, Exec, Wait, Trap
  <2>4. ASSUME Kernel(p) \/ User(p)
        PROVE  pc'[p] = "dying" /\ status'[p] = <<128 + SIGKILL>>
        BY <2>3, <2>4, KillTaken, Zenon
  <2> QED
        BY <2>1, <2>2, <2>4, Zenon DEF Next
<1>2. [][A]_vars => KillIsFinal
      BY PTL DEF KillIsFinal, KillStep
<1> QED
      BY <1>1, <1>2, ProcessesSound, PTL DEF Spec
=============================================================================
