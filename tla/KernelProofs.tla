---------------------------- MODULE KernelProofs ----------------------------
(***************************************************************************)
(* Proofs about two components of the kernel that do not use each other.     *)
(*                                                                          *)
(* The context switch (kernel/kernel/src/proc/mod.rs): ContextSafe says where *)
(* the registers of a thread are at each of its places, and every trap,      *)
(* await and migration keeps it.                                             *)
(*                                                                          *)
(* The allocator of address ranges (kernel/mm/src/region.rs): the four       *)
(* properties of RegionAlloc are read off one invariant, RaInv, that says    *)
(* how free, live and lost ranges lie in the region.  Every lemma is about   *)
(* one function of the allocator; the first two give the choice of a least   *)
(* and of a greatest address its meaning.                                    *)
(***************************************************************************)
EXTENDS ContextSwitch, RegionAlloc, WellFoundedInduction, FiniteSetTheorems, TLAPS

-----------------------------------------------------------------------------
(* The context switch *)

\* A thread that awaits has in its locals what it should find, one that has not
\* started will be given it, and a CPU runs one thread at a time.
ContextSafe ==
    /\ pc \in [Threads -> {"new", "user", "awaiting"}] /\ cpu \in [Threads -> Cpus]
    /\ regs = [c \in Cpus |-> regs[c]] /\ fpu = [c \in Cpus |-> fpu[c]]
    /\ local = [t \in Threads |-> local[t]] /\ version = [t \in Threads |-> version[t]]
    /\ userRegs = [t \in Threads |-> userRegs[t]] /\ userFpu = [t \in Threads |-> userFpu[t]]
    /\ \A t, u \in Threads : pc[t] = "user" /\ pc[u] = "user" /\ cpu[t] = cpu[u] => t = u
    /\ \A t \in Threads : pc[t] = "awaiting" => local[t] = <<userRegs[t], userFpu[t]>>
    /\ \A t \in Threads : pc[t] = "new" => userRegs[t] = Fresh(t) /\ userFpu[t] = Fresh(t)
    /\ RegistersKept /\ FpuKept

\* ContextSafe holds when no thread has started.
LEMMA ContextInit == Init => ContextSafe
BY ContextAssumption DEF Init, ContextSafe, RegistersKept, FpuKept, Fresh, Blank

\* An entry from userspace, an await's end and a migration keep ContextSafe.
LEMMA ContextStep ==
    ASSUME ContextSafe, NEW t \in Threads, Step(t)
    PROVE  ContextSafe'
<1> USE DEF ContextSafe, RegistersKept, FpuKept, Goto, Fresh
<1>1. CASE FirstEntry(t)
  BY <1>1, ZenonT(30) DEF FirstEntry, OnCpu, areas
<1>2. CASE CloneEntry(t)
  BY <1>2, ZenonT(30) DEF CloneEntry, OnCpu, ResumeUser, history
<1>3. CASE Compute(t)
  BY <1>3, ZenonT(30) DEF Compute, areas
<1>4. CASE FastSyscall(t)
  BY <1>4, ZenonT(30) DEF FastSyscall, history
<1>5. CASE Preempt(t)
  BY <1>5, ZenonT(30) DEF Preempt, history
<1>6. CASE BlockIn(t)
  BY <1>6, ZenonT(30) DEF BlockIn
<1>7. CASE SigReturn(t)
  BY <1>7, ZenonT(30) DEF SigReturn
<1>8. CASE ExecFails(t)
  BY <1>8, ZenonT(30) DEF ExecFails, ResumeUser
<1>9. CASE ExecSucceeds(t)
  BY <1>9, ZenonT(30) DEF ExecSucceeds
<1>10. CASE AwaitDone(t)
  <2>1. local[t] = <<userRegs[t], userFpu[t]>> /\ pc[t] = "awaiting"
    BY <1>10, Zenon DEF AwaitDone
  <2>2. local[t][1] = userRegs[t] /\ local[t][2] = userFpu[t]
    <3> HIDE DEF ContextSafe
    <3> QED BY <2>1
  <2>3. CASE Reenter(t)
    <3>1. ResumeUser(t, userRegs[t], userFpu[t])
      BY <2>2, <2>3, Zenon DEF Reenter
    <3>2. /\ pc' = [pc EXCEPT ![t] = "user"] /\ UNCHANGED <<cpu, local, version, userRegs, userFpu>>
          /\ regs' = [regs EXCEPT ![cpu[t]] = userRegs[t]]
          /\ fpu' = [fpu EXCEPT ![cpu[t]] = userFpu[t]]
          /\ \A u \in Threads : pc[u] = "user" => cpu[u] # cpu[t]
      BY <1>10, <2>3, <3>1, Zenon DEF AwaitDone, OnCpu, Reenter, ResumeUser
    <3> QED BY <3>2, ZenonT(30)
  <2>4. CASE ReenterHandler(t)
    <3>1. ResumeUser(t, <<t, version[t] + 1>>, userFpu[t])
      BY <2>2, <2>4, Zenon DEF ReenterHandler
    <3>2. /\ pc' = [pc EXCEPT ![t] = "user"] /\ UNCHANGED <<cpu, local, userFpu>>
          /\ version' = [version EXCEPT ![t] = @ + 1]
          /\ userRegs' = [userRegs EXCEPT ![t] = <<t, version[t] + 1>>]
          /\ regs' = [regs EXCEPT ![cpu[t]] = <<t, version[t] + 1>>]
          /\ fpu' = [fpu EXCEPT ![cpu[t]] = userFpu[t]]
          /\ \A u \in Threads : pc[u] = "user" => cpu[u] # cpu[t]
      BY <1>10, <2>4, <3>1, Zenon DEF AwaitDone, OnCpu, ReenterHandler, ResumeUser
    <3> QED BY <3>2, ZenonT(30)
  <2> QED BY <1>10, <2>3, <2>4, Zenon DEF AwaitDone
<1>11. CASE Migrate(t)
  <2>1. PICK c \in Cpus : cpu' = [cpu EXCEPT ![t] = c]
    BY <1>11, Zenon DEF Migrate
  <2>2. /\ pc[t] = "awaiting"
        /\ UNCHANGED <<pc, regs, fpu, local, version, userRegs, userFpu>>
    BY <1>11, Zenon DEF Migrate, areas, history
  <2>3. cpu' \in [Threads -> Cpus] /\ \A u \in Threads : pc[u] = "user" => cpu'[u] = cpu[u]
    BY <2>1, <2>2, Zenon
  <2> QED BY <2>2, <2>3, ZenonT(30)
<1> QED BY <1>1, <1>2, <1>3, <1>4, <1>5, <1>6, <1>7, <1>8, <1>9, <1>10, <1>11, Zenon
        DEF Step, TrapWait, TrapAccept, TrapSleep, TrapFutex, TrapPoll, TrapIo

\* The invariant of the context switch.
LEMMA ContextSound == Spec => []ContextSafe
<1>1. ContextSafe /\ [Next]_vars => ContextSafe'
  <2> SUFFICES ASSUME ContextSafe, [Next]_vars PROVE ContextSafe'
    OBVIOUS
  <2>1. CASE UNCHANGED vars
    BY <2>1, Zenon DEF vars, ContextSafe, RegistersKept, FpuKept, Fresh
  <2>2. CASE Next
    BY <2>2, ContextStep DEF Next
  <2> QED BY <2>1, <2>2
<1> QED BY <1>1, ContextInit, PTL DEF Spec

\* A thread finds its registers as it left them, however many threads share its
\* old and its new CPU, and whichever traps, signals and migrations lie between.
THEOREM RegistersSurvive == Spec => []RegistersKept
<1>1. ContextSafe => RegistersKept
  BY DEF ContextSafe
<1> QED BY <1>1, ContextSound, PTL

\* So it does the FPU, where the code saves it (not at sigreturn and a failed
\* execve, which load the area of the CPU).
THEOREM FpuSurvives == Spec => []FpuKept
<1>1. ContextSafe => FpuKept
  BY DEF ContextSafe
<1> QED BY <1>1, ContextSound, PTL

-----------------------------------------------------------------------------
(* The region allocator *)

\* A set of numbers has a least element: what Least returns (find_region's first fit).
LEMMA LeastExists ==
    ASSUME NEW S \in SUBSET Nat, S # {}
    PROVE  /\ Least(S) \in S
           /\ \A y \in S : Least(S) <= y
<1> DEFINE R == {p \in Nat \X Nat : p[1] < p[2]}
<1>1. IsWellFoundedOn(R, Nat)
      BY NatLessThanWellFounded, Zenon DEF OpToRel
<1>a. \A a, b \in Nat : <<a, b>> \in R <=> a < b
      BY Zenon
<1> HIDE DEF R
<1>2. PICK x \in S : \A y \in S : ~(<<y, x>> \in R)
      BY <1>1, WFMin, Zenon
<1>3. ASSUME NEW y \in S PROVE x <= y
  <2>1. x \in Nat /\ y \in Nat
        BY Zenon
  <2>2. ~(y < x)
        BY <2>1, <1>2, <1>a, Zenon
  <2> QED
        BY <2>1, <2>2
<1> QED
      BY <1>3, Zenon DEF Least

\* A bounded set of numbers has a greatest element: what Greatest returns (the
\* neighbour below that deallocate looks for).
LEMMA GreatestExists ==
    ASSUME NEW S \in SUBSET Nat, S # {}, NEW m \in Nat, \A y \in S : y <= m
    PROVE  /\ Greatest(S) \in S
           /\ \A y \in S : Greatest(S) >= y
<1> DEFINE D == {m - y : y \in S}
<1>1. D \in SUBSET Nat /\ D # {}
  <2>1. \A y \in S : m - y \in Nat
        OBVIOUS
  <2> QED
        BY <2>1, Zenon
<1>2. PICK x \in S : m - x = Least(D)
      BY <1>1, LeastExists, Zenon
<1>3. \A y \in S : x >= y
      BY <1>1, <1>2, LeastExists
<1> QED
      BY <1>3, Zenon DEF Greatest

\* Rounding a request up to a page gives a number that fits above the region, and
\* rounding it again changes nothing.
LEMMA PageAligned ==
    ASSUME NEW s \in Lengths
    PROVE  /\ PageAlignUp(s) \in Nat
           /\ PageAlignUp(PageAlignUp(s)) = PageAlignUp(s)
           /\ Region.end + PageAlignUp(s) < AddressWord
<1> DEFINE k == (s + PageSize - 1) \div PageSize
           n == k * PageSize
<1> USE PageSizeAssumption, WordAssumption, RegionAssumption, NoOverflow
<1>0. s \in Nat /\ Region.end + s + 2 * PageSize <= AddressWord
      OBVIOUS
<1>1. k \in Nat /\ n \in Nat /\ n <= s + PageSize - 1
      BY <1>0
<1>2. ASSUME NEW q \in Nat PROVE (q * PageSize + PageSize - 1) \div PageSize = q
      OBVIOUS
<1>3. PageAlignUp(s) = n
      BY <1>0 DEF PageAlignUp, Plus
<1>4. (n + PageSize - 1) \div PageSize = k
      BY <1>1, <1>2, Zenon
<1> HIDE DEF n
<1>5. Plus(n, PageSize - 1) = n + PageSize - 1
      BY <1>0, <1>1 DEF Plus
<1>6. PageAlignUp(n) = n
      BY <1>4, <1>5, Zenon DEF PageAlignUp, n
<1> QED
      BY <1>0, <1>1, <1>3, <1>6

-----------------------------------------------------------------------------
(***************************************************************************)
(* Tables of ranges.                                                         *)
(***************************************************************************)
\* A table of ranges: addresses and lengths are numbers, and no range is empty.
Ranges(f) ==
    /\ DOMAIN f \subseteq Nat
    /\ \A a \in DOMAIN f : f[a] \in Nat \ {0}

\* No range ends where another one begins.
NoneTouch(f) == \A a \in DOMAIN f : a + f[a] \notin DOMAIN f

\* Every length is a number of pages: deallocate rounds it up to itself.
Aligned(f) == \A a \in DOMAIN f : PageAlignUp(f[a]) = f[a]

\* The n bytes at a lie beside every range of f.
Beside(f, a, n) == \A b \in DOMAIN f : b + f[b] <= a \/ a + n <= b

\* allocate() from a free range b: the first n bytes leave the table, and no other.
LEMMA CarveFacts ==
    ASSUME NEW f, Ranges(f), Apart(f), NoneTouch(f),
           NEW b \in DOMAIN f, NEW n \in Nat \ {0}, n <= f[b]
    PROVE  LET g == Carve(f, b, n)
           IN  /\ Ranges(g) /\ Apart(g) /\ NoneTouch(g) /\ Beside(g, b, n)
               /\ \A c \in DOMAIN g : \E d \in DOMAIN f : d <= c /\ c + g[c] = d + f[d]
               /\ Covered(f) = Covered(g) \cup b..(b + n - 1)
<1> DEFINE g == Carve(f, b, n)
<1> f[b] \in Nat \ {0} /\ b \in Nat /\ DOMAIN f \subseteq Nat
      BY Zenon DEF Ranges
<1>1. CASE f[b] = n
  <2>1. DOMAIN g = DOMAIN f \ {b} /\ \A x \in DOMAIN g : g[x] = f[x]
        BY <1>1, Zenon DEF Carve, Without
  <2> HIDE DEF g
  <2>2. Ranges(g) /\ Apart(g) /\ NoneTouch(g) /\ Beside(g, b, n)
        BY <1>1, <2>1 DEF Ranges, Apart, NoneTouch, Beside
  <2>3. \A c \in DOMAIN g : \E d \in DOMAIN f : d <= c /\ c + g[c] = d + f[d]
        BY <2>1 DEF Ranges
  <2>4. Covered(f) = Covered(g) \cup b..(b + n - 1)
        BY <1>1, <2>1, Zenon DEF Covered, Bytes
  <2> QED
        BY <2>2, <2>3, <2>4, Zenon DEF g
<1>2. CASE f[b] # n
  <2>1. /\ DOMAIN g = (DOMAIN f \ {b}) \cup {b + n}
        /\ g[b + n] = f[b] - n
        /\ \A x \in DOMAIN f \ {b} : x # b + n => g[x] = f[x]
        BY <1>2, Zenon DEF Carve, With, Without
  <2>2. b + n \notin DOMAIN f
        BY <1>2 DEF Apart, Ranges
  <2> HIDE DEF g
  <2>3. Ranges(g) /\ Apart(g) /\ Beside(g, b, n)
        BY <1>2, <2>1, <2>2 DEF Ranges, Apart, Beside
  <2>4. NoneTouch(g)
        BY <1>2, <2>1, <2>2 DEF Ranges, Apart, NoneTouch
  <2>5. \A c \in DOMAIN g : \E d \in DOMAIN f : d <= c /\ c + g[c] = d + f[d]
        BY <2>1, <2>2 DEF Ranges
  <2>6. Covered(f) = Covered(g) \cup b..(b + n - 1)
    <3>1. ASSUME NEW x \in Covered(f) PROVE x \in Covered(g) \cup b..(b + n - 1)
          BY <1>2, <2>1, <2>2 DEF Covered, Bytes
    <3>2. ASSUME NEW x \in Covered(g) PROVE x \in Covered(f)
          BY <1>2, <2>1, <2>2 DEF Covered, Bytes
    <3>3. ASSUME NEW x \in b..(b + n - 1) PROVE x \in Covered(f)
          BY <1>2 DEF Covered, Bytes
    <3> QED
          BY <3>1, <3>2, <3>3, Zenon
  <2> QED
        BY <2>3, <2>4, <2>5, <2>6, Zenon DEF g
<1> QED
      BY <1>1, <1>2, Zenon

\* The two comparisons of deallocate() find exactly the ranges that touch the one
\* given back.
LEMMA Neighbours ==
    ASSUME NEW f, Ranges(f), Apart(f), NEW a \in Nat, NEW n \in Nat \ {0}, Beside(f, a, n)
    PROVE  /\ MergesNext(f, a, n) <=> a + n \in DOMAIN f
           /\ MergesPrev(f, a) <=> \E c \in DOMAIN f : c + f[c] = a
           /\ MergesPrev(f, a) => /\ Greatest(Before(f, a)) \in DOMAIN f
                                  /\ Greatest(Before(f, a)) + f[Greatest(Before(f, a))] = a
<1>1. MergesNext(f, a, n) <=> a + n \in DOMAIN f
  <2> DEFINE S == From(f, a)
  <2>1. S \in SUBSET Nat /\ S \subseteq DOMAIN f
        BY Zenon DEF From, Ranges
  <2>2. \A c \in S : a + n <= c
        BY DEF From, Ranges, Beside
  <2>3. a + n \in DOMAIN f => a + n \in S
        BY DEF From
  <2> HIDE DEF S
  <2>4. S # {} => Least(S) \in S /\ \A y \in S : Least(S) <= y
        BY <2>1, LeastExists, Zenon
  <2>5. ASSUME a + n \in S PROVE Least(S) = a + n
    <3>1. Least(S) \in Nat /\ Least(S) <= a + n /\ a + n <= Least(S)
          BY <2>1, <2>2, <2>4, <2>5, Zenon
    <3> QED
          BY <3>1
  <2>6. (S # {} /\ Least(S) = a + n) <=> a + n \in DOMAIN f
        BY <2>1, <2>3, <2>4, <2>5, Zenon
  <2> QED
        BY <2>6, Zenon DEF MergesNext, S
<1>2. /\ MergesPrev(f, a) <=> \E c \in DOMAIN f : c + f[c] = a
      /\ MergesPrev(f, a) => /\ Greatest(Before(f, a)) \in DOMAIN f
                             /\ Greatest(Before(f, a)) + f[Greatest(Before(f, a))] = a
  <2> DEFINE S == Before(f, a)
             p == Greatest(S)
  <2>1. S \in SUBSET Nat /\ S \subseteq DOMAIN f /\ \A y \in S : y <= a
        BY DEF Before, Ranges
  <2>2. \A c \in DOMAIN f : c + f[c] = a => c \in S
        BY DEF Before, Ranges
  <2>3. \A c, d \in S : c + f[c] = a /\ d >= c => d = c
        BY DEF Before, Ranges, Apart, Beside
  <2>4. MergesPrev(f, a) <=> S # {} /\ p + f[p] = a
        BY Zenon DEF MergesPrev
  <2> HIDE DEF S
  <2>5. S # {} => p \in S /\ \A y \in S : p >= y
        BY <2>1, GreatestExists, Zenon
  <2> HIDE DEF p
  <2>6. ASSUME NEW c \in DOMAIN f, c + f[c] = a PROVE S # {} /\ p + f[p] = a
        BY <2>2, <2>3, <2>5, <2>6, Zenon
  <2>7. MergesPrev(f, a) <=> \E c \in DOMAIN f : c + f[c] = a
        BY <2>1, <2>4, <2>5, <2>6, Zenon
  <2>8. MergesPrev(f, a) => p \in DOMAIN f /\ p + f[p] = a
        BY <2>1, <2>4, <2>5, Zenon
  <2> QED
        BY <2>7, <2>8, Zenon DEF p, S
<1> QED
      BY <1>1, <1>2, Zenon

\* deallocate() of n bytes at a, with each of the four ways of merging: the table
\* gains these bytes and no other, and what lay beside both still lies beside.
LEMMA MergeFacts ==
    ASSUME NEW f, Ranges(f), Apart(f), NoneTouch(f),
           NEW a \in Nat, NEW n \in Nat \ {0}, Beside(f, a, n)
    PROVE  LET g == Merge(f, a, n)
           IN  /\ Ranges(g) /\ Apart(g) /\ NoneTouch(g)
               /\ \A x \in Nat, s \in Nat \ {0} :
                     Beside(f, x, s) /\ (x + s <= a \/ a + n <= x) => Beside(g, x, s)
               /\ \A low, high \in Nat :
                     /\ low <= a /\ a + n <= high
                     /\ \A c \in DOMAIN f : low <= c /\ c + f[c] <= high
                     => \A c \in DOMAIN g : low <= c /\ c + g[c] <= high
               /\ Covered(g) = Covered(f) \cup a..(a + n - 1)
<1> DEFINE g == Merge(f, a, n)
           p == Greatest(Before(f, a))
           prev == MergesPrev(f, a)
           next == MergesNext(f, a, n)
           lo == IF prev THEN p ELSE a
           hi == IF next THEN a + n + f[a + n] ELSE a + n
           Inner == {c \in DOMAIN f : lo <= c /\ c < hi}
<1>1. /\ next <=> a + n \in DOMAIN f
      /\ prev <=> \E c \in DOMAIN f : c + f[c] = a
      /\ prev => p \in DOMAIN f /\ p + f[p] = a
      BY Neighbours, Zenon
<1>2. /\ lo \in Nat /\ hi \in Nat /\ lo <= a /\ a + n <= hi
      /\ lo < a => lo \in DOMAIN f /\ lo + f[lo] = a
      /\ a + n < hi => a + n \in DOMAIN f /\ hi = a + n + f[a + n]
      BY <1>1 DEF Ranges
<1>3. Inner = (IF prev THEN {p} ELSE {}) \cup (IF next THEN {a + n} ELSE {})
      BY <1>1 DEF Ranges, Apart, Beside
<1>4. /\ DOMAIN g = (DOMAIN f \ Inner) \cup {lo}
      /\ g[lo] = hi - lo
      /\ \A c \in DOMAIN f \ Inner : c # lo /\ g[c] = f[c]
  <2>1. CASE prev /\ next
    <3>1. g = With(Without(f, {p, a + n}), p, f[p] + n + f[a + n])
          BY <2>1, Zenon DEF Merge
    <3> QED
          BY <1>1, <1>3, <2>1, <3>1 DEF With, Without, Ranges
  <2>2. CASE prev /\ ~next
    <3>1. g = With(f, p, f[p] + n)
          BY <2>2, Zenon DEF Merge
    <3> QED
          BY <1>1, <1>3, <2>2, <3>1 DEF With, Ranges
  <2>3. CASE ~prev /\ next
    <3>1. g = With(Without(f, {a + n}), a, n + f[a + n])
          BY <2>3, Zenon DEF Merge
    <3> QED
          BY <1>1, <1>3, <2>3, <3>1 DEF With, Without, Ranges, Beside
  <2>4. CASE ~prev /\ ~next
    <3>1. g = With(f, a, n)
          BY <2>4, Zenon DEF Merge
    <3> QED
          BY <1>1, <1>3, <2>4, <3>1 DEF With, Ranges, Beside
  <2> HIDE DEF prev, next
  <2> QED
        BY <2>1, <2>2, <2>3, <2>4, Zenon
<1>5. \A c \in DOMAIN f \ Inner : c + f[c] < lo \/ hi < c
  <2>1. SUFFICES ASSUME NEW c \in DOMAIN f \ Inner PROVE c + f[c] < lo \/ hi < c
        BY Zenon
  <2>2. c + f[c] # lo
        BY <1>1, Zenon DEF NoneTouch
  <2>3. c # hi
        BY <1>1, Zenon DEF NoneTouch
  <2> HIDE DEF lo, hi
  <2> QED
        BY <1>2, <2>2, <2>3 DEF Ranges, Apart, Beside
<1> HIDE DEF g, p, prev, next, lo, hi
<1>6. Ranges(g)
      BY <1>2, <1>4 DEF Ranges
<1>7. Apart(g)
      BY <1>2, <1>4, <1>5 DEF Ranges, Apart
<1>8. NoneTouch(g)
      BY <1>2, <1>4, <1>5 DEF Ranges, Apart, NoneTouch
<1>9. ASSUME NEW x \in Nat, NEW s \in Nat \ {0}, Beside(f, x, s), x + s <= a \/ a + n <= x
      PROVE  Beside(g, x, s)
  <2>1. x + s <= lo \/ hi <= x
        BY <1>2, <1>9 DEF Ranges, Beside
  <2> QED
        BY <1>2, <1>4, <1>9, <2>1 DEF Beside
<1>10. ASSUME NEW low \in Nat, NEW high \in Nat, low <= a, a + n <= high,
              \A c \in DOMAIN f : low <= c /\ c + f[c] <= high
       PROVE  \A c \in DOMAIN g : low <= c /\ c + g[c] <= high
  <2>1. low <= lo /\ hi <= high
        BY <1>2, <1>10
  <2> QED
        BY <1>2, <1>4, <1>10, <2>1
<1>11. Covered(g) = Covered(f) \cup a..(a + n - 1)
  <2>1. lo..(hi - 1) = a..(a + n - 1) \cup UNION {Bytes(f, c) : c \in Inner}
    <3>1. ASSUME NEW x \in lo..(hi - 1)
          PROVE  x \in a..(a + n - 1) \/ \E c \in Inner : x \in Bytes(f, c)
      <4>1. CASE x < a
            BY <1>2, <3>1, <4>1 DEF Bytes, Ranges
      <4>2. CASE x >= a + n
            BY <1>2, <3>1, <4>2 DEF Bytes, Ranges
      <4> QED
            BY <1>2, <4>1, <4>2
    <3>2. ASSUME NEW c \in Inner PROVE c + f[c] <= hi
          BY <1>2, <3>2 DEF Ranges, Apart, Beside
    <3> QED
          BY <1>2, <3>1, <3>2 DEF Bytes, Ranges
  <2>2. \A c \in DOMAIN f \ Inner : Bytes(g, c) = Bytes(f, c)
        BY <1>4, Zenon DEF Bytes
  <2>3. Bytes(g, lo) = lo..(hi - 1)
        BY <1>2, <1>4 DEF Bytes
  <2> HIDE DEF Inner
  <2>4. Inner \subseteq DOMAIN f
        BY Zenon DEF Inner
  <2>5. Covered(g) = (UNION {Bytes(f, c) : c \in DOMAIN f \ Inner}) \cup lo..(hi - 1)
        BY <1>4, <2>2, <2>3, Zenon DEF Covered
  <2>6. Covered(f) = (UNION {Bytes(f, c) : c \in DOMAIN f \ Inner})
                        \cup (UNION {Bytes(f, c) : c \in Inner})
        BY <2>4, Zenon DEF Covered
  <2> QED
        BY <2>1, <2>5, <2>6, Zenon
<1> QED
      BY <1>6, <1>7, <1>8, <1>9, <1>10, <1>11, Zenon DEF g

\* retract_watermark() drops at most one range, the one that ends at the
\* watermark, and moves the watermark to where it began.
LEMMA RetractFacts ==
    ASSUME NEW f, Ranges(f), Apart(f), NoneTouch(f), NEW m \in Nat,
           \A c \in DOMAIN f : c + f[c] <= m
    PROVE  LET r == RetractWatermark([free |-> f, mark |-> m])
           IN  /\ r = [free |-> r.free, mark |-> r.mark]
               /\ r.mark \in Nat
               /\ r.mark = m \/ (r.mark \in DOMAIN f /\ r.mark + f[r.mark] = m)
               /\ DOMAIN r.free = {c \in DOMAIN f : c < r.mark}
               /\ \A c \in DOMAIN r.free : r.free[c] = f[c] /\ c + f[c] < r.mark
               /\ \A c \in DOMAIN f : c < r.mark \/ c = r.mark
<1> DEFINE q == [free |-> f, mark |-> m]
           r == RetractWatermark(q)
           tail == {b \in DOMAIN f : Reaches(q, b)}
           top == Least(tail \cup {m})
<1>1. ASSUME NEW b \in DOMAIN f PROVE Reaches(q, b) <=> b + f[b] = m
  <2>1. Reaches(q, b) <=> \A x \in b..(m - 1) : \E e \in DOMAIN f : b <= e /\ e <= x /\ x < e + f[e]
        BY Zenon DEF Reaches
  <2>2. ASSUME Reaches(q, b), b + f[b] # m PROVE FALSE
    <3>1. b + f[b] \in b..(m - 1)
          BY <1>1, <2>2 DEF Ranges
    <3>2. PICK e \in DOMAIN f : b <= e /\ e <= b + f[b] /\ b + f[b] < e + f[e]
          BY <2>1, <2>2, <3>1, Zenon
    <3>3. e = b + f[b]
          BY <3>2 DEF Ranges, Apart
    <3> QED
          BY <3>3, Zenon DEF NoneTouch
  <2>3. ASSUME b + f[b] = m PROVE Reaches(q, b)
        BY <2>1, <2>3 DEF Ranges
  <2> QED
        BY <2>2, <2>3, Zenon
<1>2. tail = {b \in DOMAIN f : b + f[b] = m}
      BY <1>1, Zenon
<1>3. r = [free |-> Without(f, From(f, top)), mark |-> top]
      BY Zenon DEF RetractWatermark
<1> HIDE DEF q, r, tail
<1>4. top \in tail \cup {m} /\ \A c \in tail \cup {m} : top <= c
  <2>1. tail \cup {m} \in SUBSET Nat
        BY <1>2, Zenon DEF Ranges
  <2> QED
        BY <2>1, LeastExists, Zenon
<1> HIDE DEF top
<1>5. /\ top \in Nat
      /\ top = m \/ (top \in DOMAIN f /\ top + f[top] = m)
      BY <1>2, <1>4, Zenon DEF Ranges
<1>6. \A c \in DOMAIN f : c + f[c] < top \/ c = top
  <2>1. SUFFICES ASSUME NEW c \in DOMAIN f, c # top PROVE c + f[c] < top
        BY Zenon
  <2>2. CASE top = m
    <3>1. c + f[c] # m
          BY <1>2, <1>4, <2>2 DEF Ranges
    <3> QED
          BY <2>2, <3>1 DEF Ranges
  <2>3. CASE top \in DOMAIN f /\ top + f[top] = m
        BY <2>1, <2>3 DEF Ranges, Apart, NoneTouch
  <2> QED
        BY <1>5, <2>2, <2>3, Zenon
<1>7. From(f, top) = {c \in DOMAIN f : c = top}
      BY <1>5, <1>6 DEF From, Ranges
<1>8. DOMAIN r.free = {c \in DOMAIN f : c < top} /\ \A c \in DOMAIN r.free : r.free[c] = f[c]
      BY <1>3, <1>5, <1>6, <1>7 DEF Without, Ranges
<1>9. /\ r = [free |-> r.free, mark |-> r.mark]
      /\ r.mark = top
      BY <1>3, Zenon
<1>10. \A c \in DOMAIN f : c < top \/ c = top
      BY <1>5, <1>6 DEF Ranges
<1>11. \A c \in DOMAIN r.free : c + f[c] < top
      BY <1>5, <1>6, <1>8
<1> QED
      BY <1>5, <1>8, <1>9, <1>10, <1>11, Zenon DEF r, q

-----------------------------------------------------------------------------
(***************************************************************************)
(* The inductive invariant, as a predicate on the free table, the watermark  *)
(* and the tables of live and lost ranges.                                   *)
(***************************************************************************)
\* Every range of f lies in the region, below m.
Below(f, m) == \A a \in DOMAIN f : Region.base <= a /\ a + f[a] <= m

\* What holds of the allocator inside deallocate(), before retract_watermark().
Kept(f, m, live, lost) ==
    /\ Ranges(f) /\ Ranges(live) /\ Ranges(lost)
    /\ Aligned(live)
    /\ Apart(f) /\ Apart(live) /\ Apart(lost)
    /\ ApartFrom(live, f) /\ ApartFrom(live, lost) /\ ApartFrom(f, lost)
    /\ m \in Nat /\ Region.base <= m /\ m <= Region.end
    /\ Below(f, m) /\ Below(live, m) /\ Below(lost, m)
    /\ NoneTouch(f)
    /\ Region.base..(m - 1) = Covered(live) \cup Covered(f) \cup Covered(lost)

\* What holds between calls.
Sound(f, m, live, lost) ==
    /\ Kept(f, m, live, lost)
    /\ \A a \in DOMAIN f : a + f[a] # m

\* The free ranges fit in the array.
InArray(f) == IsFiniteSet(DOMAIN f) /\ Cardinality(DOMAIN f) <= Region.cap

\* The inductive invariant.
RaInv ==
    /\ raAlloc = [free |-> raAlloc.free, mark |-> raAlloc.mark]
    /\ Sound(raAlloc.free, raAlloc.mark, raLive, raLost)
    /\ InArray(raAlloc.free)

\* A new range adds its bytes.
LEMMA CoveredWith ==
    ASSUME NEW f, NEW a, NEW n, a \notin DOMAIN f
    PROVE  Covered(With(f, a, n)) = Covered(f) \cup a..(a + n - 1)
<1> DEFINE g == With(f, a, n)
<1>1. DOMAIN g = DOMAIN f \cup {a} /\ g[a] = n /\ \A x \in DOMAIN f : g[x] = f[x]
      BY Zenon DEF With
<1> HIDE DEF g
<1>2. Bytes(g, a) = a..(a + n - 1) /\ \A x \in DOMAIN f : Bytes(g, x) = Bytes(f, x)
      BY <1>1, Zenon DEF Bytes
<1>3. Covered(g) = Covered(f) \cup a..(a + n - 1)
      BY <1>1, <1>2, Zenon DEF Covered
<1> QED
      BY <1>3, Zenon DEF g

\* A range that is removed takes its bytes with it.
LEMMA CoveredWithout ==
    ASSUME NEW f, NEW a \in DOMAIN f
    PROVE  Covered(f) = Covered(Without(f, {a})) \cup a..(a + f[a] - 1)
<1> DEFINE g == Without(f, {a})
<1>1. DOMAIN g = DOMAIN f \ {a} /\ \A x \in DOMAIN f \ {a} : g[x] = f[x]
      BY Zenon DEF Without
<1> HIDE DEF g
<1>2. Bytes(f, a) = a..(a + f[a] - 1) /\ \A x \in DOMAIN f \ {a} : Bytes(g, x) = Bytes(f, x)
      BY <1>1, Zenon DEF Bytes
<1>3. Covered(f) = Covered(g) \cup a..(a + f[a] - 1)
      BY <1>1, <1>2, Zenon DEF Covered
<1> QED
      BY <1>3, Zenon DEF g

\* A live range is added where neither a live nor a lost range lies.
LEMMA LiveAdded ==
    ASSUME NEW live, NEW lost, Ranges(live), Ranges(lost), Apart(live), ApartFrom(live, lost),
           Aligned(live),
           NEW b \in Nat, NEW n \in Nat \ {0}, PageAlignUp(n) = n,
           Beside(live, b, n), Beside(lost, b, n)
    PROVE  /\ b \notin DOMAIN live
           /\ Ranges(With(live, b, n)) /\ Apart(With(live, b, n)) /\ Aligned(With(live, b, n))
           /\ ApartFrom(With(live, b, n), lost)
<1> DEFINE new == With(live, b, n)
<1>1. b \notin DOMAIN live
      BY DEF Ranges, Beside
<1>2. DOMAIN new = DOMAIN live \cup {b} /\ new[b] = n /\ \A a \in DOMAIN live : new[a] = live[a]
      BY <1>1, Zenon DEF With
<1> HIDE DEF new
<1>4. Ranges(new)
      BY <1>2, Zenon DEF Ranges
<1>5. Apart(new)
      BY <1>2 DEF Ranges, Apart, Beside
<1>6. ApartFrom(new, lost)
      BY <1>2, Zenon DEF Ranges, ApartFrom, Beside
<1>7. Aligned(new)
      BY <1>2, Zenon DEF Aligned
<1> QED
      BY <1>1, <1>4, <1>5, <1>6, <1>7, Zenon DEF new

\* allocate() from a free range keeps the invariant.
LEMMA SoundCarve ==
    ASSUME NEW f, NEW m, NEW live, NEW lost, Sound(f, m, live, lost),
           NEW b \in DOMAIN f, NEW n \in Nat \ {0}, PageAlignUp(n) = n, n <= f[b]
    PROVE  Sound(Carve(f, b, n), m, With(live, b, n), lost)
<1> DEFINE g == Carve(f, b, n)
           new == With(live, b, n)
<1> USE RegionAssumption
<1>0. Kept(f, m, live, lost) /\ \A a \in DOMAIN f : a + f[a] # m
      BY Zenon DEF Sound
<1>a. b \in Nat /\ f[b] \in Nat /\ m \in Nat
      BY <1>0, Zenon DEF Kept, Ranges
<1>1. /\ Ranges(g) /\ Apart(g) /\ NoneTouch(g) /\ Beside(g, b, n)
      /\ \A c \in DOMAIN g : \E d \in DOMAIN f : d <= c /\ c + g[c] = d + f[d]
      /\ Covered(f) = Covered(g) \cup b..(b + n - 1)
      BY <1>0, CarveFacts DEF Kept
<1>2. Beside(live, b, n) /\ Beside(lost, b, n)
      BY <1>0, <1>a DEF Kept, Ranges, ApartFrom, Beside
<1>b. /\ Ranges(live) /\ Ranges(lost) /\ Apart(live) /\ ApartFrom(live, lost)
      /\ Aligned(live)
      BY <1>0, Zenon DEF Kept
<1>3. /\ Ranges(new) /\ Apart(new) /\ ApartFrom(new, lost)
      /\ Aligned(new)
      /\ DOMAIN new = DOMAIN live \cup {b}
      /\ new[b] = n /\ \A a \in DOMAIN live : new[a] = live[a]
      /\ Covered(new) = Covered(live) \cup b..(b + n - 1)
  <2>1. b \notin DOMAIN live /\ Ranges(new) /\ Apart(new) /\ Aligned(new) /\ ApartFrom(new, lost)
        BY <1>2, <1>a, <1>b, LiveAdded, Zenon
  <2>2. DOMAIN new = DOMAIN live \cup {b} /\ new[b] = n /\ \A a \in DOMAIN live : new[a] = live[a]
        BY <2>1, Zenon DEF With
  <2>3. Covered(new) = Covered(live) \cup b..(b + n - 1)
        BY <2>1, CoveredWith, Zenon
  <2> QED
        BY <2>1, <2>2, <2>3, Zenon
<1> HIDE DEF g, new
<1>4. ApartFrom(new, g) /\ ApartFrom(g, lost)
  <2>1. ApartFrom(live, g) /\ ApartFrom(g, lost)
        BY <1>0, <1>1 DEF Kept, Ranges, ApartFrom
  <2> QED
        BY <2>1, <1>1, <1>3, <1>a, Zenon DEF ApartFrom, Beside
<1>5. Below(g, m) /\ Below(new, m)
      BY <1>0, <1>1, <1>3, <1>a DEF Kept, Below, Ranges
<1>6. \A c \in DOMAIN g : c + g[c] # m
      BY <1>0, <1>1, Zenon
<1>7. Region.base..(m - 1) = Covered(new) \cup Covered(g) \cup Covered(lost)
      BY <1>0, <1>1, <1>3, Zenon DEF Kept
<1>8. Kept(g, m, new, lost)
      BY <1>0, <1>1, <1>3, <1>4, <1>5, <1>7, Zenon DEF Kept
<1> QED
      BY <1>6, <1>8, Zenon DEF Sound, g, new

\* allocate() above the watermark keeps the invariant.
LEMMA SoundBump ==
    ASSUME NEW f, NEW m, NEW live, NEW lost, Sound(f, m, live, lost),
           NEW n \in Nat \ {0}, PageAlignUp(n) = n, m + n <= Region.end
    PROVE  Sound(f, m + n, With(live, m, n), lost)
<1> DEFINE new == With(live, m, n)
<1> USE RegionAssumption
<1>0. Kept(f, m, live, lost) /\ \A a \in DOMAIN f : a + f[a] # m
      BY Zenon DEF Sound
<1>a. m \in Nat /\ m + n \in Nat
      BY <1>0 DEF Kept
<1>1. Beside(live, m, n) /\ Beside(lost, m, n) /\ Beside(f, m, n)
      BY <1>0, Zenon DEF Kept, Below, Beside
<1>b. /\ Ranges(live) /\ Ranges(lost) /\ Apart(live) /\ ApartFrom(live, lost)
      /\ Aligned(live)
      BY <1>0, Zenon DEF Kept
<1>2. /\ Ranges(new) /\ Apart(new) /\ ApartFrom(new, lost)
      /\ Aligned(new)
      /\ DOMAIN new = DOMAIN live \cup {m}
      /\ new[m] = n /\ \A a \in DOMAIN live : new[a] = live[a]
      /\ Covered(new) = Covered(live) \cup m..(m + n - 1)
  <2>1. m \notin DOMAIN live /\ Ranges(new) /\ Apart(new) /\ Aligned(new) /\ ApartFrom(new, lost)
        BY <1>1, <1>a, <1>b, LiveAdded, Zenon
  <2>2. DOMAIN new = DOMAIN live \cup {m} /\ new[m] = n /\ \A a \in DOMAIN live : new[a] = live[a]
        BY <2>1, Zenon DEF With
  <2>3. Covered(new) = Covered(live) \cup m..(m + n - 1)
        BY <2>1, CoveredWith, Zenon
  <2> QED
        BY <2>1, <2>2, <2>3, Zenon
<1> HIDE DEF new
<1>3. ApartFrom(new, f)
      BY <1>0, <1>1, <1>2, Zenon DEF Kept, ApartFrom, Beside
<1>4. Below(f, m + n) /\ Below(new, m + n) /\ Below(lost, m + n)
      BY <1>0, <1>2, <1>a DEF Kept, Below, Ranges
<1>5. \A c \in DOMAIN f : c + f[c] # m + n
      BY <1>0, <1>a DEF Kept, Below, Ranges
<1>6. Region.base..(m + n - 1) = Covered(new) \cup Covered(f) \cup Covered(lost)
  <2>1. Region.base..(m + n - 1) = Region.base..(m - 1) \cup m..(m + n - 1)
        BY <1>0, <1>a DEF Kept
  <2> QED
        BY <1>0, <1>2, <2>1, Zenon DEF Kept
<1>7. Kept(f, m + n, new, lost)
      BY <1>0, <1>2, <1>3, <1>4, <1>6, <1>a DEF Kept
<1> QED
      BY <1>5, <1>7, Zenon DEF Sound, new

\* A live range is taken out of its table.
LEMMA Removed ==
    ASSUME NEW live, Ranges(live), Apart(live), NEW a \in DOMAIN live
    PROVE  LET old == Without(live, {a})
           IN  /\ Ranges(old) /\ Apart(old) /\ Beside(old, a, live[a])
               /\ DOMAIN old = DOMAIN live \ {a}
               /\ \A x \in DOMAIN old : old[x] = live[x]
               /\ Covered(live) = Covered(old) \cup a..(a + live[a] - 1)
<1> DEFINE old == Without(live, {a})
<1>1. DOMAIN old = DOMAIN live \ {a} /\ \A x \in DOMAIN old : old[x] = live[x]
      BY Zenon DEF Without
<1>2. Covered(live) = Covered(old) \cup a..(a + live[a] - 1)
      BY CoveredWithout, Zenon
<1> HIDE DEF old
<1>3. Ranges(old)
      BY <1>1, Zenon DEF Ranges
<1>4. Apart(old) /\ Beside(old, a, live[a])
      BY <1>1 DEF Ranges, Apart, Beside
<1> QED
      BY <1>1, <1>2, <1>3, <1>4, Zenon DEF old

\* deallocate with a full array: the range moves from the live to the lost ones.
LEMMA SoundLose ==
    ASSUME NEW f, NEW m, NEW live, NEW lost, Sound(f, m, live, lost), NEW a \in DOMAIN live
    PROVE  Sound(f, m, Without(live, {a}), With(lost, a, live[a]))
<1> DEFINE old == Without(live, {a})
           new == With(lost, a, live[a])
<1>0. Kept(f, m, live, lost) /\ \A c \in DOMAIN f : c + f[c] # m
      BY Zenon DEF Sound
<1>1. /\ Ranges(old) /\ Apart(old) /\ Beside(old, a, live[a])
      /\ DOMAIN old = DOMAIN live \ {a}
      /\ \A x \in DOMAIN old : old[x] = live[x]
      /\ Covered(live) = Covered(old) \cup a..(a + live[a] - 1)
  <2>1. Ranges(live) /\ Apart(live)
        BY <1>0, Zenon DEF Kept
  <2> QED
        BY <2>1, Removed, Zenon
<1>2. a \in Nat /\ live[a] \in Nat \ {0} /\ a \notin DOMAIN lost
      BY <1>0 DEF Kept, Ranges, ApartFrom
<1>3. DOMAIN new = DOMAIN lost \cup {a} /\ new[a] = live[a] /\ \A x \in DOMAIN lost : new[x] = lost[x]
      BY <1>2, Zenon DEF With
<1>4. Covered(new) = Covered(lost) \cup a..(a + live[a] - 1)
      BY <1>2, CoveredWith, Zenon
<1> HIDE DEF old, new
<1>5. Ranges(new) /\ Apart(new)
      BY <1>0, <1>2, <1>3 DEF Kept, Ranges, Apart, ApartFrom
<1>6. ApartFrom(old, f) /\ ApartFrom(old, new) /\ ApartFrom(f, new)
  <2>1. ApartFrom(old, f)
        BY <1>0, <1>1, Zenon DEF Kept, ApartFrom
  <2>2. ApartFrom(old, new)
        BY <1>0, <1>1, <1>3, ZenonT(30) DEF Kept, ApartFrom, Beside
  <2>3. ApartFrom(f, new)
        BY <1>0, <1>3, Zenon DEF Kept, ApartFrom
  <2> QED
        BY <2>1, <2>2, <2>3, Zenon
<1>7. Below(old, m) /\ Below(new, m)
      BY <1>0, <1>1, <1>3, Zenon DEF Kept, Below
<1>8. Region.base..(m - 1) = Covered(old) \cup Covered(f) \cup Covered(new)
      BY <1>0, <1>1, <1>4, Zenon DEF Kept
<1>9. Aligned(old)
      BY <1>0, <1>1, Zenon DEF Kept, Aligned
<1>10. Kept(f, m, old, new)
      BY <1>0, <1>1, <1>5, <1>6, <1>7, <1>8, <1>9, Zenon DEF Kept
<1> QED
      BY <1>0, <1>10, Zenon DEF Sound, old, new

\* The watermark moves down to a when everything else lies below a.
LEMMA Lowered ==
    ASSUME NEW f, NEW live, NEW lost, NEW m \in Nat, NEW a \in Nat,
           Ranges(f), Ranges(live), Ranges(lost), Below(f, a), Below(live, a), Below(lost, a),
           a <= m, Region.base..(m - 1) = Covered(live) \cup Covered(f) \cup Covered(lost) \cup a..(m - 1)
    PROVE  Region.base..(a - 1) = Covered(live) \cup Covered(f) \cup Covered(lost)
<1> USE RegionAssumption
<1>1. ASSUME NEW x \in Region.base..(a - 1)
      PROVE  x \in Covered(live) \cup Covered(f) \cup Covered(lost)
  <2>1. x \in Region.base..(m - 1) /\ x \notin a..(m - 1)
        OBVIOUS
  <2> QED
        BY <2>1, Zenon
<1>2. ASSUME NEW g, Ranges(g), Below(g, a) PROVE Covered(g) \subseteq Region.base..(a - 1)
      BY <1>2 DEF Covered, Bytes, Below, Ranges
<1>3. /\ Covered(f) \subseteq Region.base..(a - 1)
      /\ Covered(live) \subseteq Region.base..(a - 1)
      /\ Covered(lost) \subseteq Region.base..(a - 1)
      BY <1>2, Zenon
<1> QED
      BY <1>1, <1>3, Zenon

\* deallocate of the range below the watermark, before the retraction.
LEMMA FreeTop ==
    ASSUME NEW f, NEW m, NEW live, NEW lost, Kept(f, m, live, lost),
           NEW a \in DOMAIN live, a + live[a] = m
    PROVE  Kept(f, a, Without(live, {a}), lost)
<1> DEFINE old == Without(live, {a})
<1> USE RegionAssumption
<1>0. /\ Ranges(live) /\ Apart(live) /\ Ranges(f) /\ Ranges(lost)
      /\ a \in Nat /\ live[a] \in Nat \ {0} /\ m \in Nat
      BY Zenon DEF Kept, Ranges
<1>1. /\ Ranges(old) /\ Apart(old) /\ Beside(old, a, live[a])
      /\ DOMAIN old = DOMAIN live \ {a}
      /\ \A x \in DOMAIN old : old[x] = live[x]
      /\ Covered(live) = Covered(old) \cup a..(a + live[a] - 1)
      BY <1>0, Removed, Zenon
<1> HIDE DEF old
<1>2. ApartFrom(old, f) /\ ApartFrom(old, lost)
      BY <1>1, Zenon DEF Kept, ApartFrom
<1>3. Below(f, a) /\ Below(lost, a)
      BY <1>0 DEF Kept, ApartFrom, Below, Ranges
<1>4. Below(old, a)
      BY <1>0, <1>1 DEF Kept, Beside, Below, Ranges
<1>5. Region.base..(a - 1) = Covered(old) \cup Covered(f) \cup Covered(lost)
  <2>1. Region.base..(m - 1) = Covered(old) \cup Covered(f) \cup Covered(lost) \cup a..(m - 1)
    <3>1. a + live[a] - 1 = m - 1
          BY <1>0
    <3>2. Covered(live) = Covered(old) \cup a..(m - 1)
          BY <1>1, <3>1, Zenon
    <3>3. Region.base..(m - 1) = Covered(live) \cup Covered(f) \cup Covered(lost)
          BY Zenon DEF Kept
    <3> QED
          BY <3>2, <3>3, Zenon
  <2>2. a <= m
        BY <1>0
  <2>3. Ranges(f) /\ Ranges(old) /\ Ranges(lost) /\ a \in Nat /\ m \in Nat
        BY <1>0, <1>1, Zenon
  <2> QED
        BY <1>3, <1>4, <2>1, <2>2, <2>3, Lowered
<1>6. Region.base <= a /\ a <= Region.end
      BY <1>0 DEF Kept, Below
<1>7. Aligned(old)
      BY <1>1, Zenon DEF Kept, Aligned
<1> QED
      BY <1>0, <1>1, <1>2, <1>3, <1>4, <1>5, <1>6, <1>7, ZenonT(30) DEF Kept, old

\* deallocate of another range, before the retraction.
LEMMA FreeMerge ==
    ASSUME NEW f, NEW m, NEW live, NEW lost, Kept(f, m, live, lost), NEW a \in DOMAIN live
    PROVE  Kept(Merge(f, a, live[a]), m, Without(live, {a}), lost)
<1> DEFINE old == Without(live, {a})
           n == live[a]
           g == Merge(f, a, n)
<1> USE RegionAssumption
<1>0. /\ Ranges(live) /\ Apart(live) /\ Ranges(f) /\ Ranges(lost) /\ Apart(f) /\ NoneTouch(f)
      /\ a \in Nat /\ live[a] \in Nat \ {0} /\ m \in Nat
      /\ Beside(f, a, n) /\ Beside(lost, a, n)
      BY Zenon DEF Kept, Ranges, ApartFrom, Beside
<1>1. /\ Ranges(old) /\ Apart(old) /\ Beside(old, a, live[a])
      /\ DOMAIN old = DOMAIN live \ {a}
      /\ \A x \in DOMAIN old : old[x] = live[x]
      /\ Covered(live) = Covered(old) \cup a..(a + live[a] - 1)
      BY <1>0, Removed, Zenon
<1> HIDE DEF old, n
<1>2. /\ Ranges(g) /\ Apart(g) /\ NoneTouch(g)
      /\ \A x \in Nat, s \in Nat \ {0} :
            Beside(f, x, s) /\ (x + s <= a \/ a + n <= x) => Beside(g, x, s)
      /\ \A low, high \in Nat :
            /\ low <= a /\ a + n <= high
            /\ \A c \in DOMAIN f : low <= c /\ c + f[c] <= high
            => \A c \in DOMAIN g : low <= c /\ c + g[c] <= high
      /\ Covered(g) = Covered(f) \cup a..(a + n - 1)
  <2>1. n \in Nat \ {0}
        BY <1>0, Zenon DEF n
  <2> QED
        BY <1>0, <2>1, MergeFacts, Zenon
<1> HIDE DEF g
<1>3. ApartFrom(old, g)
  <2>1. SUFFICES ASSUME NEW x \in DOMAIN old PROVE Beside(g, x, old[x])
        BY <1>0, <1>1, <1>2, Zenon DEF ApartFrom, Beside, Ranges
  <2>2. Beside(f, x, old[x])
        BY <1>1, Zenon DEF Kept, ApartFrom, Beside
  <2>3. x \in Nat /\ old[x] \in Nat \ {0}
        BY <1>1, Zenon DEF Ranges
  <2>4. x + old[x] <= a \/ a + n <= x
        BY <1>1, Zenon DEF Beside, n
  <2> QED
        BY <1>2, <2>2, <2>3, <2>4, Zenon
<1>4. ApartFrom(g, lost)
  <2>1. SUFFICES ASSUME NEW x \in DOMAIN lost PROVE Beside(g, x, lost[x])
        BY <1>0, <1>2, Zenon DEF ApartFrom, Beside, Ranges
  <2>2. Beside(f, x, lost[x])
        BY <1>0, Zenon DEF Kept, ApartFrom, Beside, Ranges
  <2>3. x \in Nat /\ lost[x] \in Nat \ {0}
        BY <1>0, Zenon DEF Ranges
  <2>4. x + lost[x] <= a \/ a + n <= x
        BY <1>0, Zenon DEF Beside
  <2> QED
        BY <1>2, <2>2, <2>3, <2>4, Zenon
<1>5. Below(g, m) /\ Below(old, m)
  <2>1. Region.base <= a /\ a + n <= m
        BY Zenon DEF Kept, Below, n
  <2>2. Below(g, m)
        BY <1>0, <1>2, <2>1, Zenon DEF Kept, Below
  <2>3. Below(old, m)
        BY <1>1, Zenon DEF Kept, Below
  <2> QED
        BY <2>2, <2>3, Zenon
<1>6. ApartFrom(old, lost)
      BY <1>1, Zenon DEF Kept, ApartFrom
<1>7. Region.base..(m - 1) = Covered(old) \cup Covered(g) \cup Covered(lost)
      BY <1>1, <1>2, Zenon DEF Kept, n
<1>8. Aligned(old)
      BY <1>1, Zenon DEF Kept, Aligned
<1>9. Kept(g, m, old, lost)
      BY <1>1, <1>2, <1>3, <1>4, <1>5, <1>6, <1>7, <1>8, ZenonT(30) DEF Kept
<1> QED
      BY <1>9, Zenon DEF g, old, n

\* retract_watermark removes the free range below the watermark, if there is one.
LEMMA RetractSound ==
    ASSUME NEW f, NEW m, NEW live, NEW lost, Kept(f, m, live, lost)
    PROVE  LET r == RetractWatermark([free |-> f, mark |-> m])
           IN  r = [free |-> r.free, mark |-> r.mark] /\ Sound(r.free, r.mark, live, lost)
<1> DEFINE r == RetractWatermark([free |-> f, mark |-> m])
           g == r.free
           top == r.mark
<1> USE RegionAssumption
<1>0. /\ Ranges(live) /\ Apart(live) /\ Ranges(f) /\ Ranges(lost) /\ Apart(f) /\ NoneTouch(f)
      /\ m \in Nat /\ \A c \in DOMAIN f : c + f[c] <= m
      BY Zenon DEF Kept, Below
<1>1. /\ r = [free |-> g, mark |-> top]
      /\ top \in Nat
      /\ top = m \/ (top \in DOMAIN f /\ top + f[top] = m)
      /\ DOMAIN g = {c \in DOMAIN f : c < top}
      /\ \A c \in DOMAIN g : g[c] = f[c] /\ c + f[c] < top
      /\ \A c \in DOMAIN f : c < top \/ c = top
      BY <1>0, RetractFacts, Zenon
<1> HIDE DEF g, top
<1>2. /\ Ranges(g) /\ Apart(g) /\ NoneTouch(g) /\ ApartFrom(live, g) /\ ApartFrom(g, lost)
      BY <1>0, <1>1, ZenonT(30) DEF Kept, Ranges, Apart, NoneTouch, ApartFrom
<1>3. Below(g, top) /\ top <= m
      BY <1>0, <1>1, SMTT(30) DEF Kept, Below, Ranges
<1>4. Below(live, top) /\ Below(lost, top)
      BY <1>0, <1>1 DEF Kept, Below, Ranges, ApartFrom
<1>5. Region.base <= top /\ top <= Region.end
      BY <1>0, <1>1, <1>3 DEF Kept, Below
<1>6. Covered(f) = Covered(g) \cup top..(m - 1)
  <2>1. CASE top = m
    <3>1. DOMAIN g = DOMAIN f /\ \A c \in DOMAIN f : g[c] = f[c]
          BY <1>0, <1>1, <2>1 DEF Ranges
    <3>2. top..(m - 1) = {}
          BY <1>0, <2>1
    <3> QED
          BY <3>1, <3>2, Zenon DEF Covered, Bytes
  <2>2. CASE top \in DOMAIN f /\ top + f[top] = m
    <3>1. DOMAIN f = DOMAIN g \cup {top}
          BY <1>0, <1>1, <2>2, Zenon DEF Ranges
    <3>2. Bytes(f, top) = top..(m - 1)
      <4>1. top + f[top] - 1 = m - 1
            BY <1>0, <1>1, <2>2 DEF Ranges
      <4> QED
            BY <4>1, Zenon DEF Bytes
    <3>3. \A c \in DOMAIN g : Bytes(f, c) = Bytes(g, c)
          BY <1>1, Zenon DEF Bytes
    <3> QED
          BY <3>1, <3>2, <3>3, Zenon DEF Covered
  <2> QED
        BY <1>1, <2>1, <2>2, Zenon
<1>7. Region.base..(top - 1) = Covered(live) \cup Covered(g) \cup Covered(lost)
  <2>1. Region.base..(m - 1) = Covered(live) \cup Covered(g) \cup Covered(lost) \cup top..(m - 1)
        BY <1>6, Zenon DEF Kept
  <2>2. Ranges(g) /\ Ranges(live) /\ Ranges(lost) /\ top \in Nat /\ m \in Nat
        BY <1>0, <1>1, <1>2, Zenon
  <2> QED
        BY <1>3, <1>4, <2>1, <2>2, Lowered
<1>8. \A c \in DOMAIN g : c + g[c] # top
      BY <1>0, <1>1 DEF Ranges
<1>9. Sound(g, top, live, lost)
      BY <1>1, <1>2, <1>3, <1>4, <1>5, <1>7, <1>8, ZenonT(30) DEF Kept, Sound
<1> QED
      BY <1>1, <1>9, Zenon DEF g, top

-----------------------------------------------------------------------------
(***************************************************************************)
(* The number of free ranges.                                                *)
(***************************************************************************)
\* A set in which one element is replaced is not larger.
LEMMA Replaced ==
    ASSUME NEW S, IsFiniteSet(S), NEW x \in S, NEW y
    PROVE  /\ IsFiniteSet((S \ {x}) \cup {y})
           /\ Cardinality((S \ {x}) \cup {y}) <= Cardinality(S)
<1>1. Cardinality(S) \in Nat
      BY FS_CardinalityType, Zenon
<1>2. IsFiniteSet(S \ {x}) /\ Cardinality(S \ {x}) = Cardinality(S) - 1
      BY FS_RemoveElement, Zenon
<1>3. /\ IsFiniteSet((S \ {x}) \cup {y})
      /\ \/ Cardinality((S \ {x}) \cup {y}) = Cardinality(S \ {x})
         \/ Cardinality((S \ {x}) \cup {y}) = Cardinality(S \ {x}) + 1
      BY <1>2, FS_AddElement, Zenon
<1> QED
      BY <1>1, <1>2, <1>3

\* Nothing is added to a subset of the entries of an array.
LEMMA ArrayShrinks ==
    ASSUME NEW f, NEW g, InArray(f), DOMAIN g \subseteq DOMAIN f
    PROVE  InArray(g)
<1>1. IsFiniteSet(DOMAIN g) /\ Cardinality(DOMAIN g) <= Cardinality(DOMAIN f)
      BY FS_Subset, Zenon DEF InArray
<1>2. Cardinality(DOMAIN f) \in Nat /\ Cardinality(DOMAIN g) \in Nat
      BY <1>1, FS_CardinalityType, Zenon DEF InArray
<1> QED
      BY <1>1, <1>2, RegionAssumption DEF InArray

\* An entry takes the place of another one.
LEMMA ArrayReplaced ==
    ASSUME NEW f, NEW g, InArray(f), NEW x \in DOMAIN f, NEW y,
           DOMAIN g = (DOMAIN f \ {x}) \cup {y}
    PROVE  InArray(g)
<1>1. IsFiniteSet(DOMAIN g) /\ Cardinality(DOMAIN g) <= Cardinality(DOMAIN f)
      BY Replaced DEF InArray
<1>2. Cardinality(DOMAIN f) \in Nat /\ Cardinality(DOMAIN g) \in Nat
      BY <1>1, FS_CardinalityType, Zenon DEF InArray
<1> QED
      BY <1>1, <1>2, RegionAssumption DEF InArray

\* allocate from a free range: its entry goes, or is replaced by the rest.
LEMMA ArrayCarve ==
    ASSUME NEW f, InArray(f), NEW b \in DOMAIN f, NEW n
    PROVE  InArray(Carve(f, b, n))
<1>1. CASE f[b] = n
  <2>1. DOMAIN Carve(f, b, n) \subseteq DOMAIN f
        BY <1>1, Zenon DEF Carve, Without
  <2> QED
        BY <2>1, ArrayShrinks, Zenon
<1>2. CASE f[b] # n
  <2>1. DOMAIN Carve(f, b, n) = (DOMAIN f \ {b}) \cup {b + n}
        BY <1>2, Zenon DEF Carve, With, Without
  <2> QED
        BY <2>1, ArrayReplaced, Zenon
<1> QED
      BY <1>1, <1>2, Zenon

\* deallocate: a new entry only where nothing merges, and then there is room.
LEMMA ArrayMerge ==
    ASSUME NEW f, InArray(f), NEW a, NEW n,
           MergesPrev(f, a) => Greatest(Before(f, a)) \in DOMAIN f,
           MergesNext(f, a, n) => a + n \in DOMAIN f,
           \/ MergesPrev(f, a) \/ MergesNext(f, a, n)
           \/ Cardinality(DOMAIN f) # Region.cap
    PROVE  InArray(Merge(f, a, n))
<1> DEFINE p == Greatest(Before(f, a))
           g == Merge(f, a, n)
<1>1. CASE MergesPrev(f, a)
  <2>1. DOMAIN g \subseteq DOMAIN f
    <3>1. CASE MergesNext(f, a, n)
          BY <1>1, <3>1, Zenon DEF Merge, With, Without
    <3>2. CASE ~MergesNext(f, a, n)
          BY <1>1, <3>2, Zenon DEF Merge, With
    <3> QED
          BY <3>1, <3>2, Zenon
  <2> QED
        BY <2>1, ArrayShrinks, Zenon
<1>2. CASE ~MergesPrev(f, a) /\ MergesNext(f, a, n)
  <2>1. DOMAIN g = (DOMAIN f \ {a + n}) \cup {a}
        BY <1>2, Zenon DEF Merge, With, Without
  <2> QED
        BY <1>2, <2>1, ArrayReplaced, Zenon
<1>3. CASE ~MergesPrev(f, a) /\ ~MergesNext(f, a, n)
  <2>1. DOMAIN g = DOMAIN f \cup {a}
        BY <1>3, Zenon DEF Merge, With
  <2>2. Cardinality(DOMAIN f) \in Nat /\ Cardinality(DOMAIN f) + 1 <= Region.cap
        BY <1>3, FS_CardinalityType, RegionAssumption, SMTT(30) DEF InArray
  <2>3. /\ IsFiniteSet(DOMAIN g)
        /\ \/ Cardinality(DOMAIN g) = Cardinality(DOMAIN f)
           \/ Cardinality(DOMAIN g) = Cardinality(DOMAIN f) + 1
        BY <2>1, FS_AddElement DEF InArray
  <2> QED
        BY <2>2, <2>3, RegionAssumption, Zenon DEF InArray
<1> QED
      BY <1>1, <1>2, <1>3, Zenon

\* retract_watermark only removes entries.
LEMMA ArrayRetract ==
    ASSUME NEW q, InArray(q.free)
    PROVE  InArray(RetractWatermark(q).free)
<1>1. DOMAIN RetractWatermark(q).free \subseteq DOMAIN q.free
      BY Zenon DEF RetractWatermark, Without
<1> QED
      BY <1>1, ArrayShrinks, Zenon

-----------------------------------------------------------------------------
\* A new allocator: nothing is handed out, free or lost.
LEMMA InitSound ==
    RaInit => RaInv
<1> SUFFICES ASSUME RaInit PROVE RaInv
    BY Zenon
<1> USE RegionAssumption
<1>1. raAlloc = [free |-> NoRanges, mark |-> Region.base] /\ raLive = NoRanges /\ raLost = NoRanges
      BY Zenon DEF RaInit, NewRegions
<1>2. DOMAIN NoRanges = {}
      BY Zenon DEF NoRanges
<1>3. Covered(NoRanges) = {}
      BY <1>2, Zenon DEF Covered
<1>4. Region.base..(Region.base - 1) = {}
      OBVIOUS
<1>5. Sound(NoRanges, Region.base, NoRanges, NoRanges)
      BY <1>2, <1>3, <1>4 DEF Sound, Kept, Ranges, Aligned, Apart, ApartFrom, Below, NoneTouch
<1>6. InArray(NoRanges)
      BY <1>2, FS_EmptySet DEF InArray
<1> QED
      BY <1>1, <1>5, <1>6, Zenon DEF RaInv

\* allocate(): nothing, the first free range that is large enough, or new bytes
\* above the watermark.
LEMMA TakeSound ==
    ASSUME RaInv, NEW size \in Lengths, Take(size)
    PROVE  RaInv'
<1> DEFINE n == PageAlignUp(size)
           r == raAlloc
           f == raAlloc.free
           m == raAlloc.mark
           got == Allocate(Region, r, size)
<1> USE RegionAssumption
<1>0. n \in Nat /\ PageAlignUp(n) = n /\ Region.end + n < AddressWord
      BY PageAligned, Zenon
<1>1. r = [free |-> f, mark |-> m] /\ Sound(f, m, raLive, raLost) /\ InArray(f)
      BY Zenon DEF RaInv
<1>2. Ranges(f) /\ m \in Nat /\ m <= Region.end
      BY <1>1, Zenon DEF Sound, Kept
<1>8. Plus(m, n) = m + n
  <2> HIDE DEF n
  <2> QED
      BY <1>0, <1>2, WordAssumption DEF Plus
<1>3. /\ raAlloc' = got.alloc /\ raLost' = raLost
      /\ raLive' = IF got.addr = NoAddr \/ n = 0 THEN raLive ELSE With(raLive, got.addr, n)
      BY Zenon DEF Take
<1>4. CASE n = 0
  <2>1. got = [addr |-> m, alloc |-> r]
        BY <1>4 DEF Allocate
  <2>2. raAlloc' = raAlloc /\ raLive' = raLive
        BY <1>3, <1>4, <2>1
  <2> QED
        BY <1>3, <2>2, Zenon DEF RaInv
<1>5. CASE n > 0 /\ Fits(r, n) # {}
  <2> DEFINE b == Least(Fits(r, n))
             g == Carve(f, b, n)
  <2>1. b \in DOMAIN f /\ f[b] >= n
    <3>1. Fits(r, n) = {x \in DOMAIN f : f[x] >= n}
          BY Zenon DEF Fits
    <3>2. Fits(r, n) \in SUBSET Nat
          BY <1>2, <3>1, Zenon DEF Ranges
    <3>3. b \in Fits(r, n)
          BY <1>5, <3>2, LeastExists, Zenon
    <3> QED
          BY <3>1, <3>3, Zenon
  <2>2. got = [addr |-> b, alloc |-> [r EXCEPT !.free = g]]
        BY <1>5 DEF Allocate
  <2> HIDE DEF n
  <2>3. Sound(g, m, With(raLive, b, n), raLost)
    <3>1. n \in Nat \ {0} /\ n <= f[b]
          BY <1>0, <1>2, <1>5, <2>1 DEF Ranges
    <3> QED
          BY <1>0, <1>1, <2>1, <3>1, SoundCarve, ZenonT(30)
  <2>6. InArray(g)
        BY <1>1, <2>1, ArrayCarve, Zenon
  <2> HIDE DEF b, g
  <2>4. b # NoAddr
        BY <1>2, <2>1 DEF Ranges, NoAddr
  <2>5. raAlloc' = [free |-> g, mark |-> m] /\ raLive' = With(raLive, b, n)
        BY <1>0, <1>1, <1>3, <1>5, <2>2, <2>4, SMTT(30)
  <2> QED
        BY <1>3, <2>3, <2>5, <2>6 DEF RaInv
<1>6. CASE n > 0 /\ Fits(r, n) = {} /\ m + n > Region.end
  <2>1. got = [addr |-> NoAddr, alloc |-> r]
        BY <1>6, <1>8 DEF Allocate
  <2>2. raAlloc' = raAlloc /\ raLive' = raLive
        BY <1>3, <2>1
  <2> QED
        BY <1>3, <2>2, Zenon DEF RaInv
<1>7. CASE n > 0 /\ Fits(r, n) = {} /\ ~(m + n > Region.end)
  <2>1. got = [addr |-> m, alloc |-> [r EXCEPT !.mark = m + n]]
        BY <1>7, <1>8 DEF Allocate
  <2> HIDE DEF n
  <2>2. Sound(f, m + n, With(raLive, m, n), raLost)
    <3>1. n \in Nat \ {0} /\ m + n <= Region.end
          BY <1>0, <1>2, <1>7
    <3> QED
          BY <1>0, <1>1, <3>1, SoundBump, Zenon
  <2>3. m # NoAddr
        BY <1>2 DEF NoAddr
  <2>4. raAlloc' = [free |-> f, mark |-> m + n] /\ raLive' = With(raLive, m, n)
        BY <1>0, <1>1, <1>3, <1>7, <2>1, <2>3
  <2> QED
        BY <1>1, <1>3, <2>2, <2>4 DEF RaInv
<1> QED
      BY <1>0, <1>4, <1>5, <1>6, <1>7

\* deallocate() of a range that was handed out.
LEMMA ReturnSound ==
    ASSUME RaInv, NEW a \in DOMAIN raLive, Return(a)
    PROVE  RaInv'
<1> DEFINE n == PageAlignUp(raLive[a])
           r == raAlloc
           f == raAlloc.free
           m == raAlloc.mark
           old == Without(raLive, {a})
           done == Deallocate(Region, r, a, raLive[a])
           full == /\ ~MergesPrev(f, a) /\ ~MergesNext(f, a, n)
                   /\ Cardinality(DOMAIN f) = Region.cap
<1>1. /\ r = [free |-> f, mark |-> m] /\ InArray(f)
      /\ Sound(f, m, raLive, raLost) /\ Kept(f, m, raLive, raLost)
      BY Zenon DEF RaInv, Sound
<1>2. n = raLive[a] /\ raLive[a] \in Nat \ {0}
      BY <1>1, Zenon DEF Kept, Ranges, Aligned
<1>3. /\ raAlloc' = done.alloc /\ raLive' = old
      /\ raLost' = IF done.ok THEN raLost ELSE With(raLost, a, raLive[a])
      BY Zenon DEF Return
<1>4. CASE a + n = m
  <2> DEFINE w == RetractWatermark([free |-> f, mark |-> a])
  <2>1. done = [ok |-> TRUE, alloc |-> RetractWatermark([r EXCEPT !.mark = a])]
        BY <1>2, <1>4 DEF Deallocate
  <2>2. [r EXCEPT !.mark = a] = [free |-> f, mark |-> a]
        BY <1>1
  <2>3. Kept(f, a, old, raLost)
        BY <1>1, <1>2, <1>4, FreeTop, Zenon
  <2>4. w = [free |-> w.free, mark |-> w.mark] /\ Sound(w.free, w.mark, old, raLost)
        BY <2>3, RetractSound, Zenon
  <2>5. raAlloc' = w /\ raLost' = raLost
        BY <1>3, <2>1, <2>2
  <2>6. InArray(w.free)
        BY <1>1, ArrayRetract, Zenon
  <2> HIDE DEF w
  <2> QED
        BY <1>3, <2>4, <2>5, <2>6, Zenon DEF RaInv
<1>5. CASE a + n # m /\ full
  <2>1. done = [ok |-> FALSE, alloc |-> r]
        BY <1>2, <1>5 DEF Deallocate
  <2>2. Sound(f, m, old, With(raLost, a, raLive[a]))
        BY <1>1, SoundLose, Zenon
  <2>3. raAlloc' = r /\ raLost' = With(raLost, a, raLive[a])
        BY <1>3, <2>1
  <2> QED
        BY <1>1, <1>3, <2>2, <2>3, Zenon DEF RaInv
<1>6. CASE a + n # m /\ ~full
  <2> DEFINE g == Merge(f, a, raLive[a])
             w == RetractWatermark([free |-> g, mark |-> m])
  <2>1. done = [ok |-> TRUE, alloc |-> RetractWatermark([r EXCEPT !.free = Merge(f, a, n)])]
        BY <1>2, <1>6, Zenon DEF Deallocate
  <2>2. [r EXCEPT !.free = Merge(f, a, n)] = [free |-> g, mark |-> m]
        BY <1>1, <1>2
  <2>3. Kept(g, m, old, raLost)
        BY <1>1, FreeMerge, Zenon
  <2>4. w = [free |-> w.free, mark |-> w.mark] /\ Sound(w.free, w.mark, old, raLost)
        BY <2>3, RetractSound, Zenon
  <2>5. raAlloc' = w /\ raLost' = raLost
        BY <1>3, <2>1, <2>2
  <2>6. InArray(g)
    <3>1. Ranges(f) /\ Apart(f) /\ a \in Nat /\ Beside(f, a, raLive[a])
          BY <1>1, Zenon DEF Kept, Ranges, ApartFrom, Beside
    <3>2. /\ MergesNext(f, a, raLive[a]) => a + raLive[a] \in DOMAIN f
          /\ MergesPrev(f, a) => Greatest(Before(f, a)) \in DOMAIN f
          BY <1>2, <3>1, Neighbours, Zenon
    <3> QED
          BY <1>1, <1>2, <1>6, <3>2, ArrayMerge, Zenon
  <2> HIDE DEF g
  <2>7. InArray(w.free)
        BY <2>6, ArrayRetract, Zenon
  <2> HIDE DEF w
  <2> QED
        BY <1>3, <2>4, <2>5, <2>7, Zenon DEF RaInv
<1> QED
      BY <1>4, <1>5, <1>6, Zenon

\* RaInv is an invariant of the allocator, in a region and an array of any size.
THEOREM RegionsSound ==
    RaSpec => []RaInv
<1>1. RaInit => RaInv
      BY InitSound, Zenon
<1>2. RaInv /\ [RaNext]_raVars => RaInv'
  <2> SUFFICES ASSUME RaInv, [RaNext]_raVars PROVE RaInv'
      BY Zenon
  <2>1. CASE UNCHANGED raVars
        BY <2>1, Zenon DEF raVars, RaInv
  <2>2. ASSUME NEW size \in Lengths, Take(size) PROVE RaInv'
        BY <2>2, TakeSound, Zenon
  <2>3. ASSUME NEW a \in DOMAIN raLive, Return(a) PROVE RaInv'
        BY <2>3, ReturnSound, Zenon
  <2> QED
        BY <2>1, <2>2, <2>3, Zenon DEF RaNext
<1> QED
      BY <1>1, <1>2, PTL DEF RaSpec

\* No two ranges overlap, whatever sizes are asked for (as long as no sum of a
\* request wraps, NoOverflow) and in whatever order they come back, in a region and
\* an array of any size.
THEOREM RangesStayDisjoint ==
    RaSpec => []RangesDisjoint
<1>1. RaInv => RangesDisjoint
      BY Zenon DEF RaInv, Sound, Kept, Below, RangesDisjoint
<1> QED
      BY <1>1, RegionsSound, PTL

\* Every byte below the watermark is handed out, free or lost to a full array.
THEOREM NoByteForgotten ==
    RaSpec => []NothingForgotten
<1>1. RaInv => NothingForgotten
      BY Zenon DEF RaInv, Sound, Kept, NothingForgotten
<1> QED
      BY <1>1, RegionsSound, PTL

\* Free ranges are merged with each other and with the space above the watermark.
THEOREM AlwaysCoalesced ==
    RaSpec => []Coalesced
<1>1. RaInv => Coalesced
      BY DEF RaInv, Sound, Kept, Ranges, NoneTouch, Coalesced
<1> QED
      BY <1>1, RegionsSound, PTL

\* The array of free ranges is never asked to hold more entries than it has.
THEOREM ArrayNeverOverflows ==
    RaSpec => []WithinArray
<1>1. RaInv => WithinArray
      BY Zenon DEF RaInv, InArray, WithinArray
<1> QED
      BY <1>1, RegionsSound, PTL

=============================================================================
