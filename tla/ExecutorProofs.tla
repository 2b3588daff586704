--------------------------- MODULE ExecutorProofs ---------------------------
(*****************************************************************************)
(* The inductive invariant of Executor, what the operations of the ready     *)
(* queues do to the set of queued ids, that every step keeps each conjunct of*)
(* the invariant, and the theorems for any number of CPUs and tasks.         *)
(*****************************************************************************)
EXTENDS Executor, TLAPS

\* c has t's id queued, or in hand on its way to a poll.
Coming(t, c) ==
    \/ Has(rq[c], t)
    \/ pc[c] \in {"take", "insert", "push"} /\ cur[c] = t

\* A CPU past "take" or "steal" has an id in hand, and a poll is recorded.
InHand ==
    \A c \in Cpus :
        /\ pc[c] \in {"take", "poll", "insert", "push"} => cur[c] \in Tasks
        /\ pc[c] = "poll" => lastCpu[cur[c]] = c

\* Ids are queued, in hand or packed in a waker only after spawn pushed them.
Born(t) == t \notin unborn /\ \A c \in Cpus : t \notin spawned[c]

BornOnly ==
    /\ \A c \in Cpus : tasks[c] \cap unborn = {}
    /\ \A c \in Cpus, t \in Tasks : Has(rq[c], t) => Born(t)
    /\ \A c \in Cpus :
          pc[c] \in {"take", "poll", "insert", "push"} => Born(cur[c])
    /\ \A w \in wakers : Born(w[1])
    /\ \A t \in Tasks : t \in finished => Born(t)

\* The half-done calls of the loop: a spawn or a wake-up, in a poll.
Calls ==
    \A c \in Cpus :
        /\ spawned[c] # {} => pc[c] = "poll"
        /\ sending[c] # {} => pc[c] = "poll"
        /\ c \notin sending[c]
        /\ spawned[c] \subseteq tasks[c]
        /\ \A t \in spawned[c] : lastCpu[t] = c

\* From has_ready = false on, queued work comes with an interrupt, which the
\* CPU has not taken before hlt unless its interrupts are enabled.
Announced(c) ==
    \/ c \in ipi
    \/ \E d \in Cpus : c \in sending[d] \cup irqSends[d]
    \/ c \in late

SleepSafe ==
    \A c \in Cpus : pc[c] \in {"steal", "halted"} =>
        /\ HasReady(rq[c]) => Announced(c) \/ (pc[c] = "halted" /\ c \in handling)
        /\ c \in late => c \notin masked

\* The steps that leave tasks, queues and calls alone: at most hlt ends.
Quiet(c) ==
    \/ UserCode(c) \/ IpiTaken(c) \/ IrqSendIpi(c)
    \/ WakeFromHalt(c) \/ Tick(c) \/ InterruptReturn(c)

\* A task owned by another CPU than the one that last polled it is on its way
\* to a poll there, as a woken one is.
Expected(t) == t \in owed \/ \E c \in Cpus : At(t, c) /\ lastCpu[t] # c

WakeSafe ==
    \A t \in Tasks : Expected(t) => \E c \in Cpus : At(t, c) /\ Coming(t, c)

\* An id is queued in the tier of its priority: steal_one, which leaves the
\* Critical tier alone, takes no Critical task.
Sorted(q) ==
    \A p \in Tiers : \A i \in 1 .. Len(q.ids[p]) : PriorityOf[q.ids[p][i]] = p

Pinned == CriticalPinned /\ \A c \in Cpus : Sorted(rq[c])

IInv ==
    /\ TypeOK /\ InHand /\ OneOwner /\ NoTaskLost
    /\ BornOnly /\ Calls /\ SleepSafe /\ WakeSafe
-----------------------------------------------------------------------------
(* The ready queues *)

\* A new set of ready queues holds no task.
LEMMA NewQueuesEmpty ==
    ASSUME NEW S
    PROVE  /\ NewQueues \in ReadyQueuesOf(S) /\ NewQueues.streak = 0
           /\ \A u : ~Has(NewQueues, u)
           /\ ~HasReady(NewQueues)
BY DEF NewQueues, ReadyQueuesOf, Has, HasReady

\* has_ready says whether any task is queued.
LEMMA ReadyHas ==
    ASSUME NEW S, NEW q \in ReadyQueuesOf(S)
    PROVE  HasReady(q) <=> \E u \in S : Has(q, u)
<1>1. ASSUME NEW p \in Tiers, q.ids[p] # << >> PROVE \E u \in S : Has(q, u)
  <2>1. q.ids[p] \in Seq(S)
    BY Zenon DEF ReadyQueuesOf
  <2>2. 1 \in 1 .. Len(q.ids[p]) /\ q.ids[p][1] \in S
    BY <1>1, <2>1
  <2> QED BY <2>2, Zenon DEF Has
<1>2. ASSUME NEW u \in S, Has(q, u) PROVE HasReady(q)
  <2>1. PICK p \in Tiers : \E i \in 1 .. Len(q.ids[p]) : q.ids[p][i] = u
    BY <1>2, Zenon DEF Has
  <2>2. q.ids[p] # << >>
    BY <2>1
  <2> QED BY <2>2, Zenon DEF HasReady
<1> QED BY <1>1, <1>2, Zenon DEF HasReady

\* push adds one id and removes none.
LEMMA PushHas ==
    ASSUME NEW S, NEW q \in ReadyQueuesOf(S), NEW p \in Tiers, NEW t \in S
    PROVE  /\ Push(q, p, t) \in ReadyQueuesOf(S)
           /\ Push(q, p, t).streak = q.streak
           /\ \A u : Has(Push(q, p, t), u) <=> Has(q, u) \/ u = t
<1> DEFINE r == Push(q, p, t)
<1>1. r.ids = [q.ids EXCEPT ![p] = Append(@, t)] /\ r.streak = q.streak
  BY Zenon DEF Push, ReadyQueuesOf
<1>2. r \in ReadyQueuesOf(S)
  <2>1. Append(q.ids[p], t) \in Seq(S)
    BY DEF ReadyQueuesOf
  <2> QED BY <2>1, Zenon DEF Push, ReadyQueuesOf
<1>3. \A e \in Tiers : q.ids[e] \in Seq(S)
  BY Zenon DEF ReadyQueuesOf
<1>4. /\ Len(r.ids[p]) = Len(q.ids[p]) + 1
      /\ r.ids[p][Len(q.ids[p]) + 1] = t
      /\ \A i \in 1 .. Len(q.ids[p]) : r.ids[p][i] = q.ids[p][i]
      /\ \A e \in Tiers \ {p} : r.ids[e] = q.ids[e]
  BY <1>1, <1>3 DEF ReadyQueuesOf
<1> HIDE DEF r
<1>5. ASSUME NEW u PROVE Has(r, u) <=> Has(q, u) \/ u = t
  <2>1. ASSUME Has(q, u) PROVE Has(r, u)
    <3>1. PICK e \in Tiers : \E i \in 1 .. Len(q.ids[e]) : q.ids[e][i] = u
      BY <2>1, Zenon DEF Has
    <3>2. PICK i \in 1 .. Len(q.ids[e]) : q.ids[e][i] = u
      BY <3>1, Zenon
    <3>3. i \in 1 .. Len(r.ids[e]) /\ r.ids[e][i] = u
      BY <1>3, <1>4, <3>2
    <3> QED BY <3>3, Zenon DEF Has
  <2>2. Has(r, t)
    <3>1. Len(q.ids[p]) + 1 \in 1 .. Len(r.ids[p])
      BY <1>3, <1>4
    <3> QED BY <1>4, <3>1, Zenon DEF Has
  <2>3. ASSUME Has(r, u), u # t PROVE Has(q, u)
    <3>1. PICK e \in Tiers : \E i \in 1 .. Len(r.ids[e]) : r.ids[e][i] = u
      BY <2>3, Zenon DEF Has
    <3>2. PICK i \in 1 .. Len(r.ids[e]) : r.ids[e][i] = u
      BY <3>1, Zenon
    <3>3. i \in 1 .. Len(q.ids[e]) /\ q.ids[e][i] = u
      <4>1. CASE e # p
        BY <1>4, <3>2, <4>1, Zenon
      <4>2. CASE e = p
        <5>1. Len(q.ids[p]) \in Nat /\ i \in 1 .. Len(q.ids[p]) + 1
          BY <1>3, <1>4, <3>2, <4>2
        <5>2. i # Len(q.ids[p]) + 1
          BY <1>4, <2>3, <3>2, <4>2, Zenon
        <5>3. i \in 1 .. Len(q.ids[p])
          BY <5>1, <5>2, SMTT(30)
        <5>4. r.ids[p][i] = q.ids[p][i]
          BY <1>4, <5>3, Zenon
        <5> QED BY <3>2, <4>2, <5>3, <5>4, Zenon
      <4> QED BY <4>1, <4>2, Zenon
    <3> QED BY <3>3, Zenon DEF Has
  <2> QED BY <2>1, <2>2, <2>3, Zenon
<1> QED BY <1>1, <1>2, <1>5, Zenon DEF r

\* pop removes one occurrence of the id it returns and nothing else.
LEMMA PopHas ==
    ASSUME NEW S, NEW q \in ReadyQueuesOf(S), NEW lim \in Nat, q.streak <= lim,
           HasReady(q)
    PROVE  /\ AfterPop(q, lim) \in ReadyQueuesOf(S)
           /\ AfterPop(q, lim).streak <= lim
           /\ PopId(q, lim) \in S /\ Has(q, PopId(q, lim))
           /\ \A u : Has(AfterPop(q, lim), u) => Has(q, u)
           /\ \A u : Has(q, u) => Has(AfterPop(q, lim), u) \/ u = PopId(q, lim)
<1> DEFINE p == PopTier(q, lim)
           r == AfterPop(q, lim)
<1>1. p \in Tiers /\ q.ids[p] # << >>
  BY DEF PopTier, HasReady, Tiers
<1>2. \A e \in Tiers : q.ids[e] \in Seq(S)
  BY Zenon DEF ReadyQueuesOf
<1>3. StreakAfter(q, p) \in Nat /\ StreakAfter(q, p) <= lim
  BY DEF PopTier, StreakAfter, ReadyQueuesOf, Tiers
<1>4. r = [ids |-> [q.ids EXCEPT ![p] = Tail(@)], streak |-> StreakAfter(q, p)]
  BY Zenon DEF AfterPop
<1>5. PopId(q, lim) = q.ids[p][1]
  BY <1>1, <1>2 DEF PopId
<1> HIDE DEF p, r
<1>6. r \in ReadyQueuesOf(S) /\ r.streak <= lim
  BY <1>1, <1>2, <1>3, <1>4 DEF ReadyQueuesOf
<1>7. /\ Len(r.ids[p]) = Len(q.ids[p]) - 1
      /\ \A i \in 1 .. Len(q.ids[p]) - 1 : r.ids[p][i] = q.ids[p][i + 1]
      /\ \A e \in Tiers \ {p} : r.ids[e] = q.ids[e]
  BY <1>1, <1>2, <1>4 DEF ReadyQueuesOf
<1>8. PopId(q, lim) \in S /\ Has(q, PopId(q, lim))
  <2>1. 1 \in 1 .. Len(q.ids[p]) /\ q.ids[p][1] \in S
    BY <1>1, <1>2
  <2> QED BY <1>1, <1>5, <2>1, Zenon DEF Has
<1>9. ASSUME NEW u, Has(r, u) PROVE Has(q, u)
  <2>1. PICK e \in Tiers : \E i \in 1 .. Len(r.ids[e]) : r.ids[e][i] = u
    BY <1>9, Zenon DEF Has
  <2>2. PICK i \in 1 .. Len(r.ids[e]) : r.ids[e][i] = u
    BY <2>1, Zenon
  <2>3. CASE e = p
    <3>1. i + 1 \in 1 .. Len(q.ids[p]) /\ q.ids[p][i + 1] = u
      BY <1>1, <1>2, <1>7, <2>2, <2>3
    <3> QED BY <1>1, <3>1, Zenon DEF Has
  <2>4. CASE e # p
    BY <1>7, <2>2, <2>4, Zenon DEF Has
  <2> QED BY <2>3, <2>4, Zenon
<1>10. ASSUME NEW u, Has(q, u), u # PopId(q, lim) PROVE Has(r, u)
  <2>1. PICK e \in Tiers : \E i \in 1 .. Len(q.ids[e]) : q.ids[e][i] = u
    BY <1>10, Zenon DEF Has
  <2>2. PICK i \in 1 .. Len(q.ids[e]) : q.ids[e][i] = u
    BY <2>1, Zenon
  <2>3. CASE e = p
    <3>1. i - 1 \in 1 .. Len(r.ids[p]) /\ r.ids[p][i - 1] = u
      BY <1>1, <1>2, <1>5, <1>7, <1>10, <2>2, <2>3, SMTT(30)
    <3> QED BY <1>1, <3>1, Zenon DEF Has
  <2>4. CASE e # p
    BY <1>7, <2>2, <2>4, Zenon DEF Has
  <2> QED BY <2>3, <2>4, Zenon
<1> QED BY <1>6, <1>8, <1>9, <1>10, Zenon DEF r

\* A pop of empty queues only resets the streak.
LEMMA PopEmpty ==
    ASSUME NEW S, NEW q \in ReadyQueuesOf(S), NEW lim \in Nat, ~HasReady(q)
    PROVE  /\ AfterPop(q, lim) \in ReadyQueuesOf(S)
           /\ AfterPop(q, lim).streak = 0
           /\ \A u : ~Has(q, u) /\ ~Has(AfterPop(q, lim), u)
<1>1. AfterPop(q, lim) = [q EXCEPT !.streak = 0]
  BY Zenon DEF AfterPop
<1>2. AfterPop(q, lim) \in ReadyQueuesOf(S) /\ AfterPop(q, lim).streak = 0
  BY <1>1 DEF ReadyQueuesOf
<1>3. AfterPop(q, lim).ids = q.ids
  BY <1>1, Zenon DEF ReadyQueuesOf
<1>4. \A p \in Tiers : q.ids[p] = << >>
  BY Zenon DEF HasReady
<1>5. \A p \in Tiers : 1 .. Len(q.ids[p]) = {}
  <2>1. 1 .. Len(<< >>) = {}
    OBVIOUS
  <2> QED BY <1>4, <2>1, Zenon
<1>6. \A u : ~Has(q, u)
  BY <1>5, Zenon DEF Has
<1> QED BY <1>2, <1>3, <1>6, Zenon DEF Has

\* steal_one removes one occurrence of the id it returns and nothing else.
LEMMA StealHas ==
    ASSUME NEW S, NEW q \in ReadyQueuesOf(S), CanSteal(q)
    PROVE  /\ AfterSteal(q) \in ReadyQueuesOf(S)
           /\ AfterSteal(q).streak = q.streak
           /\ StealId(q) \in S /\ Has(q, StealId(q))
           /\ \A u : Has(AfterSteal(q), u) => Has(q, u)
           /\ \A u : Has(q, u) => Has(AfterSteal(q), u) \/ u = StealId(q)
<1> DEFINE p == StealTier(q)
           r == AfterSteal(q)
<1>1. \A e \in Tiers : q.ids[e] \in Seq(S)
  BY Zenon DEF ReadyQueuesOf
<1>2. p \in Tiers /\ Len(q.ids[p]) \in Nat /\ Len(q.ids[p]) > 0
  <2>1. q.ids["normal"] \in Seq(S) /\ q.ids["background"] \in Seq(S)
    BY <1>1, Zenon DEF Tiers
  <2>2. CASE q.ids["normal"] = << >>
    BY <2>1, <2>2 DEF StealTier, CanSteal, Tiers
  <2>3. CASE q.ids["normal"] # << >>
    BY <2>1, <2>3 DEF StealTier, Tiers
  <2> QED BY <2>2, <2>3, Zenon
<1>3. r = [q EXCEPT !.ids[p] = SubSeq(@, 1, Len(@) - 1)]
  BY Zenon DEF AfterSteal
<1>4. StealId(q) = q.ids[p][Len(q.ids[p])]
  BY Zenon DEF StealId
<1> HIDE DEF p, r
<1>5. SubSeq(q.ids[p], 1, Len(q.ids[p]) - 1) \in Seq(S)
  BY <1>1, <1>2
<1>6. r.ids = [q.ids EXCEPT ![p] = SubSeq(@, 1, Len(@) - 1)] /\ r.streak = q.streak
  BY <1>3, Zenon DEF ReadyQueuesOf
<1>7. r \in ReadyQueuesOf(S)
  BY <1>2, <1>3, <1>5, Zenon DEF ReadyQueuesOf
<1>8. /\ Len(r.ids[p]) = Len(q.ids[p]) - 1
      /\ \A i \in 1 .. Len(q.ids[p]) - 1 : r.ids[p][i] = q.ids[p][i]
      /\ \A e \in Tiers \ {p} : r.ids[e] = q.ids[e]
  BY <1>1, <1>2, <1>6 DEF ReadyQueuesOf
<1>9. StealId(q) \in S /\ Has(q, StealId(q))
  <2>1. Len(q.ids[p]) \in 1 .. Len(q.ids[p]) /\ q.ids[p][Len(q.ids[p])] \in S
    BY <1>1, <1>2
  <2> QED BY <1>2, <1>4, <2>1, Zenon DEF Has
<1>10. ASSUME NEW u, Has(r, u) PROVE Has(q, u)
  <2>1. PICK e \in Tiers : \E i \in 1 .. Len(r.ids[e]) : r.ids[e][i] = u
    BY <1>10, Zenon DEF Has
  <2>2. PICK i \in 1 .. Len(r.ids[e]) : r.ids[e][i] = u
    BY <2>1, Zenon
  <2>3. i \in 1 .. Len(q.ids[e]) /\ q.ids[e][i] = u
    <3>1. CASE e # p
      BY <1>8, <2>2, <3>1, Zenon
    <3>2. CASE e = p
      <4>1. i \in 1 .. Len(q.ids[p]) - 1
        BY <1>8, <2>2, <3>2, Zenon
      <4>2. r.ids[p][i] = q.ids[p][i]
        BY <1>8, <4>1, Zenon
      <4>3. i \in 1 .. Len(q.ids[p])
        BY <1>2, <4>1, SMTT(30)
      <4> QED BY <2>2, <3>2, <4>2, <4>3, Zenon
    <3> QED BY <3>1, <3>2, Zenon
  <2> QED BY <2>3, Zenon DEF Has
<1>11. ASSUME NEW u, Has(q, u), u # StealId(q) PROVE Has(r, u)
  <2>1. PICK e \in Tiers : \E i \in 1 .. Len(q.ids[e]) : q.ids[e][i] = u
    BY <1>11, Zenon DEF Has
  <2>2. PICK i \in 1 .. Len(q.ids[e]) : q.ids[e][i] = u
    BY <2>1, Zenon
  <2>3. i \in 1 .. Len(r.ids[e]) /\ r.ids[e][i] = u
    <3>1. CASE e # p
      BY <1>8, <2>2, <3>1, Zenon
    <3>2. CASE e = p
      <4>1. i # Len(q.ids[p])
        BY <1>4, <1>11, <2>2, <3>2, Zenon
      <4>2. i \in 1 .. Len(q.ids[p]) - 1
        BY <1>2, <2>2, <3>2, <4>1, SMTT(30)
      <4>3. r.ids[p][i] = q.ids[p][i] /\ Len(r.ids[p]) = Len(q.ids[p]) - 1
        BY <1>8, <4>2, Zenon
      <4> QED BY <2>2, <3>2, <4>2, <4>3, Zenon
    <3> QED BY <3>1, <3>2, Zenon
  <2> QED BY <2>3, Zenon DEF Has
<1> QED BY <1>6, <1>7, <1>9, <1>10, <1>11, Zenon DEF r

\* push keeps the ids in the tiers of their priorities.
LEMMA PushSorted ==
    ASSUME NEW q \in ReadyQueuesOf(Tasks), NEW t \in Tasks, Sorted(q)
    PROVE  Sorted(Push(q, PriorityOf[t], t))
<1> DEFINE p == PriorityOf[t]
           r == Push(q, p, t)
<1>1. p \in Tiers
  BY ExecutorAssumption, Zenon
<1>2. \A e \in Tiers : q.ids[e] \in Seq(Tasks)
  BY Zenon DEF ReadyQueuesOf
<1>3. r.ids = [q.ids EXCEPT ![p] = Append(@, t)]
  BY Zenon DEF Push, ReadyQueuesOf
<1>4. /\ Len(r.ids[p]) = Len(q.ids[p]) + 1 /\ Len(q.ids[p]) \in Nat
      /\ r.ids[p][Len(q.ids[p]) + 1] = t
      /\ \A i \in 1 .. Len(q.ids[p]) : r.ids[p][i] = q.ids[p][i]
      /\ \A e \in Tiers \ {p} : r.ids[e] = q.ids[e]
  BY <1>1, <1>2, <1>3 DEF ReadyQueuesOf
<1>5. p = PriorityOf[t]
  BY Zenon
<1> HIDE DEF p, r
<1>6. ASSUME NEW e \in Tiers, NEW i \in 1 .. Len(r.ids[e]) PROVE PriorityOf[r.ids[e][i]] = e
  <2>1. CASE e # p
    BY <1>4, <2>1, Zenon DEF Sorted
  <2>2. CASE e = p /\ i = Len(q.ids[p]) + 1
    BY <1>5, <1>4, <2>2, Zenon
  <2>3. CASE e = p /\ i # Len(q.ids[p]) + 1
    <3>1. i \in 1 .. Len(q.ids[p]) + 1 /\ i # Len(q.ids[p]) + 1 /\ Len(q.ids[p]) \in Nat
      BY <1>4, <2>3, Zenon
    <3>2. i \in 1 .. Len(q.ids[p])
      BY <3>1, SMTT(30)
    <3> QED BY <1>1, <1>4, <2>3, <3>2, ZenonT(30) DEF Sorted
  <2> QED BY <2>1, <2>2, <2>3, Zenon
<1> QED BY <1>6, Zenon DEF Sorted, p, r

\* So does pop.
LEMMA PopSorted ==
    ASSUME NEW q \in ReadyQueuesOf(Tasks), NEW lim \in Nat, Sorted(q)
    PROVE  Sorted(AfterPop(q, lim))
<1> DEFINE p == PopTier(q, lim)
           r == AfterPop(q, lim)
<1>1. \A e \in Tiers : q.ids[e] \in Seq(Tasks)
  BY Zenon DEF ReadyQueuesOf
<1>2. CASE HasReady(q)
  <2>1. p \in Tiers /\ q.ids[p] # << >>
    BY <1>2 DEF PopTier, HasReady, Tiers
  <2>2. r = [ids |-> [q.ids EXCEPT ![p] = Tail(@)], streak |-> StreakAfter(q, p)]
    BY <1>2, Zenon DEF AfterPop
  <2> HIDE DEF p, r
  <2>3. /\ Len(r.ids[p]) = Len(q.ids[p]) - 1 /\ Len(q.ids[p]) \in Nat
        /\ \A i \in 1 .. Len(q.ids[p]) - 1 : r.ids[p][i] = q.ids[p][i + 1]
        /\ \A e \in Tiers \ {p} : r.ids[e] = q.ids[e]
    BY <1>1, <2>1, <2>2 DEF ReadyQueuesOf
  <2>4. ASSUME NEW e \in Tiers, NEW i \in 1 .. Len(r.ids[e]) PROVE PriorityOf[r.ids[e][i]] = e
    <3>1. CASE e # p
      BY <2>3, <3>1 DEF Sorted
    <3>2. CASE e = p
      <4>1. i \in 1 .. Len(q.ids[p]) - 1 /\ i + 1 \in 1 .. Len(q.ids[p])
        BY <2>3, <3>2
      <4> QED BY <2>1, <2>3, <3>2, <4>1, SMTT(30) DEF Sorted
    <3> QED BY <3>1, <3>2, Zenon
  <2> QED BY <2>4, Zenon DEF Sorted, r
<1>3. CASE ~HasReady(q)
  <2>1. r.ids = q.ids
    BY <1>3, Zenon DEF AfterPop, ReadyQueuesOf
  <2> QED BY <2>1, Zenon DEF Sorted
<1> QED BY <1>2, <1>3, Zenon

\* So does steal_one, which never takes a Critical id.
LEMMA StealSorted ==
    ASSUME NEW q \in ReadyQueuesOf(Tasks), CanSteal(q), Sorted(q)
    PROVE  Sorted(AfterSteal(q)) /\ PriorityOf[StealId(q)] # "critical"
<1> DEFINE p == StealTier(q)
           r == AfterSteal(q)
<1>1. \A e \in Tiers : q.ids[e] \in Seq(Tasks)
  BY Zenon DEF ReadyQueuesOf
<1>2. p \in Tiers /\ p # "critical" /\ Len(q.ids[p]) \in Nat /\ Len(q.ids[p]) > 0
  <2>1. q.ids["normal"] \in Seq(Tasks) /\ q.ids["background"] \in Seq(Tasks)
    BY <1>1, Zenon DEF Tiers
  <2>2. CASE q.ids["normal"] = << >>
    BY <2>1, <2>2 DEF StealTier, CanSteal, Tiers
  <2>3. CASE q.ids["normal"] # << >>
    BY <2>1, <2>3 DEF StealTier, Tiers
  <2> QED BY <2>2, <2>3, Zenon
<1>3. r.ids = [q.ids EXCEPT ![p] = SubSeq(@, 1, Len(@) - 1)]
  BY Zenon DEF AfterSteal, ReadyQueuesOf
<1>4. StealId(q) = q.ids[p][Len(q.ids[p])]
  BY Zenon DEF StealId
<1> HIDE DEF p, r
<1>5. /\ Len(r.ids[p]) = Len(q.ids[p]) - 1
      /\ \A i \in 1 .. Len(q.ids[p]) - 1 : r.ids[p][i] = q.ids[p][i]
      /\ \A e \in Tiers \ {p} : r.ids[e] = q.ids[e]
  BY <1>1, <1>2, <1>3 DEF ReadyQueuesOf
<1>6. ASSUME NEW e \in Tiers, NEW i \in 1 .. Len(r.ids[e]) PROVE PriorityOf[r.ids[e][i]] = e
  <2>1. CASE e # p
    BY <1>5, <2>1 DEF Sorted
  <2>2. CASE e = p
    <3>1. i \in 1 .. Len(q.ids[p]) - 1 /\ i \in 1 .. Len(q.ids[p])
      BY <1>2, <1>5, <2>2
    <3> QED BY <1>2, <1>5, <2>2, <3>1, SMTT(30) DEF Sorted
  <2> QED BY <2>1, <2>2, Zenon
<1>7. PriorityOf[StealId(q)] = p
  BY <1>2, <1>4 DEF Sorted
<1> QED BY <1>2, <1>6, <1>7, Zenon DEF Sorted, r

\* The same, for the queues of the executors.
LEMMA TaskPush ==
    \A q \in ReadyQueuesOf(Tasks), t \in Tasks :
        /\ Push(q, PriorityOf[t], t) \in ReadyQueuesOf(Tasks)
        /\ Push(q, PriorityOf[t], t).streak = q.streak
        /\ \A u : Has(Push(q, PriorityOf[t], t), u) <=> Has(q, u) \/ u = t
<1> TAKE q \in ReadyQueuesOf(Tasks), t \in Tasks
<1>1. PriorityOf[t] \in Tiers
  BY ExecutorAssumption, Zenon
<1> QED BY <1>1, PushHas

-----------------------------------------------------------------------------
(* The inductive invariant *)

\* The inductive invariant holds when the executors start.
LEMMA InitHolds == Init => IInv
<1> SUFFICES ASSUME Init PROVE IInv
  BY Zenon
<1> USE ExecutorAssumption
<1>1. \A c \in Cpus : rq[c] \in ReadyQueuesOf(Tasks) /\ rq[c].streak = 0
  <2>1. Push(NewQueues, PriorityOf[First], First) \in ReadyQueuesOf(Tasks)
    BY NewQueuesEmpty, TaskPush, Zenon
  <2>2. Push(NewQueues, PriorityOf[First], First).streak = 0
    BY NewQueuesEmpty, TaskPush, Zenon
  <2> QED BY <2>1, <2>2, NewQueuesEmpty, Zenon DEF Init
<1>2. \A c \in Cpus : \A u : Has(rq[c], u) => u = First
  <2>1. NewQueues \in ReadyQueuesOf(Tasks) /\ \A u : ~Has(NewQueues, u)
    BY NewQueuesEmpty, Zenon
  <2>2. \A u : Has(Push(NewQueues, PriorityOf[First], First), u) => u = First
    BY <2>1, TaskPush, Zenon
  <2> QED BY <2>1, <2>2, Zenon DEF Init
<1>3. TypeOK
  <2>1. rq \in [Cpus -> ReadyQueuesOf(Tasks)] /\ \A c \in Cpus : rq[c].streak <= Limit
    BY <1>1 DEF Init
  <2> QED BY <2>1, Zenon DEF Init, TypeOK, PCs
<1>4. InHand /\ Calls /\ SleepSafe
  BY Zenon DEF Init, InHand, Calls, SleepSafe
<1>5. OneOwner /\ NoTaskLost
  BY Zenon DEF Init, OneOwner, NoTaskLost, At, Holding
<1>6. BornOnly
  BY <1>2, Zenon DEF Init, BornOnly, Born
<1>7. WakeSafe
  <2>1. \A t \in Tasks : ~Expected(t)
    BY Zenon DEF Init, Expected, At, Holding
  <2> QED BY <2>1, Zenon DEF WakeSafe
<1> QED BY <1>3, <1>4, <1>5, <1>6, <1>7, Zenon DEF IInv

\* wake_by_ref adds the waker's id to the queue of the waker's CPU.
LEMMA WakeEffect ==
    ASSUME TypeOK, NEW w \in wakers, Wake(w)
    PROVE  /\ w[1] \in Tasks /\ w[2] \in Cpus
           /\ rq' \in [Cpus -> ReadyQueuesOf(Tasks)] /\ \A d \in Cpus : rq'[d].streak <= Limit
           /\ owed' = IF w[1] \notin finished /\ lastCpu[w[1]] = w[2]
                        THEN owed \cup {w[1]} ELSE owed
           /\ owed' \in SUBSET Tasks /\ fires' \in Nat /\ wakers' = wakers
           /\ \A d \in Cpus \ {w[2]} : rq'[d] = rq[d]
           /\ \A u : Has(rq'[w[2]], u) <=> Has(rq[w[2]], u) \/ u = w[1]
<1>1. /\ rq' = [rq EXCEPT ![w[2]] = Push(@, PriorityOf[w[1]], w[1])]
      /\ owed' = IF w[1] \notin finished /\ lastCpu[w[1]] = w[2]
                   THEN owed \cup {w[1]} ELSE owed
      /\ wakers' = wakers /\ fires' = fires + 1
  BY Zenon DEF Wake
<1>2. w[1] \in Tasks /\ w[2] \in Cpus
  BY Zenon DEF TypeOK
<1>3. rq[w[2]] \in ReadyQueuesOf(Tasks) /\ rq[w[2]].streak <= Limit
  BY <1>2, Zenon DEF TypeOK
<1>4. rq'[w[2]] = Push(rq[w[2]], PriorityOf[w[1]], w[1])
  BY <1>1, <1>2, Zenon DEF TypeOK
<1>5. \A d \in Cpus \ {w[2]} : rq'[d] = rq[d]
  BY <1>1, Zenon DEF TypeOK
<1>6. /\ Push(rq[w[2]], PriorityOf[w[1]], w[1]) \in ReadyQueuesOf(Tasks)
      /\ Push(rq[w[2]], PriorityOf[w[1]], w[1]).streak = rq[w[2]].streak
      /\ \A u : Has(Push(rq[w[2]], PriorityOf[w[1]], w[1]), u) <=> Has(rq[w[2]], u) \/ u = w[1]
  BY <1>2, <1>3, TaskPush, Zenon
<1>7. \A d \in Cpus : rq'[d] \in ReadyQueuesOf(Tasks) /\ rq'[d].streak <= Limit
  BY <1>3, <1>4, <1>5, <1>6, Zenon DEF TypeOK
<1>8. rq' \in [Cpus -> ReadyQueuesOf(Tasks)]
  BY <1>1, <1>2, <1>4, <1>6, Zenon DEF TypeOK
<1>9. owed' \in SUBSET Tasks /\ fires' \in Nat
  BY <1>1, <1>2 DEF TypeOK
<1> QED BY <1>1, <1>2, <1>4, <1>5, <1>6, <1>7, <1>8, <1>9, Zenon

\* A future or a handler that calls a waker changes the queues only.
LEMMA FireEffect ==
    ASSUME TypeOK, NEW c \in Cpus, Fire(c) \/ IrqFire(c)
    PROVE  /\ UNCHANGED <<tasks, pc, cur, spawned, wakers, unborn, finished, lastCpu>>
           /\ \E w \in wakers :
                 /\ w[1] \in Tasks /\ w[2] \in Cpus
                 /\ owed' = IF w[1] \notin finished /\ lastCpu[w[1]] = w[2]
                              THEN owed \cup {w[1]} ELSE owed
                 /\ \A d \in Cpus \ {w[2]} : rq'[d] = rq[d]
                 /\ \A u : Has(rq'[w[2]], u) <=> Has(rq[w[2]], u) \/ u = w[1]
<1>1. UNCHANGED <<tasks, pc, cur, spawned, unborn, finished, lastCpu>>
  BY Zenon DEF Fire, IrqFire
<1>2. PICK w \in wakers : Wake(w)
  BY Zenon DEF Fire, IrqFire
<1> QED BY <1>1, <1>2, WakeEffect, Zenon

\* What a quiet step leaves alone.
LEMMA QuietEffect ==
    ASSUME TypeOK, NEW c \in Cpus, Quiet(c)
    PROVE  /\ UNCHANGED <<tasks, rq, cur, spawned, wakers, sending, unborn, finished,
                          lastCpu, owed, fires>>
           /\ \/ pc' = pc
              \/ pc[c] = "halted" /\ pc' = [pc EXCEPT ![c] = "pop"]
           /\ \A d \in Cpus : pc'[d] = pc[d] \/ (pc[d] = "halted" /\ pc'[d] = "pop")
<1>1. UNCHANGED <<tasks, rq, cur, spawned, wakers, sending, unborn, finished,
                  lastCpu, owed, fires>>
  BY Zenon DEF Quiet, UserCode, IpiTaken, IrqSendIpi, WakeFromHalt, Tick, InterruptReturn
<1>2. \/ pc' = pc
      \/ pc[c] = "halted" /\ pc' = [pc EXCEPT ![c] = "pop"]
  BY Zenon DEF Quiet, UserCode, IpiTaken, IrqSendIpi, WakeFromHalt, Tick, InterruptReturn,
               Awake, Asleep, Goto
<1> QED BY <1>1, <1>2, Zenon DEF TypeOK

\* Every step of an executor keeps the types.
LEMMA TypeStep ==
    ASSUME TypeOK, InHand, NEW c \in Cpus, Loop(c) \/ Environment(c)
    PROVE  TypeOK'
<1> USE ExecutorAssumption DEF TypeOK, PCs, Goto, PutDown, interrupts
<1>1. CASE Pop(c)
  <2>1. rq'[c] \in ReadyQueuesOf(Tasks) /\ rq'[c].streak <= Limit
    BY <1>1, PopHas, PopEmpty DEF Pop
  <2>2. rq' \in [Cpus -> ReadyQueuesOf(Tasks)] /\ \A d \in Cpus : rq'[d].streak <= Limit
    BY <1>1, <2>1, Zenon DEF Pop
  <2>3. HasReady(rq[c]) => PopId(rq[c], Limit) \in Tasks
    BY PopHas, Zenon
  <2>4. cur' \in [Cpus -> Tasks \cup {NoTask}] /\ pc' \in [Cpus -> PCs]
    <3>1. CASE HasReady(rq[c])
      BY <1>1, <2>3, <3>1, SMTT(30) DEF Pop
    <3>2. CASE ~HasReady(rq[c])
      BY <1>1, <3>2, Zenon DEF Pop
    <3> QED BY <3>1, <3>2, Zenon
  <2> QED BY <1>1, <2>2, <2>4, Zenon DEF Pop
<1>2. CASE Take(c)
  <2>1. cur[c] \in Tasks /\ tasks' \in [Cpus -> SUBSET Tasks]
    BY <1>2, Zenon DEF Take
  <2>2. wakers' \in SUBSET (Tasks \X Cpus)
    BY <1>2, <2>1 DEF Take
  <2> QED BY <1>2, <2>1, <2>2, Zenon DEF Take
<1>3. CASE TakeNothing(c)
  BY <1>3, Zenon DEF TakeNothing
<1>4. CASE PollPending(c)
  BY <1>4 DEF PollPending, InHand
<1>5. CASE PollReady(c)
  BY <1>5 DEF PollReady, InHand
<1>7. CASE Spawn(c)
  BY <1>7 DEF Spawn
<1>8. CASE SpawnPush(c)
  <2>1. PICK t \in spawned[c] : rq' = [rq EXCEPT ![c] = Push(@, PriorityOf[t], t)]
                               /\ owed' = owed \cup {t}
    BY <1>8, Zenon DEF SpawnPush
  <2>2. t \in Tasks /\ PriorityOf[t] \in Tiers
    BY Zenon
  <2>3. rq'[c] \in ReadyQueuesOf(Tasks) /\ rq'[c].streak <= Limit
    <3>1. rq[c] \in ReadyQueuesOf(Tasks) /\ rq[c].streak <= Limit
      BY Zenon
    <3>2. rq'[c] = Push(rq[c], PriorityOf[t], t)
      BY <2>1, Zenon
    <3> HIDE DEF TypeOK
    <3>3. /\ Push(rq[c], PriorityOf[t], t) \in ReadyQueuesOf(Tasks)
          /\ Push(rq[c], PriorityOf[t], t).streak = rq[c].streak
      BY <2>2, <3>1, TaskPush, Zenon
    <3> QED BY <3>1, <3>2, <3>3, Zenon
  <2>4. rq' \in [Cpus -> ReadyQueuesOf(Tasks)] /\ \A d \in Cpus : rq'[d].streak <= Limit
    BY <2>1, <2>3, ZenonT(30)
  <2> QED BY <1>8, <2>1, <2>2, <2>4 DEF SpawnPush
<1>9. CASE Fire(c) \/ IrqFire(c)
  <2>1. PICK w \in wakers : Wake(w)
    BY <1>9, Zenon DEF Fire, IrqFire
  <2>2. w[1] \in Tasks /\ w[2] \in Cpus
    BY Zenon
  <2>3. /\ rq' \in [Cpus -> ReadyQueuesOf(Tasks)] /\ \A d \in Cpus : rq'[d].streak <= Limit
        /\ owed' \in SUBSET Tasks /\ fires' \in Nat /\ wakers' = wakers
    BY <2>1, WakeEffect, Zenon
  <2>4. CASE Fire(c)
    <3>1. sending' \in [Cpus -> SUBSET Cpus]
      BY <2>4 DEF Fire
    <3> QED BY <2>3, <2>4, <3>1, Zenon DEF Fire
  <2>5. CASE IrqFire(c)
    <3>1. irqSends' \in [Cpus -> SUBSET Cpus] /\ late' \in SUBSET Cpus /\ handling' \in SUBSET Cpus
      BY <2>5 DEF IrqFire
    <3> QED BY <2>3, <2>5, <3>1, Zenon DEF IrqFire
  <2> QED BY <1>9, <2>4, <2>5, Zenon
<1>10. CASE SendIpi(c)
  BY <1>10, Zenon DEF SendIpi
<1>11. CASE Check(c) \/ Halt(c)
  BY <1>11, Zenon DEF Check, Halt
<1>12. CASE Steal(c)
  <2>1. PICK v \in Cpus \ {c} :
          /\ CanSteal(rq[v]) /\ StealId(rq[v]) \in tasks[v]
          /\ rq' = [rq EXCEPT ![v] = AfterSteal(@)]
          /\ tasks' = [tasks EXCEPT ![v] = @ \ {StealId(rq[v])}]
          /\ cur' = [cur EXCEPT ![c] = StealId(rq[v])]
    BY <1>12, Zenon DEF Steal
  <2>2. rq'[v] \in ReadyQueuesOf(Tasks) /\ rq'[v].streak <= Limit
    BY <2>1, StealHas
  <2>3. rq' \in [Cpus -> ReadyQueuesOf(Tasks)] /\ \A d \in Cpus : rq'[d].streak <= Limit
    BY <2>1, <2>2, Zenon
  <2> QED BY <1>12, <2>1, <2>3, Zenon DEF Steal
<1>13. CASE InsertStolen(c)
  BY <1>13 DEF InsertStolen, InHand
<1>14. CASE PushStolen(c)
  <2>1. cur[c] \in Tasks /\ PriorityOf[cur[c]] \in Tiers
    BY <1>14, Zenon DEF PushStolen, InHand
  <2>2. rq'[c] \in ReadyQueuesOf(Tasks) /\ rq'[c].streak <= Limit
    <3>1. rq'[c] = Push(rq[c], PriorityOf[cur[c]], cur[c])
      BY <1>14, Zenon DEF PushStolen
    <3>2. rq[c] \in ReadyQueuesOf(Tasks) /\ rq[c].streak <= Limit
      BY Zenon
    <3> QED BY <2>1, <3>1, <3>2, TaskPush
  <2>3. rq' \in [Cpus -> ReadyQueuesOf(Tasks)] /\ \A d \in Cpus : rq'[d].streak <= Limit
    BY <1>14, <2>2, Zenon DEF PushStolen
  <2> QED BY <1>14, <2>3, Zenon DEF PushStolen
<1>15. CASE Quiet(c)
  <2>1. UNCHANGED <<tasks, rq, cur, spawned, wakers, sending, unborn, finished, lastCpu, owed, fires>>
    BY <1>15, QuietEffect, Zenon
  <2>2. pc' \in [Cpus -> PCs]
    BY <1>15, QuietEffect, Zenon
  <2>3. ipi' \in SUBSET Cpus /\ irqSends' \in [Cpus -> SUBSET Cpus]
    BY <1>15 DEF Quiet, UserCode, IpiTaken, IrqSendIpi, WakeFromHalt, Tick, InterruptReturn
  <2>4. masked' \in SUBSET Cpus /\ handling' \in SUBSET Cpus /\ late' \in SUBSET Cpus
    BY <1>15 DEF Quiet, UserCode, IpiTaken, IrqSendIpi, WakeFromHalt, Tick, InterruptReturn, Awake
  <2> QED BY <2>1, <2>2, <2>3, <2>4, Zenon
<1> QED BY <1>1, <1>2, <1>3, <1>4, <1>5, <1>7, <1>8, <1>9, <1>10, <1>11,
           <1>12, <1>13, <1>14, <1>15, Zenon DEF Loop, Environment, Quiet

-----------------------------------------------------------------------------
(* Where tasks and ids are. *)

\* Every step keeps the task in hand with the place of the loop that holds it.
LEMMA InHandStep ==
    ASSUME TypeOK, InHand, OneOwner, BornOnly, NEW c \in Cpus, Loop(c) \/ Environment(c)
    PROVE  InHand'
<1> USE ExecutorAssumption DEF TypeOK, InHand, PCs, Goto, PutDown
<1>1. CASE Pop(c)
  <2>1. HasReady(rq[c]) => PopId(rq[c], Limit) \in Tasks
    BY PopHas, Zenon
  <2> QED BY <1>1, <2>1 DEF Pop
<1>2. CASE Take(c) \/ TakeNothing(c)
  <2>1. CASE Take(c)
    BY <2>1, Zenon DEF Take, OneOwner, Holding
  <2>2. CASE TakeNothing(c)
    BY <2>2, Zenon DEF TakeNothing
  <2> QED BY <1>2, <2>1, <2>2, Zenon
<1>3. CASE PollPending(c) \/ PollReady(c)
  BY <1>3 DEF PollPending, PollReady
<1>5. CASE Spawn(c)
  BY <1>5 DEF Spawn, BornOnly, Born
<1>6. CASE SpawnPush(c)
  BY <1>6, Zenon DEF SpawnPush
<1>7. CASE Fire(c) \/ IrqFire(c)
  BY <1>7, FireEffect, Zenon
<1>8. CASE SendIpi(c)
  BY <1>8, Zenon DEF SendIpi
<1>9. CASE Check(c) \/ Halt(c)
  BY <1>9 DEF Check, Halt
<1>10. CASE Steal(c)
  BY <1>10 DEF Steal
<1>11. CASE InsertStolen(c) \/ PushStolen(c)
  BY <1>11 DEF InsertStolen, PushStolen
<1>12. CASE Quiet(c)
  <2>1. /\ UNCHANGED <<tasks, rq, cur, spawned, wakers, sending, unborn, finished, lastCpu, owed>>
        /\ \A d \in Cpus : pc'[d] = pc[d] \/ (pc[d] = "halted" /\ pc'[d] = "pop")
    BY <1>12, QuietEffect, Zenon
  <2> QED BY <2>1, Zenon
<1> QED BY <1>1, <1>2, <1>3, <1>5, <1>6, <1>7, <1>8, <1>9, <1>10,
           <1>11, <1>12, Zenon DEF Loop, Environment, Quiet

\* Every step keeps each future with one owner.
LEMMA OwnerStep ==
    ASSUME TypeOK, InHand, OneOwner, BornOnly,
           NEW c \in Cpus, Loop(c) \/ Environment(c)
    PROVE  OneOwner'
<1> USE DEF TypeOK, OneOwner, At, Holding, Goto, PutDown
<1>1. CASE Pop(c)
  BY <1>1, SMTT(30) DEF Pop
<1>2. CASE Take(c)
  BY <1>2 DEF Take
<1>3. CASE TakeNothing(c)
  BY <1>3 DEF TakeNothing
<1>4. CASE PollPending(c)
  BY <1>4 DEF PollPending
<1>5. CASE PollReady(c)
  BY <1>5 DEF PollReady
<1>7. CASE Spawn(c)
  BY <1>7 DEF Spawn, BornOnly, Born
<1>8. CASE SpawnPush(c)
  BY <1>8, Zenon DEF SpawnPush
<1>9. CASE Fire(c) \/ IrqFire(c)
  <2>1. UNCHANGED <<tasks, pc, cur>>
    BY <1>9, FireEffect, Zenon
  <2> QED BY <2>1
<1>10. CASE SendIpi(c)
  BY <1>10, ZenonT(30) DEF SendIpi
<1>11. CASE Check(c) \/ Halt(c)
  BY <1>11 DEF Check, Halt
<1>12. CASE Steal(c)
  <2>1. PICK v \in Cpus \ {c} :
          /\ CanSteal(rq[v]) /\ StealId(rq[v]) \in tasks[v]
          /\ rq' = [rq EXCEPT ![v] = AfterSteal(@)]
          /\ tasks' = [tasks EXCEPT ![v] = @ \ {StealId(rq[v])}]
          /\ cur' = [cur EXCEPT ![c] = StealId(rq[v])]
    BY <1>12, Zenon DEF Steal
  <2> QED BY <1>12, <2>1 DEF Steal
<1>13. CASE InsertStolen(c)
  BY <1>13 DEF InsertStolen
<1>14. CASE PushStolen(c)
  BY <1>14 DEF PushStolen
<1>15. CASE Quiet(c)
  <2>1. /\ UNCHANGED <<tasks, rq, cur, spawned, wakers, sending, unborn, finished, lastCpu, owed>>
        /\ \A d \in Cpus : pc'[d] = pc[d] \/ (pc[d] = "halted" /\ pc'[d] = "pop")
    BY <1>15, QuietEffect, Zenon
  <2> QED BY <2>1
<1> QED BY <1>1, <1>2, <1>3, <1>4, <1>5, <1>7, <1>8, <1>9, <1>10,
           <1>11, <1>12, <1>13, <1>14, <1>15, Zenon DEF Loop, Environment, Quiet

\* No step drops a future that has not returned Ready.
LEMMA LostStep ==
    ASSUME TypeOK, InHand, NoTaskLost,
           NEW c \in Cpus, Loop(c) \/ Environment(c)
    PROVE  NoTaskLost'
<1> USE DEF TypeOK, NoTaskLost, At, Holding, Goto, PutDown
<1>1. CASE Pop(c)
  BY <1>1 DEF Pop
<1>2. CASE Take(c)
  BY <1>2, Zenon DEF Take
<1>3. CASE TakeNothing(c)
  BY <1>3, Zenon DEF TakeNothing
<1>4. CASE PollPending(c)
  BY <1>4, Zenon DEF PollPending
<1>5. CASE PollReady(c)
  BY <1>5, Zenon DEF PollReady
<1>7. CASE Spawn(c)
  BY <1>7 DEF Spawn
<1>8. CASE SpawnPush(c)
  BY <1>8, Zenon DEF SpawnPush
<1>9. CASE Fire(c) \/ IrqFire(c)
  BY <1>9, FireEffect, Zenon
<1>10. CASE SendIpi(c)
  BY <1>10, Zenon DEF SendIpi
<1>11. CASE Check(c) \/ Halt(c)
  BY <1>11, Zenon DEF Check, Halt
<1>12. CASE Steal(c)
  <2>1. PICK v \in Cpus \ {c} :
          /\ CanSteal(rq[v]) /\ StealId(rq[v]) \in tasks[v]
          /\ rq' = [rq EXCEPT ![v] = AfterSteal(@)]
          /\ tasks' = [tasks EXCEPT ![v] = @ \ {StealId(rq[v])}]
          /\ cur' = [cur EXCEPT ![c] = StealId(rq[v])]
    BY <1>12, Zenon DEF Steal
  <2> QED BY <1>12, <2>1 DEF Steal
<1>13. CASE InsertStolen(c)
  BY <1>13, Zenon DEF InsertStolen
<1>14. CASE PushStolen(c)
  BY <1>14, Zenon DEF PushStolen
<1>15. CASE Quiet(c)
  <2>1. /\ UNCHANGED <<tasks, rq, cur, spawned, wakers, sending, unborn, finished, lastCpu, owed>>
        /\ \A d \in Cpus : pc'[d] = pc[d] \/ (pc[d] = "halted" /\ pc'[d] = "pop")
    BY <1>15, QuietEffect, Zenon
  <2> QED BY <2>1, Zenon
<1> QED BY <1>1, <1>2, <1>3, <1>4, <1>5, <1>7, <1>8, <1>9, <1>10,
           <1>11, <1>12, <1>13, <1>14, <1>15, ZenonT(30) DEF Loop, Environment, Quiet

\* Every step keeps the record of the wake-ups in flight.
LEMMA CallsStep ==
    ASSUME TypeOK, InHand, BornOnly, Calls,
           NEW c \in Cpus, Loop(c) \/ Environment(c)
    PROVE  Calls'
<1> USE DEF TypeOK, Calls, Goto, PutDown, CallDone
<1>1. CASE Pop(c)
  BY <1>1 DEF Pop
<1>2. CASE Take(c)
  BY <1>2 DEF Take, BornOnly, Born
<1>3. CASE TakeNothing(c)
  BY <1>3 DEF TakeNothing
<1>4. CASE PollPending(c) \/ PollReady(c)
  BY <1>4 DEF PollPending, PollReady
<1>6. CASE Spawn(c)
  <2>1. PICK t \in unborn :
          /\ unborn' = unborn \ {t}
          /\ tasks' = [tasks EXCEPT ![c] = @ \cup {t}]
          /\ spawned' = [spawned EXCEPT ![c] = {t}]
          /\ lastCpu' = [lastCpu EXCEPT ![t] = c]
    BY <1>6, Zenon DEF Spawn
  <2>2. \A d \in Cpus : t \notin spawned[d]
    BY Zenon DEF BornOnly
  <2> QED BY <1>6, <2>1, <2>2 DEF Spawn
<1>7. CASE SpawnPush(c)
  BY <1>7, Zenon DEF SpawnPush
<1>8. CASE Fire(c) \/ IrqFire(c)
  <2>1. UNCHANGED <<tasks, pc, spawned, lastCpu>>
    BY <1>8, FireEffect, Zenon
  <2>2. \A d \in Cpus \ {c} : sending'[d] = sending[d]
    BY <1>8, ZenonT(30) DEF Fire, IrqFire
  <2>3. sending'[c] # {} => pc[c] = "poll"
    BY <1>8, Zenon DEF Fire, IrqFire
  <2>4. c \notin sending'[c]
    BY <1>8 DEF Fire, IrqFire
  <2> QED BY <2>1, <2>2, <2>3, <2>4, Zenon
<1>9. CASE SendIpi(c)
  BY <1>9, Zenon DEF SendIpi
<1>10. CASE Check(c) \/ Halt(c)
  BY <1>10 DEF Check, Halt
<1>11. CASE Steal(c)
  <2>1. PICK v \in Cpus \ {c} :
          /\ CanSteal(rq[v]) /\ StealId(rq[v]) \in tasks[v]
          /\ rq' = [rq EXCEPT ![v] = AfterSteal(@)]
          /\ tasks' = [tasks EXCEPT ![v] = @ \ {StealId(rq[v])}]
          /\ cur' = [cur EXCEPT ![c] = StealId(rq[v])]
    BY <1>11, Zenon DEF Steal
  <2>2. Has(rq[v], StealId(rq[v]))
    BY <2>1, StealHas, Zenon
  <2>3. StealId(rq[v]) \notin spawned[v]
    BY <2>1, <2>2, ZenonT(30) DEF BornOnly, Born
  <2> QED BY <1>11, <2>1, <2>3 DEF Steal
<1>12. CASE InsertStolen(c) \/ PushStolen(c)
  BY <1>12 DEF InsertStolen, PushStolen
<1>13. CASE Quiet(c)
  <2>1. /\ UNCHANGED <<tasks, rq, cur, spawned, wakers, sending, unborn, finished, lastCpu, owed>>
        /\ \A d \in Cpus : pc'[d] = pc[d] \/ (pc[d] = "halted" /\ pc'[d] = "pop")
    BY <1>13, QuietEffect, Zenon
  <2> QED BY <2>1, Zenon
<1> QED BY <1>1, <1>2, <1>3, <1>4, <1>6, <1>7, <1>8, <1>9, <1>10,
           <1>11, <1>12, <1>13, Zenon DEF Loop, Environment, Quiet

\* Every step keeps unborn tasks out of queues, slabs and hands.
LEMMA BornStep ==
    ASSUME TypeOK, InHand, OneOwner, BornOnly, Calls,
           NEW c \in Cpus, Loop(c) \/ Environment(c)
    PROVE  BornOnly'
<1> USE DEF TypeOK, BornOnly, Born, Goto, PutDown
<1>1. CASE Pop(c)
  <2>1. \A d \in Cpus, u \in Tasks : Has(rq'[d], u) => Has(rq[d], u)
    <3>1. \A u : Has(rq'[c], u) => Has(rq[c], u)
      BY <1>1, PopHas, PopEmpty, ExecutorAssumption DEF Pop
    <3> QED BY <1>1, <3>1, Zenon DEF Pop
  <2>2. HasReady(rq[c]) => PopId(rq[c], Limit) \in Tasks /\ Has(rq[c], PopId(rq[c], Limit))
    BY PopHas, ExecutorAssumption, Zenon
  <2> QED BY <1>1, <2>1, <2>2 DEF Pop
<1>2. CASE Take(c) \/ TakeNothing(c)
  BY <1>2, SMTT(30) DEF Take, TakeNothing
<1>3. CASE PollPending(c)
  BY <1>3 DEF PollPending, InHand
<1>4. CASE PollReady(c)
  BY <1>4, SMTT(30) DEF PollReady, InHand
<1>6. CASE Spawn(c)
  BY <1>6 DEF Spawn
<1>7. CASE SpawnPush(c)
  <2>1. PICK t \in spawned[c] : rq' = [rq EXCEPT ![c] = Push(@, PriorityOf[t], t)]
                               /\ owed' = owed \cup {t}
    BY <1>7, Zenon DEF SpawnPush
  <2>2. t \in Tasks /\ t \in tasks[c] /\ pc[c] = "poll"
    BY Zenon DEF Calls
  <2>3. rq[c] \in ReadyQueuesOf(Tasks) /\ rq'[c] = Push(rq[c], PriorityOf[t], t)
    BY <2>1, Zenon
  <2>4. \A u : Has(rq'[c], u) <=> Has(rq[c], u) \/ u = t
    <3> HIDE DEF TypeOK, BornOnly, Born
    <3>1. \A u : Has(Push(rq[c], PriorityOf[t], t), u) <=> Has(rq[c], u) \/ u = t
      BY <2>2, <2>3, TaskPush, Zenon
    <3> QED BY <2>3, <3>1, Zenon
  <2>5. t \notin unborn /\ \A d \in Cpus : t \notin spawned'[d]
    BY <1>7, <2>2 DEF SpawnPush, Calls, OneOwner, At
  <2>6. /\ UNCHANGED <<tasks, pc, cur, wakers, unborn, finished>>
        /\ spawned' = [spawned EXCEPT ![c] = {}]
    BY <1>7, Zenon DEF SpawnPush
  <2>7. Born(t)'
    BY <2>5, <2>6, Zenon
  <2>8. \A u : Born(u) => Born(u)'
    BY <2>6, Zenon
  <2> HIDE DEF Born
  <2>9. \A d \in Cpus \ {c} : rq'[d] = rq[d]
    BY <2>1, Zenon
  <2>10. \A d \in Cpus, u \in Tasks : Has(rq'[d], u) => Born(u)'
    BY <2>4, <2>7, <2>8, <2>9, Zenon
  <2> QED BY <2>6, <2>8, <2>10, Zenon
<1>8. CASE Fire(c) \/ IrqFire(c)
  <2>1. PICK w \in wakers :
          /\ w[1] \in Tasks /\ w[2] \in Cpus
          /\ owed' = IF w[1] \notin finished /\ lastCpu[w[1]] = w[2]
                       THEN owed \cup {w[1]} ELSE owed
          /\ \A d \in Cpus \ {w[2]} : rq'[d] = rq[d]
          /\ \A u : Has(rq'[w[2]], u) <=> Has(rq[w[2]], u) \/ u = w[1]
    BY <1>8, FireEffect, Zenon
  <2>2. UNCHANGED <<tasks, pc, cur, spawned, wakers, unborn, finished>>
    BY <1>8, FireEffect, Zenon
  <2>3. \A u : Born(u) <=> Born(u)'
    BY <2>2, Zenon
  <2> HIDE DEF Born
  <2>4. \A d \in Cpus, u \in Tasks : Has(rq'[d], u) => Born(u)'
    BY <2>1, <2>3, Zenon
  <2>5. \A v \in wakers' : Born(v[1])'
    BY <2>2, <2>3, Zenon
  <2> QED BY <2>2, <2>3, <2>4, <2>5, Zenon
<1>9. CASE SendIpi(c)
  BY <1>9, Zenon DEF SendIpi
<1>10. CASE Check(c) \/ Halt(c)
  BY <1>10, SMTT(30) DEF Check, Halt
<1>11. CASE Steal(c)
  <2>1. PICK v \in Cpus \ {c} :
          /\ CanSteal(rq[v]) /\ StealId(rq[v]) \in tasks[v]
          /\ rq' = [rq EXCEPT ![v] = AfterSteal(@)]
          /\ tasks' = [tasks EXCEPT ![v] = @ \ {StealId(rq[v])}]
          /\ cur' = [cur EXCEPT ![c] = StealId(rq[v])]
    BY <1>11, Zenon DEF Steal
  <2>2. /\ StealId(rq[v]) \in Tasks /\ Has(rq[v], StealId(rq[v]))
        /\ \A u : Has(rq'[v], u) => Has(rq[v], u)
        /\ \A u : Has(rq[v], u) => Has(rq'[v], u) \/ u = StealId(rq[v])
    <3>1. rq[v] \in ReadyQueuesOf(Tasks) /\ rq'[v] = AfterSteal(rq[v])
      BY <2>1, Zenon
    <3> QED BY <2>1, <3>1, StealHas
  <2>3. \A d \in Cpus, u \in Tasks : Has(rq'[d], u) => Has(rq[d], u)
    BY <2>1, <2>2, Zenon
  <2> QED BY <1>11, <2>1, <2>2, <2>3 DEF Steal
<1>12. CASE InsertStolen(c)
  <2>1. /\ UNCHANGED <<rq, cur, spawned, wakers, unborn, finished>>
        /\ tasks' = [tasks EXCEPT ![c] = @ \cup {cur[c]}]
        /\ pc[c] = "insert" /\ pc' = [pc EXCEPT ![c] = "push"]
    BY <1>12, Zenon DEF InsertStolen
  <2>2. \A u : Born(u) <=> Born(u)'
    BY <2>1, Zenon
  <2>3. Born(cur[c]) /\ cur[c] \notin unborn
    BY <2>1, Zenon
  <2>4. \A d \in Cpus : tasks'[d] \cap unborn' = {}
    BY <2>1, <2>3
  <2> HIDE DEF Born
  <2>5. \A d \in Cpus : pc'[d] \in {"take", "poll", "insert", "push"} => Born(cur[d])'
    <3>1. \A d \in Cpus \ {c} : pc'[d] = pc[d]
      BY <2>1, Zenon
    <3> QED BY <2>1, <2>2, <2>3, <3>1, Zenon
  <2> QED BY <2>1, <2>2, <2>4, <2>5, Zenon
<1>13. CASE PushStolen(c)
  <2>1. cur[c] \in Tasks /\ pc[c] = "push"
    BY <1>13, Zenon DEF PushStolen, InHand
  <2>2. rq[c] \in ReadyQueuesOf(Tasks) /\ rq'[c] = Push(rq[c], PriorityOf[cur[c]], cur[c])
    BY <1>13, Zenon DEF PushStolen
  <2>3. \A u : Has(rq'[c], u) <=> Has(rq[c], u) \/ u = cur[c]
    <3> HIDE DEF TypeOK, BornOnly, Born
    <3>1. \A u : Has(Push(rq[c], PriorityOf[cur[c]], cur[c]), u) <=> Has(rq[c], u) \/ u = cur[c]
      BY <2>1, <2>2, TaskPush, Zenon
    <3> QED BY <2>2, <3>1, Zenon
  <2>4. /\ UNCHANGED <<tasks, spawned, wakers, unborn, finished>>
        /\ rq' = [rq EXCEPT ![c] = Push(@, PriorityOf[cur[c]], cur[c])]
        /\ pc' = [pc EXCEPT ![c] = "pop"] /\ cur' = [cur EXCEPT ![c] = NoTask]
    BY <1>13, Zenon DEF PushStolen
  <2>5. \A u : Born(u) <=> Born(u)'
    BY <2>4, Zenon
  <2>6. Born(cur[c])
    BY <2>1, Zenon
  <2> HIDE DEF Born
  <2>7. \A d \in Cpus \ {c} : rq'[d] = rq[d] /\ pc'[d] = pc[d] /\ cur'[d] = cur[d]
    BY <2>4, Zenon
  <2>8. \A d \in Cpus, u \in Tasks : Has(rq'[d], u) => Born(u)'
    BY <2>3, <2>5, <2>6, <2>7, Zenon
  <2>9. \A d \in Cpus : pc'[d] \in {"take", "poll", "insert", "push"} => Born(cur[d])'
    BY <2>4, <2>5, <2>7, ZenonT(30)
  <2> QED BY <2>4, <2>5, <2>8, <2>9, Zenon
<1>14. CASE Quiet(c)
  <2>1. /\ UNCHANGED <<tasks, rq, cur, spawned, wakers, sending, unborn, finished, lastCpu, owed>>
        /\ \A d \in Cpus : pc'[d] = pc[d] \/ (pc[d] = "halted" /\ pc'[d] = "pop")
    BY <1>14, QuietEffect, Zenon
  <2> QED BY <2>1, Zenon
<1> QED BY <1>1, <1>2, <1>3, <1>4, <1>6, <1>7, <1>8, <1>9, <1>10,
           <1>11, <1>12, <1>13, <1>14, Zenon DEF Loop, Environment, Quiet

-----------------------------------------------------------------------------
(* Wake-ups, and the theorems. *)

\* A CPU that stays at its place between has_ready and the end of hlt, whose
\* queue gains nothing and whose announcements stay, is as safe as before.
LEMMA SleepKept ==
    ASSUME SleepSafe, NEW d \in Cpus, pc'[d] \in {"steal", "halted"}, pc'[d] = pc[d],
           HasReady(rq'[d]) => HasReady(rq[d]), Announced(d) => Announced(d)',
           d \in handling => d \in handling', d \in late' => d \in late,
           d \in masked' => d \in masked
    PROVE  /\ HasReady(rq'[d]) => Announced(d)' \/ (pc'[d] = "halted" /\ d \in handling')
           /\ d \in late' => d \notin masked'
BY Zenon DEF SleepSafe

\* No step lets a CPU halt on queued work.
LEMMA SleepStep ==
    ASSUME TypeOK, InHand, Calls, SleepSafe,
           NEW c \in Cpus, Loop(c) \/ Environment(c)
    PROVE  SleepSafe'
<1> SUFFICES ASSUME NEW d \in Cpus, pc'[d] \in {"steal", "halted"}
             PROVE  /\ HasReady(rq'[d]) => Announced(d)' \/ (pc'[d] = "halted" /\ d \in handling')
                    /\ d \in late' => d \notin masked'
  BY Zenon DEF SleepSafe
<1>1. CASE \/ Pop(c) \/ Take(c) \/ TakeNothing(c) \/ PollPending(c) \/ PollReady(c)
           \/ Spawn(c) \/ SpawnPush(c) \/ InsertStolen(c) \/ PushStolen(c)
  <2>1. UNCHANGED <<ipi, sending, masked, handling, irqSends, late>>
    BY <1>1, Zenon DEF Pop, Take, TakeNothing, PollPending, PollReady, Spawn, SpawnPush,
                       InsertStolen, PushStolen, interrupts
  <2>2. pc'[c] \notin {"steal", "halted"}
    <3>1. CASE Spawn(c) \/ SpawnPush(c)
      BY <3>1, Zenon DEF Spawn, SpawnPush, Calls
    <3>2. CASE Pop(c) \/ Take(c) \/ TakeNothing(c)
      BY <3>2 DEF Pop, Take, TakeNothing, Goto, TypeOK
    <3>3. CASE PollPending(c) \/ PollReady(c)
      BY <3>3 DEF PollPending, PollReady, Goto, TypeOK
    <3>4. CASE InsertStolen(c) \/ PushStolen(c)
      BY <3>4 DEF InsertStolen, PushStolen, Goto, TypeOK
    <3> QED BY <1>1, <3>1, <3>2, <3>3, <3>4, Zenon
  <2>3. d # c
    BY <2>2, Zenon
  <2>4. pc'[d] = pc[d]
    BY <1>1, <2>3, Zenon DEF Pop, Take, TakeNothing, PollPending, PollReady, Spawn, SpawnPush,
                       InsertStolen, PushStolen, Goto, TypeOK
  <2>5. rq'[d] = rq[d]
    BY <1>1, <2>3, Zenon DEF Pop, Take, TakeNothing, PollPending, PollReady, Spawn, SpawnPush,
                       InsertStolen, PushStolen, TypeOK
  <2>6. Announced(d) => Announced(d)'
    BY <2>1, Zenon DEF Announced
  <2> QED BY <2>1, <2>4, <2>5, <2>6, SleepKept, Zenon
<1>2. CASE Fire(c) \/ IrqFire(c)
  <2>1. UNCHANGED <<pc, ipi, masked>>
    BY <1>2, Zenon DEF Fire, IrqFire, CallDone, interrupts
  <2>2. PICK w \in wakers :
          /\ Wake(w)
          /\ \/ Fire(c) /\ sending' = [sending EXCEPT ![c] = {w[2]} \ {c}]
             \/ /\ IrqFire(c) /\ irqSends' = [irqSends EXCEPT ![c] = {w[2]} \ {c}]
                /\ late' = IF pc[c] = "steal" /\ w[2] = c THEN late \cup {c} ELSE late
    BY <1>2, Zenon DEF Fire, IrqFire
  <2>3. w[2] \in Cpus /\ \A e \in Cpus \ {w[2]} : rq'[e] = rq[e]
    BY <2>2, WakeEffect, Zenon
  <2>4. \A e \in Cpus : sending[e] \cup irqSends[e] \subseteq sending'[e] \cup irqSends'[e]
    <3>1. CASE Fire(c)
      BY <3>1 DEF Fire, CallDone, interrupts, TypeOK
    <3>2. CASE IrqFire(c)
      BY <3>2 DEF IrqFire, TypeOK
    <3> QED BY <1>2, <3>1, <3>2, Zenon
  <2>5. late \subseteq late' /\ handling \subseteq handling'
    BY <1>2, Zenon DEF Fire, IrqFire, interrupts
  <2>6. Announced(d) => Announced(d)'
    BY <2>1, <2>4, <2>5, Zenon DEF Announced
  <2>7. d \in late' => d \notin masked'
    <3>1. CASE Fire(c)
      BY <2>1, <3>1, Zenon DEF Fire, interrupts, SleepSafe
    <3>2. CASE IrqFire(c)
      BY <2>1, <3>2, Zenon DEF IrqFire, SleepSafe
    <3> QED BY <1>2, <3>1, <3>2, Zenon
  <2>8. CASE d # w[2]
    BY <2>1, <2>3, <2>5, <2>6, <2>7, <2>8, Zenon DEF SleepSafe
  <2>9. CASE d = w[2] /\ d # c
    <3>1. d \in sending'[c] \cup irqSends'[c]
      BY <2>2, <2>9 DEF TypeOK
    <3> QED BY <2>7, <3>1, Zenon DEF Announced
  <2>10. CASE d = w[2] /\ d = c
    <3>1. CASE Fire(c)
      BY <2>1, <2>10, <3>1, Zenon DEF Fire
    <3>2. CASE IrqFire(c) /\ pc[c] = "halted"
      BY <2>1, <2>7, <2>10, <3>2, Zenon DEF IrqFire
    <3>3. CASE ~Fire(c) /\ pc[c] = "steal"
      BY <2>2, <2>7, <2>10, <3>3, Zenon DEF Announced
    <3> QED BY <1>2, <2>1, <2>10, <3>1, <3>2, <3>3, Zenon
  <2> QED BY <2>8, <2>9, <2>10, Zenon
<1>3. CASE SendIpi(c) \/ IrqSendIpi(c)
  <2>1. UNCHANGED <<pc, rq, masked, handling, late>>
    BY <1>3, Zenon DEF SendIpi, IrqSendIpi, interrupts
  <2>2. Announced(d) => Announced(d)'
    <3>1. CASE SendIpi(c)
      BY <3>1 DEF SendIpi, Announced, interrupts, TypeOK
    <3>2. CASE IrqSendIpi(c)
      BY <3>2 DEF IrqSendIpi, Announced, TypeOK
    <3> QED BY <1>3, <3>1, <3>2, Zenon
  <2> QED BY <2>1, <2>2, SleepKept, Zenon
<1>4. CASE Check(c)
  <2>1. UNCHANGED <<rq, ipi, sending, masked, handling, irqSends>> /\ late' = late \ {c}
    BY <1>4, Zenon DEF Check
  <2>2. CASE d = c
    BY <1>4, <2>1, <2>2, Zenon DEF Check, Goto, TypeOK
  <2>3. CASE d # c
    <3>1. pc'[d] = pc[d]
      BY <1>4, <2>3, Zenon DEF Check, Goto, TypeOK
    <3>2. Announced(d) => Announced(d)'
      BY <2>1, <2>3, Zenon DEF Announced
    <3> QED BY <2>1, <3>1, <3>2, SleepKept, Zenon
  <2> QED BY <2>2, <2>3, Zenon
<1>5. CASE Halt(c)
  <2>1. UNCHANGED <<rq, ipi, sending, masked, handling, irqSends, late>>
    BY <1>5, Zenon DEF Halt, interrupts
  <2>2. Announced(d) => Announced(d)'
    BY <2>1, Zenon DEF Announced
  <2>3. CASE d = c
    BY <1>5, <2>1, <2>2, <2>3, Zenon DEF Halt, SleepSafe
  <2>4. CASE d # c
    <3>1. pc'[d] = pc[d]
      BY <1>5, <2>4, Zenon DEF Halt, Goto, TypeOK
    <3> QED BY <2>1, <2>2, <3>1, SleepKept, Zenon
  <2> QED BY <2>3, <2>4, Zenon
<1>6. CASE Steal(c)
  <2>1. PICK v \in Cpus \ {c} :
          CanSteal(rq[v]) /\ rq' = [rq EXCEPT ![v] = AfterSteal(@)]
    BY <1>6, Zenon DEF Steal
  <2>2. HasReady(rq'[v]) => HasReady(rq[v])
    <3>1. rq[v] \in ReadyQueuesOf(Tasks) /\ rq'[v] = AfterSteal(rq[v])
      BY <2>1, Zenon DEF TypeOK
    <3>2. rq'[v] \in ReadyQueuesOf(Tasks) /\ \A u : Has(rq'[v], u) => Has(rq[v], u)
      BY <2>1, <3>1, StealHas, SMTT(30)
    <3> QED BY <3>1, <3>2, ReadyHas, Zenon
  <2>3. HasReady(rq'[d]) => HasReady(rq[d])
    BY <2>1, <2>2, Zenon DEF TypeOK
  <2>4. UNCHANGED <<ipi, sending, masked, handling, irqSends, late>>
    BY <1>6, Zenon DEF Steal, interrupts
  <2>5. pc'[d] = pc[d]
    BY <1>6, ZenonT(30) DEF Steal, Goto, TypeOK
  <2>6. Announced(d) => Announced(d)'
    BY <2>4, Zenon DEF Announced
  <2> QED BY <2>3, <2>4, <2>5, <2>6, SleepKept, Zenon
<1>7. CASE UserCode(c)
  <2>1. UNCHANGED <<pc, rq, ipi, sending, handling, irqSends, late>> /\ pc[c] = "poll"
    BY <1>7, Zenon DEF UserCode
  <2>2. d # c
    BY <2>1, Zenon
  <2>3. d \in masked' => d \in masked
    BY <1>7, <2>2, Zenon DEF UserCode
  <2>4. Announced(d) => Announced(d)'
    BY <2>1, Zenon DEF Announced
  <2> QED BY <2>1, <2>3, <2>4, SleepKept, Zenon
<1>8. CASE IpiTaken(c)
  <2>1. /\ UNCHANGED <<pc, rq, sending, masked, handling, irqSends>>
        /\ pc[c] # "halted" /\ c \notin masked /\ ipi' = ipi \ {c}
        /\ late' = IF pc[c] = "steal" THEN late \cup {c} ELSE late
    BY <1>8, Zenon DEF IpiTaken
  <2>2. CASE d = c
    BY <2>1, <2>2, Zenon DEF Announced
  <2>3. CASE d # c
    <3>1. Announced(d) => Announced(d)'
      BY <2>1, <2>3, Zenon DEF Announced
    <3>2. d \in late' => d \in late
      BY <2>1, <2>3, Zenon
    <3> QED BY <2>1, <3>1, <3>2, SleepKept, Zenon
  <2> QED BY <2>2, <2>3, Zenon
<1>9. CASE WakeFromHalt(c) \/ Tick(c) \/ InterruptReturn(c)
  <2>1. UNCHANGED <<rq, sending, irqSends>> /\ ipi \ {c} \subseteq ipi'
    BY <1>9, Zenon DEF WakeFromHalt, Tick, InterruptReturn
  <2>2. CASE d = c
    <3>1. UNCHANGED <<pc, ipi, masked, late>> /\ pc[c] # "halted"
      BY <1>9, <2>2, Zenon DEF WakeFromHalt, Tick, InterruptReturn, Awake, Goto, TypeOK
    <3>2. Announced(d) => Announced(d)'
      BY <2>1, <3>1, Zenon DEF Announced
    <3> QED BY <2>1, <2>2, <3>1, <3>2, Zenon DEF SleepSafe
  <2>3. CASE d # c
    <3>1. pc'[d] = pc[d]
      BY <1>9, <2>3, Zenon DEF WakeFromHalt, Tick, InterruptReturn, Awake, Goto, TypeOK
    <3>2. /\ d \in masked' <=> d \in masked
          /\ d \in late' <=> d \in late
          /\ d \in handling => d \in handling'
      BY <1>9, <2>3, Zenon DEF WakeFromHalt, Tick, InterruptReturn, Awake
    <3>3. Announced(d) => Announced(d)'
      BY <2>1, <2>3, <3>2, Zenon DEF Announced
    <3> QED BY <2>1, <3>1, <3>2, <3>3, SleepKept, Zenon
  <2> QED BY <2>2, <2>3, Zenon
<1> QED BY <1>1, <1>2, <1>3, <1>4, <1>5, <1>6, <1>7, <1>8, <1>9, Zenon DEF Loop, Environment

\* Every step keeps a wake-up with its task until the next poll.
LEMMA WakeStep ==
    ASSUME IInv, NEW c \in Cpus, Loop(c) \/ Environment(c),
           NEW t \in Tasks, Expected(t)'
    PROVE  \E d \in Cpus : At(t, d)' /\ Coming(t, d)'
<1> USE DEF IInv, TypeOK, Goto, PutDown
<1>1. CASE Pop(c)
  <2>1. Expected(t)
    BY <1>1 DEF Pop, Expected, At, Holding
  <2>2. PICK d \in Cpus : At(t, d) /\ Coming(t, d)
    BY <2>1, Zenon DEF WakeSafe
  <2>3. At(t, d)'
    BY <1>1, <2>2, Zenon DEF Pop, At, Holding
  <2>4. CASE d # c
    BY <1>1, <2>2, <2>3, <2>4 DEF Pop, Coming
  <2>5. CASE d = c
    <3>1. Has(rq[c], t)
      BY <1>1, <2>2, <2>5, Zenon DEF Pop, Coming
    <3>2. HasReady(rq[c])
      BY <3>1, ReadyHas, ZenonT(30)
    <3>3. Has(rq'[c], t) \/ t = PopId(rq[c], Limit)
      BY <1>1, <3>1, <3>2, PopHas, ExecutorAssumption DEF Pop
    <3> QED BY <1>1, <2>3, <2>5, <3>2, <3>3, Zenon DEF Pop, Coming
  <2> QED BY <2>4, <2>5, Zenon
<1>2. CASE Take(c)
  <2>1. t # cur[c]
    BY <1>2 DEF Take, Expected, At, Holding, OneOwner
  <2>2. Expected(t)
    BY <1>2, <2>1, Zenon DEF Take, Expected, At, Holding
  <2>3. PICK d \in Cpus : At(t, d) /\ Coming(t, d)
    BY <2>2, Zenon DEF WakeSafe
  <2> QED BY <1>2, <2>1, <2>3, Zenon DEF Take, At, Holding, Coming
<1>3. CASE TakeNothing(c)
  <2>1. Expected(t)
    BY <1>3, Zenon DEF TakeNothing, Expected, At, Holding
  <2>2. PICK d \in Cpus : At(t, d) /\ Coming(t, d)
    BY <2>1, Zenon DEF WakeSafe
  <2> QED BY <1>3, <2>2 DEF TakeNothing, At, Holding, Coming
<1>4. CASE PollPending(c)
  <2>1. Expected(t)
    BY <1>4 DEF PollPending, Expected, At, Holding, InHand
  <2>2. PICK d \in Cpus : At(t, d) /\ Coming(t, d)
    BY <2>1, Zenon DEF WakeSafe
  <2> QED BY <1>4, <2>2 DEF PollPending, At, Holding, Coming
<1>5. CASE PollReady(c)
  <2>1. t # cur[c]
    BY <1>5, Zenon DEF PollReady, Expected, At, Holding, OneOwner
  <2>2. Expected(t)
    BY <1>5, <2>1, Zenon DEF PollReady, Expected, At, Holding
  <2>3. PICK d \in Cpus : At(t, d) /\ Coming(t, d)
    BY <2>2, Zenon DEF WakeSafe
  <2> QED BY <1>5, <2>1, <2>3, Zenon DEF PollReady, At, Holding, Coming
<1>6. CASE SendIpi(c)
  <2>1. Expected(t)
    BY <1>6, Zenon DEF SendIpi, Expected, At, Holding
  <2>2. PICK d \in Cpus : At(t, d) /\ Coming(t, d)
    BY <2>1, Zenon DEF WakeSafe
  <2> QED BY <1>6, <2>2, Zenon DEF SendIpi, At, Holding, Coming
<1>7. CASE Spawn(c)
  <2>1. PICK u \in unborn :
          /\ tasks' = [tasks EXCEPT ![c] = @ \cup {u}]
          /\ lastCpu' = [lastCpu EXCEPT ![u] = c]
    BY <1>7, Zenon DEF Spawn
  <2>2. \A d \in Cpus : ~At(u, d)
    BY Zenon DEF BornOnly, Born, At, Holding
  <2>3. ~Expected(u)
    BY <2>2, Zenon DEF WakeSafe
  <2>4. t # u
    BY <1>7, <2>1, <2>2, <2>3 DEF Spawn, Expected, At, Holding
  <2>5. Expected(t)
    BY <1>7, <2>1, <2>4 DEF Spawn, Expected, At, Holding
  <2>6. PICK d \in Cpus : At(t, d) /\ Coming(t, d)
    BY <2>5, Zenon DEF WakeSafe
  <2> QED BY <1>7, <2>1, <2>6, Zenon DEF Spawn, At, Holding, Coming
<1>8. CASE SpawnPush(c)
  <2>1. PICK s \in spawned[c] : rq' = [rq EXCEPT ![c] = Push(@, PriorityOf[s], s)]
                               /\ owed' = owed \cup {s}
    BY <1>8, Zenon DEF SpawnPush
  <2>2. s \in Tasks /\ s \in tasks[c] /\ pc[c] = "poll"
    BY Zenon DEF Calls
  <2>3. rq[c] \in ReadyQueuesOf(Tasks) /\ rq'[c] = Push(rq[c], PriorityOf[s], s)
    BY <2>1, Zenon
  <2>4. \A u : Has(rq'[c], u) <=> Has(rq[c], u) \/ u = s
    <3> HIDE DEF IInv, TypeOK
    <3>1. \A u : Has(Push(rq[c], PriorityOf[s], s), u) <=> Has(rq[c], u) \/ u = s
      BY <2>2, <2>3, TaskPush, Zenon
    <3> QED BY <2>3, <3>1, Zenon
  <2>5. CASE t = s
    BY <1>8, <2>2, <2>4, <2>5, Zenon DEF SpawnPush, At, Coming
  <2>6. CASE t # s
    <3>1. Expected(t)
      BY <1>8, <2>1, <2>6, Zenon DEF SpawnPush, Expected, At, Holding
    <3>2. PICK d \in Cpus : At(t, d) /\ Coming(t, d)
      BY <3>1, Zenon DEF WakeSafe
    <3>3. Has(rq[d], t) => Has(rq'[d], t)
      BY <2>1, <2>4, Zenon
    <3> QED BY <1>8, <3>2, <3>3, Zenon DEF SpawnPush, At, Holding, Coming
  <2> QED BY <2>5, <2>6, Zenon
<1>9. CASE Fire(c) \/ IrqFire(c)
  <2>1. PICK w \in wakers :
          /\ w[1] \in Tasks /\ w[2] \in Cpus
          /\ owed' = IF w[1] \notin finished /\ lastCpu[w[1]] = w[2]
                       THEN owed \cup {w[1]} ELSE owed
          /\ \A d \in Cpus \ {w[2]} : rq'[d] = rq[d]
          /\ \A u : Has(rq'[w[2]], u) <=> Has(rq[w[2]], u) \/ u = w[1]
    BY <1>9, FireEffect, Zenon
  <2>2. UNCHANGED <<tasks, pc, cur, finished, lastCpu>>
    BY <1>9, FireEffect, Zenon
  <2>5. \A d \in Cpus : At(t, d) /\ Coming(t, d) => At(t, d)' /\ Coming(t, d)'
    <3>1. \A d \in Cpus : Has(rq[d], t) => Has(rq'[d], t)
      BY <2>1, Zenon
    <3> QED BY <2>2, <3>1, Zenon DEF At, Holding, Coming
  <2>6. CASE Expected(t)
    BY <2>5, <2>6, Zenon DEF WakeSafe
  <2>7. CASE ~Expected(t)
    <3>1. t = w[1] /\ t \notin finished /\ lastCpu[t] = w[2]
      BY <2>1, <2>2, <2>7, ZenonT(30) DEF Expected, At, Holding
    <3>2. t \notin unborn
      BY <3>1, Zenon DEF BornOnly, Born
    <3>3. PICK d \in Cpus : At(t, d)
      BY <3>1, <3>2, Zenon DEF NoTaskLost
    <3>4. d = w[2]
      BY <2>7, <3>1, <3>3, Zenon DEF Expected
    <3>5. Has(rq'[d], t)
      BY <2>1, <3>1, <3>4, Zenon
    <3> QED BY <2>2, <3>3, <3>5, ZenonT(30) DEF At, Holding, Coming
  <2> QED BY <2>6, <2>7, Zenon
<1>10. CASE Check(c) \/ Halt(c)
  <2>1. Expected(t)
    BY <1>10, ZenonT(30) DEF Check, Halt, Expected, At, Holding
  <2>2. PICK d \in Cpus : At(t, d) /\ Coming(t, d)
    BY <2>1, Zenon DEF WakeSafe
  <2> QED BY <1>10, <2>2, Zenon DEF Check, Halt, At, Holding, Coming
<1>11. CASE Steal(c)
  <2>1. PICK v \in Cpus \ {c} :
          /\ CanSteal(rq[v]) /\ StealId(rq[v]) \in tasks[v]
          /\ rq' = [rq EXCEPT ![v] = AfterSteal(@)]
          /\ tasks' = [tasks EXCEPT ![v] = @ \ {StealId(rq[v])}]
          /\ cur' = [cur EXCEPT ![c] = StealId(rq[v])]
    BY <1>11, Zenon DEF Steal
  <2>2. /\ StealId(rq[v]) \in Tasks /\ Has(rq[v], StealId(rq[v]))
        /\ \A u : Has(rq'[v], u) => Has(rq[v], u)
        /\ \A u : Has(rq[v], u) => Has(rq'[v], u) \/ u = StealId(rq[v])
    <3>1. rq[v] \in ReadyQueuesOf(Tasks) /\ rq'[v] = AfterSteal(rq[v])
      BY <2>1, Zenon
    <3> QED BY <2>1, <3>1, StealHas
  <2>3. \A d \in Cpus, u \in Tasks : Has(rq'[d], u) => Has(rq[d], u)
    BY <2>1, <2>2, ZenonT(30)
  <2>4. CASE t = StealId(rq[v])
    BY <1>11, <2>1, <2>4 DEF Steal, At, Holding, Coming
  <2>5. CASE t # StealId(rq[v])
    <3>1. Expected(t)
      BY <1>11, <2>1, <2>5 DEF Steal, Expected, At, Holding
    <3>2. PICK d \in Cpus : At(t, d) /\ Coming(t, d)
      BY <3>1, Zenon DEF WakeSafe
    <3>3. Has(rq[d], t) => Has(rq'[d], t)
      BY <2>1, <2>2, <2>5, ZenonT(30)
    <3>4. At(t, d)'
      BY <1>11, <2>1, <2>5, <3>2, SMTT(30) DEF Steal, At, Holding
    <3>5. Coming(t, d)'
      BY <1>11, <2>1, <3>2, <3>3 DEF Steal, Coming
    <3> QED BY <3>4, <3>5, ZenonT(30)
  <2> QED BY <2>4, <2>5, Zenon
<1>12. CASE InsertStolen(c)
  <2>1. Expected(t)
    BY <1>12, Zenon DEF InsertStolen, Expected, At, Holding
  <2>2. PICK d \in Cpus : At(t, d) /\ Coming(t, d)
    BY <2>1, Zenon DEF WakeSafe
  <2> QED BY <1>12, <2>2, Zenon DEF InsertStolen, At, Holding, Coming
<1>13. CASE PushStolen(c)
  <2>1. cur[c] \in Tasks /\ pc[c] = "push"
    BY <1>13, Zenon DEF PushStolen, InHand
  <2>2. rq[c] \in ReadyQueuesOf(Tasks) /\ rq'[c] = Push(rq[c], PriorityOf[cur[c]], cur[c])
    BY <1>13, Zenon DEF PushStolen
  <2>3. \A u : Has(rq'[c], u) <=> Has(rq[c], u) \/ u = cur[c]
    <3> HIDE DEF IInv, TypeOK
    <3>1. \A u : Has(Push(rq[c], PriorityOf[cur[c]], cur[c]), u) <=> Has(rq[c], u) \/ u = cur[c]
      BY <2>1, <2>2, TaskPush, Zenon
    <3> QED BY <2>2, <3>1, Zenon
  <2>4. Expected(t)
    BY <1>13, Zenon DEF PushStolen, Expected, At, Holding
  <2>5. PICK d \in Cpus : At(t, d) /\ Coming(t, d)
    BY <2>4, Zenon DEF WakeSafe
  <2>6. At(t, d)'
    BY <1>13, <2>5, Zenon DEF PushStolen, At, Holding
  <2>7. CASE d = c
    BY <2>1, <2>3, <2>5, <2>6, <2>7, Zenon DEF Coming
  <2>8. CASE d # c
    BY <1>13, <2>5, <2>6, <2>8, Zenon DEF PushStolen, Coming
  <2> QED BY <2>7, <2>8, Zenon
<1>14. CASE Quiet(c)
  <2>1. /\ UNCHANGED <<tasks, rq, cur, lastCpu, owed>>
        /\ \A d \in Cpus : pc'[d] = pc[d] \/ (pc[d] = "halted" /\ pc'[d] = "pop")
    BY <1>14, QuietEffect, Zenon
  <2>2. Expected(t)
    BY <2>1, Zenon DEF Expected, At, Holding
  <2>3. PICK d \in Cpus : At(t, d) /\ Coming(t, d)
    BY <2>2, Zenon DEF WakeSafe
  <2> QED BY <2>1, <2>3, Zenon DEF At, Holding, Coming
<1> QED BY <1>1, <1>2, <1>3, <1>4, <1>5, <1>6, <1>7, <1>8, <1>9, <1>10,
           <1>11, <1>12, <1>13, <1>14, Zenon DEF Loop, Environment, Quiet

\* Every step keeps the ids in their tiers.
LEMMA SortedStep ==
    ASSUME TypeOK, InHand, Pinned, NEW c \in Cpus, Loop(c) \/ Environment(c), NEW d \in Cpus
    PROVE  Sorted(rq'[d])
<1>1. rq \in [Cpus -> ReadyQueuesOf(Tasks)] /\ \A e \in Cpus : Sorted(rq[e])
  BY Zenon DEF TypeOK, Pinned
<1>2. CASE Pop(c)
  <2>1. Sorted(AfterPop(rq[c], Limit))
    BY <1>1, PopSorted, ExecutorAssumption, Zenon
  <2> QED BY <1>1, <1>2, <2>1, Zenon DEF Pop
<1>3. CASE SpawnPush(c)
  <2>1. PICK t \in spawned[c] : rq' = [rq EXCEPT ![c] = Push(@, PriorityOf[t], t)]
    BY <1>3, Zenon DEF SpawnPush
  <2>2. t \in Tasks
    BY Zenon DEF TypeOK
  <2>3. Sorted(Push(rq[c], PriorityOf[t], t))
    BY <1>1, <2>2, PushSorted, Zenon
  <2> QED BY <1>1, <2>1, <2>3, Zenon
<1>4. CASE Fire(c) \/ IrqFire(c)
  <2>1. PICK w \in wakers : rq' = [rq EXCEPT ![w[2]] = Push(@, PriorityOf[w[1]], w[1])]
    BY <1>4, Zenon DEF Fire, IrqFire, Wake
  <2>2. w[1] \in Tasks /\ w[2] \in Cpus
    BY Zenon DEF TypeOK
  <2>3. Sorted(Push(rq[w[2]], PriorityOf[w[1]], w[1]))
    BY <1>1, <2>2, PushSorted, Zenon
  <2> QED BY <1>1, <2>1, <2>2, <2>3, Zenon
<1>5. CASE Steal(c)
  <2>1. PICK v \in Cpus : CanSteal(rq[v]) /\ rq' = [rq EXCEPT ![v] = AfterSteal(@)]
    BY <1>5, Zenon DEF Steal
  <2>2. Sorted(AfterSteal(rq[v]))
    BY <1>1, <2>1, StealSorted, Zenon
  <2> QED BY <1>1, <2>1, <2>2, Zenon
<1>6. CASE PushStolen(c)
  <2>1. rq' = [rq EXCEPT ![c] = Push(@, PriorityOf[cur[c]], cur[c])] /\ cur[c] \in Tasks
    BY <1>6, Zenon DEF PushStolen, InHand
  <2>2. Sorted(Push(rq[c], PriorityOf[cur[c]], cur[c]))
    BY <1>1, <2>1, PushSorted, Zenon
  <2> QED BY <1>1, <2>1, <2>2, Zenon
<1>7. CASE rq' = rq
  BY <1>1, <1>7, Zenon
<1> QED BY <1>2, <1>3, <1>4, <1>5, <1>6, <1>7, Zenon
        DEF Loop, Environment, Take, TakeNothing, PollPending, PollReady, Spawn,
            SendIpi, Check, Halt, InsertStolen, WakeFromHalt, Tick, UserCode, IpiTaken,
            IrqSendIpi, InterruptReturn

\* Every step keeps an unfinished Critical task on the CPU its wakers name.
LEMMA PinnedStep ==
    ASSUME TypeOK, InHand, Pinned, NEW c \in Cpus, Loop(c) \/ Environment(c)
    PROVE  CriticalPinned'
<1> USE DEF TypeOK, Pinned, CriticalPinned, At, Holding, Goto, PutDown
<1>1. CASE Pop(c)
  BY <1>1, Zenon DEF Pop
<1>2. CASE Take(c)
  <2>1. /\ wakers' = wakers \cup {<<cur[c], c>>}
        /\ \A w \in wakers : w[1] \in Tasks /\ w[2] \in Cpus
    BY <1>2, Zenon DEF Take
  <2>2. ASSUME NEW t \in Tasks, NEW d \in Cpus, At(t, d) PROVE At(t, d)'
    BY <1>2, <2>2, Zenon DEF Take
  <2>3. ASSUME NEW t, t = cur[c] PROVE At(t, c)'
    BY <1>2, <2>3, Zenon DEF Take
  <2>4. finished' = finished
    BY <1>2, Zenon DEF Take
  <2> HIDE DEF At
  <2>5. ASSUME NEW w \in wakers', PriorityOf[w[1]] = "critical", w[1] \notin finished
        PROVE  At(w[1], w[2])'
    <3>1. CASE w \in wakers
      BY <2>1, <2>2, <2>5, <3>1, Zenon
    <3>2. CASE w = <<cur[c], c>>
      <4>1. w[1] = cur[c] /\ w[2] = c
        BY <3>2
      <4> QED BY <2>3, <4>1, Zenon
    <3> QED BY <2>1, <3>1, <3>2, Zenon
  <2> QED BY <2>4, <2>5, Zenon
<1>3. CASE TakeNothing(c)
  BY <1>3, ZenonT(30) DEF TakeNothing
<1>4. CASE PollPending(c)
  BY <1>4, SMTT(30) DEF PollPending
<1>5. CASE PollReady(c)
  BY <1>5 DEF PollReady
<1>7. CASE Spawn(c)
  BY <1>7 DEF Spawn
<1>8. CASE SpawnPush(c)
  BY <1>8, Zenon DEF SpawnPush
<1>9. CASE Fire(c) \/ IrqFire(c)
  <2>1. UNCHANGED <<tasks, pc, cur, wakers, finished>>
    BY <1>9, FireEffect, Zenon
  <2> QED BY <2>1, Zenon
<1>10. CASE SendIpi(c)
  BY <1>10, ZenonT(30) DEF SendIpi
<1>11. CASE Check(c) \/ Halt(c)
  BY <1>11, SMTT(30) DEF Check, Halt
<1>12. CASE Steal(c)
  <2>1. PICK v \in Cpus \ {c} :
          /\ CanSteal(rq[v]) /\ StealId(rq[v]) \in tasks[v]
          /\ tasks' = [tasks EXCEPT ![v] = @ \ {StealId(rq[v])}]
          /\ cur' = [cur EXCEPT ![c] = StealId(rq[v])]
    BY <1>12, Zenon DEF Steal
  <2>2. PriorityOf[StealId(rq[v])] # "critical"
    BY <2>1, StealSorted, Zenon
  <2> QED BY <1>12, <2>1, <2>2 DEF Steal
<1>13. CASE InsertStolen(c)
  BY <1>13, Zenon DEF InsertStolen
<1>14. CASE PushStolen(c)
  BY <1>14, ZenonT(30) DEF PushStolen
<1>15. CASE Quiet(c)
  <2>1. /\ UNCHANGED <<tasks, rq, cur, spawned, wakers, sending, unborn, finished, lastCpu, owed>>
        /\ \A d \in Cpus : pc'[d] = pc[d] \/ (pc[d] = "halted" /\ pc'[d] = "pop")
    BY <1>15, QuietEffect, Zenon
  <2> QED BY <2>1, Zenon
<1> QED BY <1>1, <1>2, <1>3, <1>4, <1>5, <1>7, <1>8, <1>9, <1>10,
           <1>11, <1>12, <1>13, <1>14, <1>15, ZenonT(30) DEF Loop, Environment, Quiet

\* The inductive invariant holds in every reachable state.
LEMMA Inductive == Spec => []IInv
<1>1. IInv /\ [Next]_vars => IInv'
  <2> SUFFICES ASSUME IInv, [Next]_vars PROVE IInv'
    BY Zenon
  <2>1. CASE UNCHANGED vars
    <3> USE <2>1 DEF vars, interrupts, IInv
    <3>1. TypeOK' /\ InHand'
      BY Zenon DEF TypeOK, InHand
    <3>2. OneOwner' /\ NoTaskLost'
      BY Zenon DEF OneOwner, NoTaskLost, At, Holding
    <3>3. BornOnly' /\ Calls'
      BY Zenon DEF BornOnly, Born, Calls
    <3>4. SleepSafe'
      BY Zenon DEF SleepSafe, Announced, interrupts
    <3>5. WakeSafe'
      BY Zenon DEF WakeSafe, Expected, Coming, At, Holding
    <3> QED BY <3>1, <3>2, <3>3, <3>4, <3>5, Zenon
  <2>2. ASSUME NEW c \in Cpus, Loop(c) \/ Environment(c) PROVE IInv'
    <3>1. TypeOK' /\ InHand' /\ OneOwner' /\ NoTaskLost'
      BY <2>2, TypeStep, InHandStep, OwnerStep, LostStep, Zenon DEF IInv
    <3>2. BornOnly' /\ Calls' /\ SleepSafe'
      BY <2>2, BornStep, CallsStep, SleepStep, Zenon DEF IInv
    <3>3. WakeSafe'
      BY <2>2, WakeStep, Zenon DEF WakeSafe
    <3> QED BY <3>1, <3>2, <3>3, Zenon DEF IInv
  <2> QED BY <2>1, <2>2, Zenon DEF Next
<1> QED BY InitHolds, <1>1, PTL DEF Spec

-----------------------------------------------------------------------------

\* Type correctness, and the starvation counter never passes its limit.
THEOREM TypeCorrect == Spec => []TypeOK
<1>1. IInv => TypeOK
  BY Zenon DEF IInv
<1> QED BY Inductive, <1>1, PTL

\* However polls, duplicate wake-ups and steals interleave, one future is never
\* owned by two CPUs.
THEOREM OwnedOnce == Spec => []OneOwner
<1>1. IInv => OneOwner
  BY Zenon DEF IInv
<1> QED BY Inductive, <1>1, PTL

\* No poll, steal or put-back drops the future of a task that has not finished.
THEOREM NeverLost == Spec => []NoTaskLost
<1>1. IInv => NoTaskLost
  BY Zenon DEF IInv
<1> QED BY Inductive, <1>1, PTL

\* A halted CPU with queued work has an interrupt pending or about to be sent,
\* unless it came to hlt with interrupts enabled and took it on the way.
THEOREM NeverSleepsOnWork == Spec => []NoSleepOnWork
<1>1. IInv => NoSleepOnWork
  BY Zenon DEF IInv, SleepSafe, Announced, Asleep, NoSleepOnWork
<1> QED BY Inductive, <1>1, PTL

\* A task woken through a waker of its last poll is on its way to a poll on the
\* CPU that owns it, whoever stole it meanwhile.
THEOREM WakeNeverLost == Spec => []WakeReaches
<1>1. IInv => WakeReaches
  BY Zenon DEF IInv, TypeOK, WakeSafe, Expected, Coming, WakeReaches
<1> QED BY Inductive, <1>1, PTL
\* A Critical task is never stolen: until it finishes, each of its wakers names
\* the CPU that owns it.
THEOREM CriticalStaysPut == Spec => []CriticalPinned
<1>1. Init => Pinned
  <2> SUFFICES ASSUME Init PROVE Pinned
    BY Zenon
  <2>1. Sorted(NewQueues)
    BY DEF Sorted, NewQueues
  <2>2. NewQueues \in ReadyQueuesOf(Tasks) /\ First \in Tasks
    BY NewQueuesEmpty, ExecutorAssumption, Zenon
  <2>3. Sorted(Push(NewQueues, PriorityOf[First], First))
    BY <2>1, <2>2, PushSorted, Zenon
  <2> QED BY <2>1, <2>3, Zenon DEF Init, Pinned, CriticalPinned
<1>2. IInv /\ Pinned /\ [Next]_vars => Pinned'
  <2> SUFFICES ASSUME IInv, Pinned, [Next]_vars PROVE Pinned'
    BY Zenon
  <2>1. CASE UNCHANGED vars
    BY <2>1, Zenon DEF vars, Pinned, CriticalPinned, At, Holding
  <2>2. ASSUME NEW c \in Cpus, Loop(c) \/ Environment(c) PROVE Pinned'
    <3>1. CriticalPinned'
      BY <2>2, PinnedStep, Zenon DEF IInv
    <3>2. \A d \in Cpus : Sorted(rq'[d])
      BY <2>2, SortedStep, Zenon DEF IInv
    <3> QED BY <3>1, <3>2, Zenon DEF Pinned, Sorted
  <2> QED BY <2>1, <2>2, Zenon DEF Next
<1>3. Pinned => CriticalPinned
  BY Zenon DEF Pinned
<1> QED BY Inductive, <1>1, <1>2, <1>3, PTL DEF Spec
=============================================================================
