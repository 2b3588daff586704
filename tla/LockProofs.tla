----------------------------- MODULE LockProofs -----------------------------
(***************************************************************************)
(* Safety of the mutex and of the other primitives of Locks for any tasks    *)
(* and CPUs, any numbers of permits and of calls, and any capacity of the    *)
(* wait queues.                                                              *)
(***************************************************************************)
EXTENDS Locks, FiniteSetTheorems, TLAPS

\* The program points at which a task relies on its registered waker: asleep,
\* and between a successful registration and the second compare-exchange.
Relies(t) == pc[t] \in {"asleep", "retry"}

\* NoForgottenWaiter is not inductive: the waker of a task about to sleep may
\* be consumed between the registration and the retry, so the claim must start
\* to hold at the registration.
WakerKept == \A t \in Tasks : Relies(t) => t \in ready \/ WakerOutstanding(t)

IInv == TypeOK /\ MutualExclusion /\ LockWordMatchesGuard /\ WakerKept

-----------------------------------------------------------------------------
(* The wait queue *)

\* swap_remove(0) loses no waker but the one it returns, and invents none.
LEMMA SwapRemoveKeeps ==
    ASSUME NEW S, NEW q \in Seq(S), q # << >>
    PROVE  /\ SwapRemoveFirst(q) \in Seq(S)
           /\ Len(SwapRemoveFirst(q)) = Len(q) - 1
           /\ \A w \in WakersIn(q) : w = q[1] \/ w \in WakersIn(SwapRemoveFirst(q))
           /\ WakersIn(SwapRemoveFirst(q)) \subseteq WakersIn(q)
<1> DEFINE r == SwapRemoveFirst(q)
<1>1. Len(q) \in Nat /\ Len(q) > 0
  OBVIOUS
<1>2. r \in [1 .. Len(q) - 1 -> S]
  BY <1>1 DEF SwapRemoveFirst
<1>3. r \in Seq(S) /\ Len(r) = Len(q) - 1
  BY <1>1, <1>2
<1>4. ASSUME NEW i \in 1 .. Len(q), i # 1
      PROVE  \E j \in 1 .. Len(r) : r[j] = q[i]
  <2>1. CASE i = Len(q)
    BY <1>1, <1>3, <1>4, <2>1 DEF SwapRemoveFirst
  <2>2. CASE i # Len(q)
    BY <1>1, <1>3, <1>4, <2>2 DEF SwapRemoveFirst
  <2> QED BY <2>1, <2>2, Zenon
<1>5. ASSUME NEW j \in 1 .. Len(r)
      PROVE  \E i \in 1 .. Len(q) : r[j] = q[i]
  BY <1>1, <1>3 DEF SwapRemoveFirst
<1> HIDE DEF r
<1>6. \A w \in WakersIn(q) : w = q[1] \/ w \in WakersIn(r)
  BY <1>1, <1>4 DEF WakersIn
<1>7. WakersIn(r) \subseteq WakersIn(q)
  BY <1>5, Zenon DEF WakersIn
<1> QED BY <1>3, <1>6, <1>7, Zenon DEF r

\* A registration keeps every waker, adds the caller's when there is room, and
\* never grows the array past its capacity.
LEMMA RegisterKeeps ==
    ASSUME NEW S, NEW q \in Seq(S), NEW w \in S, NEW cap \in Nat, Len(q) <= cap
    PROVE  /\ WQRegister(q, w, cap) \in Seq(S)
           /\ Len(WQRegister(q, w, cap)) <= cap
           /\ WakersIn(q) \subseteq WakersIn(WQRegister(q, w, cap))
           /\ WQHasRoom(q, cap) => w \in WakersIn(WQRegister(q, w, cap))
           /\ WakersIn(WQRegister(q, w, cap)) \subseteq WakersIn(q) \cup {w}
<1>1. CASE WQHasRoom(q, cap)
  <2> DEFINE r == Append(q, w)
  <2>1. r \in Seq(S) /\ Len(r) = Len(q) + 1 /\ r[Len(q) + 1] = w
    OBVIOUS
  <2>2. \A i \in 1 .. Len(q) : i \in 1 .. Len(r) /\ r[i] = q[i]
    OBVIOUS
  <2>3. Len(q) + 1 \in 1 .. Len(r)
    BY <2>1
  <2>5. \A i \in 1 .. Len(r) : r[i] = w \/ (i \in 1 .. Len(q) /\ r[i] = q[i])
    OBVIOUS
  <2>4. WQRegister(q, w, cap) = r
    BY <1>1, Zenon DEF WQRegister
  <2> HIDE DEF r
  <2> QED BY <1>1, <2>1, <2>2, <2>3, <2>4, <2>5 DEF WakersIn, WQHasRoom
<1>2. CASE ~WQHasRoom(q, cap)
  BY <1>2, Zenon DEF WQRegister
<1> QED BY <1>1, <1>2, Zenon

-----------------------------------------------------------------------------
(* The inductive invariant *)

\* The inductive invariant holds of a new mutex.
LEMMA InitHolds == Init => IInv
<1> SUFFICES ASSUME Init PROVE IInv
  BY Zenon
<1>1. TypeOK
  <2>1. waiters \in Seq(Tasks) /\ Len(waiters) <= MaxWaiters
    BY MutexAssumption DEF Init
  <2>2. pc \in [Tasks -> PCs] /\ hand \in [Tasks -> SUBSET Tasks]
    BY Zenon DEF Init, PCs
  <2>3. locked \in BOOLEAN /\ ready \in SUBSET Tasks
    BY Zenon DEF Init
  <2>4. left \in [Tasks -> 0 .. Rounds]
    BY MutexAssumption DEF Init
  <2> QED BY <2>1, <2>2, <2>3, <2>4, Zenon DEF TypeOK
<1>2. MutualExclusion /\ LockWordMatchesGuard /\ WakerKept
  BY Zenon DEF Init, MutualExclusion, LockWordMatchesGuard, WakerKept, Relies
<1> QED BY <1>1, <1>2, Zenon DEF IInv

\* Every step keeps the types and the capacity of the wait queue.
LEMMA TypeStep == TypeOK /\ [Next]_vars => TypeOK'
<1> SUFFICES ASSUME TypeOK, [Next]_vars PROVE TypeOK'
  BY Zenon
<1> USE MutexAssumption DEF TypeOK, PCs, Running, Goto
<1>1. CASE UNCHANGED vars
  BY <1>1, Zenon DEF vars
<1>2. CASE Terminated
  BY <1>2, Zenon DEF Terminated, vars
<1>3. ASSUME NEW t \in Tasks, Step(t) PROVE TypeOK'
  <2>1. CASE Lock(t) \/ LockSync(t)
    <3>1. left' \in [Tasks -> 0 .. Rounds]
      BY <2>1, SMTT(60) DEF Lock, LockSync
    <3> QED BY <2>1, <3>1, Zenon DEF Lock, LockSync
  <2>8. CASE TryLock(t)
    <3>1. left' \in [Tasks -> 0 .. Rounds]
      BY <2>8 DEF TryLock
    <3>2. CASE locked
      BY <2>8, <3>1, <3>2, Zenon DEF TryLock
    <3>3. CASE ~locked
      BY <2>8, <3>1, <3>3, Zenon DEF TryLock
    <3> QED BY <3>2, <3>3, Zenon
  <2>2. CASE SpinAcquire(t) \/ FastAcquire(t) \/ FastFail(t) \/ RetryAcquire(t)
    BY <2>2, Zenon DEF SpinAcquire, FastAcquire, FastFail, RetryAcquire
  <2>3. CASE Register(t)
    <3>1. waiters' \in Seq(Tasks) /\ Len(waiters') <= MaxWaiters
      BY <2>3, RegisterKeeps, Zenon DEF Register
    <3> QED BY <2>3, <3>1, Zenon DEF Register
  <2>4. CASE RetryFail(t) \/ Repoll(t) \/ IdlePoll(t) \/ DropFuture(t)
    BY <2>4, Zenon DEF RetryFail, Repoll, IdlePoll, DropFuture
  <2>5. CASE Unlock(t)
    BY <2>5, Zenon DEF Unlock
  <2>6. CASE WakeOne(t)
    <3>1. CASE waiters = << >>
      BY <2>6, <3>1, Zenon DEF WakeOne, WQAfterWakeOne
    <3>2. CASE waiters # << >>
      <4>1. waiters' \in Seq(Tasks) /\ Len(waiters') <= MaxWaiters
        BY <2>6, <3>2, SwapRemoveKeeps DEF WakeOne, WQAfterWakeOne
      <4>2. waiters[1] \in Tasks
        BY <3>2
      <4>3. hand' \in [Tasks -> SUBSET Tasks] /\ pc' \in [Tasks -> PCs]
        BY <2>6, <3>2, <4>2, SMTT(60) DEF WakeOne
      <4> QED BY <2>6, <3>2, <4>1, <4>3, Zenon DEF WakeOne
    <3> QED BY <3>1, <3>2, Zenon
  <2>7. CASE Wake(t)
    BY <2>7, Zenon DEF Wake
  <2> QED BY <1>3, <2>1, <2>2, <2>3, <2>4, <2>5, <2>6, <2>7, <2>8, ZenonT(30) DEF Step
<1> QED BY <1>1, <1>2, <1>3, Zenon DEF Next

\* Every step keeps the lock word and the guards in agreement.
LEMMA GuardStep ==
    TypeOK /\ MutualExclusion /\ LockWordMatchesGuard /\ [Next]_vars
        => MutualExclusion' /\ LockWordMatchesGuard'
<1> SUFFICES ASSUME TypeOK, MutualExclusion, LockWordMatchesGuard, [Next]_vars
             PROVE  MutualExclusion' /\ LockWordMatchesGuard'
  BY Zenon
<1> USE DEF TypeOK, MutualExclusion, LockWordMatchesGuard, Goto
<1>1. CASE UNCHANGED vars
  BY <1>1, Zenon DEF vars
<1>2. CASE Terminated
  BY <1>2, Zenon DEF Terminated, vars
<1>3. ASSUME NEW t \in Tasks, Step(t) PROVE MutualExclusion' /\ LockWordMatchesGuard'
  <2>1. CASE TryLock(t)
    BY <2>1, Zenon DEF TryLock
  <2>2. CASE SpinAcquire(t) \/ FastAcquire(t) \/ RetryAcquire(t)
    BY <2>2, Zenon DEF SpinAcquire, FastAcquire, RetryAcquire
  <2>3. CASE Unlock(t)
    BY <2>3, Zenon DEF Unlock
  <2>4. CASE Lock(t) \/ LockSync(t) \/ FastFail(t) \/ Register(t)
    BY <2>4 DEF Lock, LockSync, FastFail, Register
  <2>5. CASE RetryFail(t) \/ Repoll(t) \/ IdlePoll(t) \/ DropFuture(t)
    BY <2>5 DEF RetryFail, Repoll, IdlePoll, DropFuture
  <2>6. CASE WakeOne(t) \/ Wake(t)
    BY <2>6, SMTT(60) DEF WakeOne, Wake
  <2> QED BY <1>3, <2>1, <2>2, <2>3, <2>4, <2>5, <2>6, Zenon DEF Step
<1> QED BY <1>1, <1>2, <1>3, Zenon DEF Next

\* Every step keeps a waker for each pending lock future.
LEMMA WakerStep == TypeOK /\ WakerKept /\ [Next]_vars => WakerKept'
<1> SUFFICES ASSUME TypeOK, WakerKept, [Next]_vars, NEW u \in Tasks, Relies(u)'
             PROVE  (u \in ready \/ WakerOutstanding(u))'
  BY Zenon DEF WakerKept
<1> USE DEF WakerOutstanding, Goto
<1>1. CASE UNCHANGED vars
  BY <1>1, Zenon DEF vars, WakerKept, Relies, WakersIn
<1>2. CASE Terminated
  BY <1>2, Zenon DEF Terminated, vars, WakerKept, Relies, WakersIn
<1>3. ASSUME NEW t \in Tasks, Step(t) PROVE (u \in ready \/ WakerOutstanding(u))'
  <2>1. CASE Lock(t) \/ LockSync(t)
    <3>1. /\ pc[t] = "idle"
          /\ \E l \in {"fast", "spin"} : pc' = [pc EXCEPT ![t] = l]
          /\ UNCHANGED <<waiters, hand, ready>>
      BY <2>1, Zenon DEF Lock, LockSync
    <3> QED BY <3>1, SMTT(60) DEF TypeOK, WakerKept, Relies, WakersIn
  <2>7. CASE TryLock(t)
    <3>1. Relies(u) /\ (pc' = pc \/ pc' = [pc EXCEPT ![t] = "held"])
      BY <2>7, Zenon DEF TryLock, TypeOK, Relies
    <3>2. pc[t] = "idle" /\ UNCHANGED <<waiters, hand, ready>>
      BY <2>7, Zenon DEF TryLock
    <3> QED BY <3>1, <3>2, SMTT(60) DEF TypeOK, WakerKept, WakersIn
  <2>2. CASE SpinAcquire(t) \/ FastAcquire(t) \/ FastFail(t) \/ RetryAcquire(t)
    <3>1. /\ pc[t] \notin {"wake", "asleep"}
          /\ \E l \in {"held", "register"} : pc' = [pc EXCEPT ![t] = l]
          /\ UNCHANGED <<waiters, hand, ready>>
      BY <2>2, Zenon DEF SpinAcquire, FastAcquire, FastFail, RetryAcquire
    <3> QED BY <3>1, SMTT(60) DEF TypeOK, WakerKept, Relies, WakersIn
  <2>8. CASE RetryFail(t)
    <3>1. /\ pc[t] \in {"retry", "retryFull"}
          /\ pc' = [pc EXCEPT ![t] = "asleep"]
          /\ ready' = IF pc[t] = "retryFull" THEN ready \cup {t} ELSE ready
          /\ UNCHANGED <<waiters, hand>>
      BY <2>8, Zenon DEF RetryFail
    <3> QED BY <3>1, Zenon DEF TypeOK, WakerKept, Relies, WakersIn
  <2>3. CASE Register(t)
    <3>1. WakersIn(waiters) \subseteq WakersIn(waiters')
      BY <2>3, RegisterKeeps, MutexAssumption, Zenon DEF Register, TypeOK
    <3>2. CASE u = t
      <4>1. WQHasRoom(waiters, MaxWaiters)
        BY <2>3, <3>2, Zenon DEF Register, Relies, TypeOK
      <4>2. t \in WakersIn(waiters')
        BY <2>3, <4>1, RegisterKeeps, MutexAssumption, Zenon DEF Register, TypeOK
      <4> QED BY <3>2, <4>2, Zenon DEF WakersIn
    <3>3. CASE u # t
      <4>1. Relies(u)
        BY <2>3, <3>3, Zenon DEF Register, Relies, TypeOK
      <4>2. u \in ready \/ WakerOutstanding(u)
        BY <4>1, Zenon DEF WakerKept
      <4> QED BY <2>3, <3>1, <4>2, Zenon DEF Register, TypeOK, WakersIn
    <3> QED BY <3>2, <3>3, Zenon
  <2>4. CASE Repoll(t) \/ IdlePoll(t) \/ DropFuture(t) \/ Unlock(t)
    BY <2>4, SMTT(60) DEF Repoll, IdlePoll, DropFuture, Unlock, TypeOK, WakerKept, Relies, WakersIn
  <2>5. CASE WakeOne(t)
    <3>1. Relies(u)
      BY <2>5, Zenon DEF WakeOne, Relies, TypeOK
    <3>2. u \in ready \/ WakerOutstanding(u)
      BY <3>1, Zenon DEF WakerKept
    <3>3. CASE u \in WakersIn(waiters)
      <4>1. waiters # << >>
        BY <3>3 DEF WakersIn
      <4>2. u = waiters[1] \/ u \in WakersIn(waiters')
        BY <2>5, <3>3, <4>1, SwapRemoveKeeps, Zenon DEF WakeOne, WQAfterWakeOne, TypeOK
      <4> QED BY <2>5, <4>1, <4>2 DEF WakeOne, TypeOK, WakersIn
    <3>4. CASE u \notin WakersIn(waiters)
      BY <2>5, <3>2, <3>4, Zenon DEF WakeOne, TypeOK
    <3> QED BY <3>3, <3>4, Zenon
  <2>6. CASE Wake(t)
    <3>1. Relies(u)
      BY <2>6, Zenon DEF Wake, Relies, TypeOK
    <3>2. u \in ready \/ WakerOutstanding(u)
      BY <3>1, Zenon DEF WakerKept
    <3> QED BY <2>6, <3>2, Zenon DEF Wake, TypeOK, WakersIn
  <2> QED BY <1>3, <2>1, <2>2, <2>3, <2>4, <2>5, <2>6, <2>7, <2>8, Zenon DEF Step
<1> QED BY <1>1, <1>2, <1>3, Zenon DEF Next

\* The inductive invariant holds in every reachable state.
LEMMA Inductive == Spec => []IInv
<1>1. IInv /\ [Next]_vars => IInv'
  BY TypeStep, GuardStep, WakerStep, Zenon DEF IInv
<1> QED BY InitHolds, <1>1, PTL DEF Spec

-----------------------------------------------------------------------------

\* Type correctness, including the bound of the fixed-size wait queue.
THEOREM TypeCorrect == Spec => []TypeOK
<1>1. IInv => TypeOK
  BY Zenon DEF IInv
<1> QED BY Inductive, <1>1, PTL

\* No interleaving of lock, try_lock, lock_sync and guard drops lets two tasks
\* own a guard, for any number of tasks and CPUs.
THEOREM Exclusion == Spec => []MutualExclusion
<1>1. IInv => MutualExclusion
  BY Zenon DEF IInv
<1> QED BY Inductive, <1>1, PTL

\* The lock word is set exactly while a guard exists.
THEOREM LockWord == Spec => []LockWordMatchesGuard
<1>1. IInv => LockWordMatchesGuard
  BY Zenon DEF IInv
<1> QED BY Inductive, <1>1, PTL

\* A pending lock future is due to be polled or holds a waker somewhere, for
\* any capacity of the wait queue (zero included).
THEOREM NobodyForgotten == Spec => []NoForgottenWaiter
<1>1. IInv => NoForgottenWaiter
  BY Zenon DEF IInv, WakerKept, Relies, NoForgottenWaiter
<1> QED BY Inductive, <1>1, PTL

-----------------------------------------------------------------------------
(* The mutex: an unlock reaches a sleeper *)

\* Unless a waker was left behind, every waker is that of a task on its way to
\* the lock.
WakersWait ==
    /\ \A t \in Tasks : pc[t] = "wake" => hand[t] # {}
    /\ ~stale => \A t \in Tasks : WakerOutstanding(t) =>
           pc[t] \in {"asleep", "fast", "register", "retry", "retryFull"}

\* t is about to wake a sleeper, or to try the lock.
Pursues(t) ==
    \/ pc[t] \in {"unlock", "wake", "fast", "register", "retry", "retryFull"}
    \/ pc[t] = "asleep" /\ t \in ready

\* While the lock is free and somebody sleeps, somebody pursues it.
LockPursued ==
    ~stale /\ ~locked /\ (\E t \in Tasks : pc[t] = "asleep") => \E t \in Tasks : Pursues(t)

\* Every step keeps the wakers those of tasks on their way to the lock.
LEMMA WakersWaitStep == IInv /\ WakersWait /\ [Next]_vars => WakersWait'
<1> SUFFICES ASSUME IInv, WakersWait, [Next]_vars PROVE WakersWait'
  BY Zenon
<1> USE DEF IInv, TypeOK
<1>1. CASE UNCHANGED vars
  BY <1>1, Zenon DEF vars, WakersWait, WakerOutstanding, WakersIn
<1>2. CASE Terminated
  BY <1>2, Zenon DEF Terminated, vars, WakersWait, WakerOutstanding, WakersIn
<1>3. ASSUME NEW t \in Tasks, Step(t), stale' = (stale \/ LeavesWaker(t))
      PROVE  WakersWait'
  <2> DEFINE W == {"asleep", "fast", "register", "retry", "retryFull"}
  <2>0. \A u \in Tasks : ~stale' /\ WakerOutstanding(u) => pc[u] \in W
    BY <1>3, Zenon DEF WakersWait
  <2>1. CASE Lock(t) \/ TryLock(t) \/ LockSync(t) \/ IdlePoll(t) \/ Unlock(t) \/ SpinAcquire(t)
    <3>1. /\ pc[t] \in {"idle", "held", "spin"} /\ UNCHANGED <<waiters, hand>>
          /\ pc' = pc \/ \E l \in {"fast", "held", "spin", "unlock"} : pc' = [pc EXCEPT ![t] = l]
      BY <2>1, Zenon DEF Lock, TryLock, LockSync, IdlePoll, Unlock, SpinAcquire, Goto
    <3>2. \A u \in Tasks : WakerOutstanding(u)' => WakerOutstanding(u)
      BY <3>1, Zenon DEF WakerOutstanding, WakersIn
    <3>3. \A u \in Tasks : pc'[u] = pc[u] \/ u = t
      BY <3>1, Zenon
    <3> QED BY <2>0, <3>1, <3>2, <3>3, Zenon DEF WakersWait
  <2>2. CASE FastAcquire(t) \/ RetryAcquire(t) \/ DropFuture(t)
    <3>1. /\ pc[t] \in W /\ UNCHANGED <<waiters, hand>>
          /\ \/ pc[t] # "held" /\ pc' = [pc EXCEPT ![t] = "held"]
             \/ pc[t] = "asleep" /\ pc' = [pc EXCEPT ![t] = "idle"]
      BY <2>2, Zenon DEF FastAcquire, RetryAcquire, DropFuture, Goto
    <3>2. \A u \in Tasks : WakerOutstanding(u)' => WakerOutstanding(u)
      BY <3>1, Zenon DEF WakerOutstanding, WakersIn
    <3>3. \A u \in Tasks : pc'[u] = pc[u] \/ u = t
      BY <3>1, Zenon
    <3>4. ~stale' => ~WakerOutstanding(t)
      BY <1>3, <3>1, Zenon DEF LeavesWaker
    <3>5. pc'[t] # "wake"
      BY <3>1, Zenon
    <3> QED BY <2>0, <3>1, <3>2, <3>3, <3>4, <3>5, Zenon DEF WakersWait
  <2>3. CASE FastFail(t) \/ RetryFail(t) \/ Repoll(t)
    <3>1. /\ pc[t] \in W /\ UNCHANGED <<waiters, hand>>
          /\ \E l \in W : pc' = [pc EXCEPT ![t] = l]
      BY <2>3, Zenon DEF FastFail, RetryFail, Repoll, Goto
    <3>2. \A u \in Tasks : WakerOutstanding(u)' => WakerOutstanding(u)
      BY <3>1, Zenon DEF WakerOutstanding, WakersIn
    <3>3. pc'[t] \in W /\ \A u \in Tasks : pc'[u] = pc[u] \/ u = t
      BY <3>1, Zenon
    <3> QED BY <2>0, <3>1, <3>2, <3>3, Zenon DEF WakersWait
  <2>4. CASE Register(t)
    <3>1. WakersIn(waiters') \subseteq WakersIn(waiters) \cup {t}
      BY <2>4, RegisterKeeps, MutexAssumption, Zenon DEF Register
    <3>2. pc[t] = "register" /\ hand' = hand /\ \E l \in W : pc' = [pc EXCEPT ![t] = l]
      BY <2>4, Zenon DEF Register, Goto
    <3>3. pc'[t] \in W /\ \A u \in Tasks : pc'[u] = pc[u] \/ u = t
      BY <3>2, Zenon
    <3>4. \A u \in Tasks : u # t /\ WakerOutstanding(u)' => WakerOutstanding(u)
      BY <3>1, <3>2, <3>3, Zenon DEF WakerOutstanding
    <3> QED BY <2>0, <3>2, <3>3, <3>4, Zenon DEF WakersWait
  <2>5. CASE WakeOne(t)
    <3>1. CASE waiters = << >>
      <4>1. pc[t] = "unlock" /\ UNCHANGED <<waiters, hand>> /\ pc' = [pc EXCEPT ![t] = "idle"]
        BY <2>5, <3>1, Zenon DEF WakeOne, WQAfterWakeOne, Goto
      <4>2. pc'[t] = "idle" /\ \A u \in Tasks : pc'[u] = pc[u] \/ u = t
        BY <4>1, Zenon
      <4>3. \A u \in Tasks : WakerOutstanding(u)' => WakerOutstanding(u)
        BY <4>1, <4>2, Zenon DEF WakerOutstanding, WakersIn
      <4> QED BY <2>0, <4>1, <4>2, <4>3, Zenon DEF WakersWait
    <3>2. CASE waiters # << >>
      <4>1. /\ pc[t] = "unlock" /\ pc' = [pc EXCEPT ![t] = "wake"]
            /\ hand' = [hand EXCEPT ![t] = {waiters[1]}]
        BY <2>5, <3>2, Zenon DEF WakeOne, Goto
      <4>2. WakersIn(waiters') \subseteq WakersIn(waiters)
        BY <2>5, <3>2, SwapRemoveKeeps, Zenon DEF WakeOne, WQAfterWakeOne
      <4>3. waiters[1] \in WakersIn(waiters) /\ waiters[1] \in Tasks
        BY <3>2 DEF WakersIn
      <4>4. pc'[t] = "wake" /\ \A u \in Tasks : pc'[u] = pc[u] \/ u = t
        BY <4>1, Zenon
      <4>5. hand'[t] = {waiters[1]} /\ \A u \in Tasks : hand'[u] = hand[u] \/ u = t
        BY <4>1, Zenon
      <4>6. \A u \in Tasks : WakerOutstanding(u)' => WakerOutstanding(u)
        BY <4>2, <4>3, <4>4, <4>5, Zenon DEF WakerOutstanding
      <4> QED BY <2>0, <4>1, <4>4, <4>5, <4>6, Zenon DEF WakersWait
    <3> QED BY <3>1, <3>2, Zenon
  <2>6. CASE Wake(t)
    <3>1. /\ pc[t] = "wake" /\ pc' = [pc EXCEPT ![t] = "idle"] /\ waiters' = waiters
          /\ hand' = [hand EXCEPT ![t] = {}]
      BY <2>6, Zenon DEF Wake, Goto
    <3>2. pc'[t] = "idle" /\ \A u \in Tasks : (pc'[u] = pc[u] /\ hand'[u] = hand[u]) \/ u = t
      BY <3>1, Zenon
    <3>3. \A u \in Tasks : WakerOutstanding(u)' => WakerOutstanding(u)
      BY <3>1, <3>2, Zenon DEF WakerOutstanding, WakersIn
    <3> QED BY <2>0, <3>1, <3>2, <3>3, Zenon DEF WakersWait
  <2> QED BY <1>3, <2>1, <2>2, <2>3, <2>4, <2>5, <2>6, Zenon DEF Step
<1> QED BY <1>1, <1>2, <1>3, Zenon DEF Next

\* Every step leaves somebody to pursue a free lock that is slept on.
LEMMA PursuitStep ==
    IInv /\ WakersWait /\ LockPursued /\ [Next]_vars => LockPursued'
<1> SUFFICES ASSUME IInv, WakersWait, LockPursued, [Next]_vars,
                    ~stale', ~locked', NEW s \in Tasks, pc'[s] = "asleep"
             PROVE  \E v \in Tasks : Pursues(v)'
  BY Zenon DEF LockPursued
<1> USE DEF IInv, TypeOK
<1>1. CASE UNCHANGED vars
  BY <1>1, Zenon DEF vars, LockPursued, Pursues
<1>2. CASE Terminated
  BY <1>2, Zenon DEF Terminated, vars, LockPursued, Pursues
<1>3. ASSUME NEW t \in Tasks, Step(t), stale' = (stale \/ LeavesWaker(t))
      PROVE  \E v \in Tasks : Pursues(v)'
  <2>0. ~stale
    BY <1>3, Zenon
  <2>1. CASE Lock(t) \/ FastFail(t) \/ Register(t) \/ Repoll(t) \/ Unlock(t)
    <3>1. \E l \in {"fast", "register", "retry", "retryFull", "unlock"} : pc' = [pc EXCEPT ![t] = l]
      BY <2>1, Zenon DEF Lock, FastFail, Register, Repoll, Unlock, Goto
    <3> QED BY <3>1, Zenon DEF Pursues
  <2>2. CASE RetryFail(t) \/ FastAcquire(t) \/ RetryAcquire(t) \/ SpinAcquire(t)
    BY <2>2, Zenon DEF RetryFail, FastAcquire, RetryAcquire, SpinAcquire
  <2>3. CASE LockSync(t) \/ TryLock(t) \/ IdlePoll(t)
    <3>1. /\ ~locked /\ pc[t] \in {"idle", "held"}
          /\ pc' = pc \/ pc' = [pc EXCEPT ![t] = "spin"]
          /\ ready' = ready \/ ready' = ready \ {t}
      BY <2>3, Zenon DEF LockSync, TryLock, IdlePoll, Goto
    <3>2. pc[s] = "asleep"
      BY <3>1, Zenon
    <3>3. PICK v \in Tasks : Pursues(v)
      BY <2>0, <3>1, <3>2, Zenon DEF LockPursued
    <3>4. v # t
      BY <3>1, <3>3, Zenon DEF Pursues
    <3> QED BY <3>1, <3>3, <3>4, Zenon DEF Pursues
  <2>4. CASE DropFuture(t)
    BY <1>3, <2>4, Zenon DEF DropFuture, LeavesWaker, Goto
  <2>5. CASE WakeOne(t)
    <3>1. CASE waiters = << >>
      <4>1. /\ pc[t] = "unlock" /\ ~locked /\ pc' = [pc EXCEPT ![t] = "idle"]
            /\ ready' = ready /\ hand' = hand
        BY <2>5, <3>1, Zenon DEF WakeOne, Goto
      <4>2. s # t /\ pc[s] = "asleep"
        BY <4>1, Zenon
      <4>3. s \in ready \/ WakerOutstanding(s)
        BY <4>2, Zenon DEF WakerKept, Relies
      <4>4. WakersIn(waiters) = {}
        BY <3>1 DEF WakersIn
      <4>5. s \in ready \/ \E u \in Tasks : pc[u] = "wake"
        BY <4>3, <4>4, Zenon DEF WakerOutstanding
      <4> QED BY <4>1, <4>2, <4>5, Zenon DEF Pursues
    <3>2. CASE waiters # << >>
      BY <2>5, <3>2, Zenon DEF WakeOne, Goto, Pursues
    <3> QED BY <3>1, <3>2, Zenon
  <2>6. CASE Wake(t)
    <3>1. /\ pc[t] = "wake" /\ pc' = [pc EXCEPT ![t] = "idle"]
          /\ ready' = ready \cup hand[t]
      BY <2>6, Zenon DEF Wake, Goto
    <3>2. PICK u \in Tasks : u \in hand[t]
      BY <3>1, Zenon DEF WakersWait
    <3>3. pc[u] \in {"asleep", "fast", "register", "retry", "retryFull"}
      BY <2>0, <3>1, <3>2, Zenon DEF WakersWait, WakerOutstanding
    <3>4. pc'[u] = pc[u] /\ u \in ready'
      BY <3>1, <3>2, <3>3, Zenon
    <3> QED BY <3>3, <3>4, Zenon DEF Pursues
  <2> QED BY <1>3, <2>1, <2>2, <2>3, <2>4, <2>5, <2>6, Zenon DEF Step
<1> QED BY <1>1, <1>2, <1>3, Zenon DEF Next

\* An unlock reaches a sleeper, whatever the tasks, CPUs and capacity, unless a waker
\* was left behind in the queue.
THEOREM UnlockReaches == Spec => []UnlockReachesSleeper
<1>1. Init => WakersWait /\ LockPursued
  <2>1. ASSUME Init PROVE WakersIn(waiters) = {}
    BY <2>1 DEF Init, WakersIn
  <2> QED BY <2>1, Zenon DEF Init, WakersWait, LockPursued, WakerOutstanding
<1>2. IInv /\ WakersWait /\ LockPursued => UnlockReachesSleeper
  BY Zenon DEF LockPursued, Pursues, UnlockReachesSleeper
<1> QED BY <1>1, <1>2, Inductive, WakersWaitStep, PursuitStep, PTL DEF Spec

-----------------------------------------------------------------------------
(* Counting *)

\* A part of a finite set has no more elements than the whole.
LEMMA CardPart ==
    ASSUME NEW S, IsFiniteSet(S), NEW T \in SUBSET S
    PROVE  /\ IsFiniteSet(T) /\ Cardinality(T) \in Nat /\ Cardinality(S) \in Nat
           /\ Cardinality(T) <= Cardinality(S)
BY FS_Subset, FS_CardinalityType, Zenon

\* A new element adds one, and the loss of one takes one away.
LEMMA CardChange ==
    ASSUME NEW S, IsFiniteSet(S), NEW T \in SUBSET S, NEW x \in S
    PROVE  /\ x \notin T => Cardinality(T \cup {x}) = Cardinality(T) + 1
           /\ x \in T => Cardinality(T \ {x}) = Cardinality(T) - 1
<1>1. IsFiniteSet(T)
  BY CardPart, Zenon
<1> QED BY <1>1, FS_AddElement, FS_RemoveElement, Zenon

-----------------------------------------------------------------------------
(* The reader-writer lock *)

RwSafe == RwTypeOK /\ WriterAlone /\ WordCountsGuards

\* Nobody holds a new lock.
LEMMA RwFirst == RwInit => RwSafe
<1> SUFFICES ASSUME RwInit PROVE RwSafe
  BY Zenon
<1>1. ReadersIn = {} /\ WritersIn = {}
  BY Zenon DEF RwInit, ReadersIn, WritersIn
<1>2. RwTypeOK
  BY RwLockAssumption, CardPart DEF RwInit, RwTypeOK, RwPCs
<1> QED BY <1>1, <1>2, FS_EmptySet, Zenon DEF RwSafe, WriterAlone, WordCountsGuards, RwInit

\* Every access to the word keeps it in agreement with the guards.
LEMMA RwKeeps == RwSafe /\ [RwNext]_rwVars => RwSafe'
<1> SUFFICES ASSUME RwSafe, [RwNext]_rwVars PROVE RwSafe'
  BY Zenon
<1> USE RwLockAssumption DEF RwSafe, RwTypeOK, RwPCs, RwGoto
<1>0. /\ ReadersIn \in SUBSET RwTasks /\ WritersIn \in SUBSET RwTasks
      /\ Cardinality(ReadersIn) \in Nat /\ Cardinality(ReadersIn) <= Cardinality(RwTasks)
      /\ Cardinality(RwTasks) \in Nat
  BY CardPart, Zenon DEF ReadersIn, WritersIn
<1>1. CASE UNCHANGED rwVars
  BY <1>1, Zenon DEF rwVars, WriterAlone, WordCountsGuards, ReadersIn, WritersIn
<1>2. ASSUME NEW t \in RwTasks, RwStep(t) PROVE RwSafe'
  <2>1. CASE (\E call \in {"read", "tryRead", "write"} : RwStart(t, call)) \/ LoadState(t)
    <3>1. /\ rwState' = rwState /\ rwPc[t] \notin {"reading", "writing"}
          /\ \E l \in RwPCs \ {"reading", "writing"} : rwPc' = [rwPc EXCEPT ![t] = l]
      BY <2>1, Zenon DEF RwStart, LoadState
    <3>2. ReadersIn' = ReadersIn /\ WritersIn' = WritersIn
      BY <3>1 DEF ReadersIn, WritersIn
    <3>3. RwTypeOK'
      BY <2>1 DEF RwStart, LoadState
    <3> QED BY <3>1, <3>2, <3>3, Zenon DEF WriterAlone, WordCountsGuards
  <2>2. CASE CountReader(t)
    <3>1. CASE rwState = rwSeen[t]
      <4>1. /\ rwPc[t] \notin {"reading", "writing"} /\ rwState' = rwState + 1
            /\ rwPc' = [rwPc EXCEPT ![t] = "reading"]
        BY <2>2, <3>1, Zenon DEF CountReader
      <4>2. ReadersIn' = ReadersIn \cup {t} /\ t \notin ReadersIn /\ WritersIn' = WritersIn
        BY <4>1, Zenon DEF ReadersIn, WritersIn
      <4>3. WritersIn = {} /\ rwState = Cardinality(ReadersIn)
        BY <3>1 DEF WordCountsGuards
      <4>4. Cardinality(ReadersIn') = Cardinality(ReadersIn) + 1
        BY <1>0, <4>2, CardChange, ZenonT(30)
      <4>5. Cardinality(ReadersIn') <= Cardinality(RwTasks)
        BY <4>2, <1>0, CardPart, Zenon
      <4>6. RwTypeOK'
        BY <1>0, <2>2, <4>1, <4>3, <4>4, <4>5 DEF CountReader
      <4> QED BY <4>1, <4>2, <4>3, <4>4, <4>6, Zenon DEF WriterAlone, WordCountsGuards
    <3>2. CASE rwState # rwSeen[t]
      <4>1. /\ rwPc[t] \notin {"reading", "writing"} /\ rwState' = rwState
            /\ \E l \in {"read", "idle"} : rwPc' = [rwPc EXCEPT ![t] = l]
        BY <2>2, <3>2, Zenon DEF CountReader
      <4>2. ReadersIn' = ReadersIn /\ WritersIn' = WritersIn
        BY <4>1, Zenon DEF ReadersIn, WritersIn
      <4>3. RwTypeOK'
        BY <2>2, <4>1, <1>0 DEF CountReader
      <4> QED BY <4>1, <4>2, <4>3, Zenon DEF WriterAlone, WordCountsGuards
    <3> QED BY <3>1, <3>2, Zenon
  <2>3. CASE TakeWrite(t) \/ TryWrite(t)
    <3>1. CASE rwState = 0
      <4>1. /\ rwPc[t] \notin {"reading", "writing"} /\ rwState' = WRITE_LOCKED
            /\ rwPc' = [rwPc EXCEPT ![t] = "writing"]
        BY <2>3, <3>1, Zenon DEF TakeWrite, TryWrite
      <4>2. WritersIn = {} /\ Cardinality(ReadersIn) = 0
        BY <1>0, <3>1 DEF WordCountsGuards
      <4>3. ReadersIn = {}
        BY <1>0, <4>2, CardPart, FS_EmptySet, Zenon
      <4>4. ReadersIn' = {} /\ WritersIn' = {t}
        BY <4>1, <4>2, <4>3, Zenon DEF ReadersIn, WritersIn
      <4>5. RwTypeOK'
        BY <2>3, <4>1, <1>0 DEF TakeWrite, TryWrite
      <4> QED BY <4>1, <4>4, <4>5, Zenon DEF WriterAlone, WordCountsGuards
    <3>2. CASE rwState # 0
      <4>1. UNCHANGED <<rwState, rwPc, rwSeen>> /\ RwTypeOK'
        BY <2>3, <3>2 DEF TakeWrite, TryWrite
      <4> QED BY <4>1, Zenon DEF WriterAlone, WordCountsGuards, ReadersIn, WritersIn
    <3> QED BY <3>1, <3>2, Zenon
  <2>4. CASE DropRead(t)
    <3>1. rwPc[t] = "reading" /\ rwState' = rwState - 1 /\ rwPc' = [rwPc EXCEPT ![t] = "idle"]
      BY <2>4, Zenon DEF DropRead
    <3>2. t \in ReadersIn /\ ReadersIn' = ReadersIn \ {t} /\ WritersIn' = WritersIn
      BY <3>1, Zenon DEF ReadersIn, WritersIn
    <3>3. WritersIn = {} /\ rwState = Cardinality(ReadersIn)
      BY <3>2, Zenon DEF WriterAlone, WordCountsGuards
    <3>4. Cardinality(ReadersIn') = Cardinality(ReadersIn) - 1 /\ Cardinality(ReadersIn') \in Nat
      BY <1>0, <3>2, CardChange, CardPart
    <3>5. RwTypeOK'
      BY <1>0, <2>4, <3>1, <3>3, <3>4 DEF DropRead
    <3> QED BY <3>1, <3>2, <3>3, <3>4, <3>5, Zenon DEF WriterAlone, WordCountsGuards
  <2>5. CASE DropWrite(t)
    <3>1. rwPc[t] = "writing" /\ rwState' = 0 /\ rwPc' = [rwPc EXCEPT ![t] = "idle"]
      BY <2>5, Zenon DEF DropWrite
    <3>2. WritersIn = {t} /\ ReadersIn = {}
      BY <3>1, Zenon DEF WriterAlone, WritersIn
    <3>3. WritersIn' = {} /\ ReadersIn' = {}
      BY <3>1, <3>2, Zenon DEF ReadersIn, WritersIn
    <3>4. RwTypeOK'
      BY <1>0, <2>5, <3>1 DEF DropWrite
    <3> QED BY <3>1, <3>3, <3>4, FS_EmptySet, Zenon DEF WriterAlone, WordCountsGuards
  <2> QED BY <1>2, <2>1, <2>2, <2>3, <2>4, <2>5, Zenon DEF RwStep
<1> QED BY <1>1, <1>2, Zenon DEF RwNext

-----------------------------------------------------------------------------
(* LazyLock *)

Initialising(t) == lzPc[t] \in {"take", "init", "publish"}

LzSafe ==
    /\ lzPc \in [LzTasks -> {"idle", "claim", "spin", "take", "init", "publish", "read", "panicked"}]
    /\ lzState \in {"UNINIT", "INITIALIZING", "READY", "POISONED"}
    /\ lzState = "INITIALIZING" <=> \E t \in LzTasks : Initialising(t)
    /\ \A t, u \in LzTasks : Initialising(t) /\ Initialising(u) => t = u
    /\ lzState = "UNINIT" => lzClosure
    /\ lzState = "READY" => lzValue
    /\ \A t \in LzTasks :
          /\ lzPc[t] = "take" => lzClosure
          /\ lzPc[t] = "publish" => lzValue
          /\ lzPc[t] = "read" => lzState = "READY"
          /\ lzPc[t] = "spin" => lzState # "UNINIT"

\* Every step of force() keeps one initialiser at most, and the state in step with it.
LEMMA LzKeeps == LzSafe /\ [LzNext]_lzVars => LzSafe'
<1> SUFFICES ASSUME LzSafe, [LzNext]_lzVars PROVE LzSafe'
  BY Zenon
<1> USE DEF LzSafe, Initialising, LzGoto
<1>1. CASE UNCHANGED lzVars
  BY <1>1, Zenon DEF lzVars
<1>2. ASSUME NEW t \in LzTasks, LzForce(t) PROVE LzSafe'
  BY <1>2 DEF LzForce
<1>3. ASSUME NEW t \in LzTasks, Claim(t) PROVE LzSafe'
  BY <1>3 DEF Claim
<1>4. ASSUME NEW t \in LzTasks, TakeClosure(t) PROVE LzSafe'
  BY <1>4, Zenon DEF TakeClosure
<1>5. ASSUME NEW t \in LzTasks, WriteValue(t) PROVE LzSafe'
  BY <1>5, Zenon DEF WriteValue
<1>6. ASSUME NEW t \in LzTasks, Poison(t) \/ Publish(t) PROVE LzSafe'
  BY <1>6 DEF Poison, Publish
<1>7. ASSUME NEW t \in LzTasks, Spin(t) \/ Read(t) PROVE LzSafe'
  BY <1>7, ZenonT(30) DEF Spin, SpinEnds, Read
<1> QED BY <1>1, <1>2, <1>3, <1>4, <1>5, <1>6, <1>7, Zenon DEF LzNext

\* A value is initialised once, by the one who claims it, and whoever spins meanwhile is
\* released when the closure returns or panics.
LEMMA LazySafe == LzSpec => [](InitialisedOnce /\ SpinnersReleased)
<1>1. LzInit => LzSafe
  BY Zenon DEF LzInit, LzSafe, Initialising
<1>2. LzSafe => InitialisedOnce /\ SpinnersReleased
  BY Zenon DEF LzSafe, Initialising, InitialisedOnce, SpinnersReleased, SpinEnds
<1> QED BY <1>1, <1>2, LzKeeps, PTL DEF LzSpec

-----------------------------------------------------------------------------
(* The condition variable *)

CvPCs == {"lock", "locked", "unregistered", "asleep", "notify", "wake", "done"}

CvTypeOK ==
    /\ cvFlag \in BOOLEAN
    /\ cvQueue \in Seq(CvWaiters)
    /\ cvPc \in [CvTasks -> CvPCs]
    /\ cvHand \in [CvNotifiers -> SUBSET CvWaiters]
    /\ cvReady \in SUBSET CvWaiters
    /\ cvMissed \in SUBSET CvWaiters

Notified == { n \in CvNotifiers : cvPc[n] \in {"wake", "done"} }
CvSleepers == { t \in CvWaiters : cvPc[t] = "asleep" }

\* Each task is at a program point of its own code; wakers are held in hand only
\* while they are being called; who notifies has set the flag.
CvRoles ==
    /\ \A n \in CvNotifiers :
          /\ cvPc[n] \notin {"unregistered", "asleep"}
          /\ cvPc[n] # "wake" => cvHand[n] = {}
          /\ cvPc[n] \in {"notify", "wake", "done"} => cvFlag
    /\ \A t \in CvWaiters : cvPc[t] \notin {"notify", "wake"}

\* A sleeper is queued, called or missed.
CvWakerKept ==
    \A t \in CvSleepers :
        \/ t \in cvReady \/ t \in cvMissed \/ t \in WakersIn(cvQueue)
        \/ \E n \in CvNotifiers : t \in cvHand[n]

\* As long as nothing is missed: before the first notification the queue holds every
\* sleeper once and nobody has been called; after it nobody registers any more, and
\* each notification takes at least one waker out.
NotifiesCount ==
    cvMissed = {} =>
        IF Notified = {}
          THEN cvReady = {} /\ Len(cvQueue) = Cardinality(CvSleepers)
          ELSE /\ \A t \in CvWaiters : cvPc[t] # "unregistered"
               /\ \/ cvQueue = << >>
                  \/ Len(cvQueue) + Cardinality(Notified) <= Cardinality(CvWaiters)

CvSafe == CvTypeOK /\ CvRoles /\ CvWakerKept /\ NotifiesCount

\* The wakers of an empty queue, and those of one that has been drained.
LEMMA QueueWakers ==
    ASSUME NEW S, NEW q \in Seq(S)
    PROVE  /\ Len(q) \in Nat /\ WakersIn(q) \in SUBSET S
           /\ q # << >> => Len(q) > 0 /\ q[1] \in S
<1>1. Len(q) \in Nat /\ \A i \in 1 .. Len(q) : q[i] \in S
  OBVIOUS
<1>2. WakersIn(q) \in SUBSET S
  BY <1>1, Zenon DEF WakersIn
<1> QED BY <1>1, <1>2

\* A step that changes neither the queue nor who has been notified, by a task that
\* sleeps neither before nor after it, keeps the account of the notifications.
LEMMA CvQuiet ==
    ASSUME CvSafe, NEW t \in CvTasks, NEW l \in {"lock", "locked", "done", "notify", "unregistered"},
           cvPc[t] \in {"lock", "locked"}, cvPc' = [cvPc EXCEPT ![t] = l],
           t \in CvNotifiers => l # "done" /\ l # "unregistered",
           t \in CvWaiters => l # "notify",
           l = "unregistered" => ~cvFlag,
           l = "notify" => cvFlag',
           cvFlag' \in BOOLEAN, cvFlag => cvFlag',
           UNCHANGED <<cvQueue, cvHand, cvReady, cvMissed>>
    PROVE  CvSafe'
<1> USE CondvarAssumption DEF CvTasks
<1>1. CvTypeOK'
  BY Zenon DEF CvSafe, CvTypeOK, CvPCs
<1>2. cvPc'[t] = l /\ \A u \in CvTasks \ {t} : cvPc'[u] = cvPc[u]
  BY Zenon DEF CvSafe, CvTypeOK
<1>3. CvSleepers' = CvSleepers
  BY <1>2, Zenon DEF CvSleepers
<1>4. Notified' = Notified
  BY <1>2, Zenon DEF Notified
<1>5. CvRoles'
  BY <1>2, Zenon DEF CvSafe, CvRoles
<1>6. CvWakerKept'
  BY <1>3, Zenon DEF CvSafe, CvWakerKept
<1>7. NotifiesCount'
  <2> SUFFICES ASSUME cvMissed = {}
               PROVE  IF Notified = {}
                        THEN cvReady = {} /\ Len(cvQueue) = Cardinality(CvSleepers)
                        ELSE /\ \A u \in CvWaiters : cvPc'[u] # "unregistered"
                             /\ \/ cvQueue = << >>
                                \/ Len(cvQueue) + Cardinality(Notified) <= Cardinality(CvWaiters)
    BY <1>3, <1>4, Zenon DEF NotifiesCount
  <2>1. CASE Notified = {}
    BY <2>1, Zenon DEF CvSafe, NotifiesCount
  <2>2. CASE Notified # {}
    <3>1. cvFlag
      BY <2>2, Zenon DEF Notified, CvSafe, CvRoles
    <3>2. \A u \in CvWaiters : cvPc'[u] # "unregistered"
      BY <1>2, <2>2, <3>1, Zenon DEF CvSafe, NotifiesCount
    <3> QED BY <2>2, <3>2, Zenon DEF CvSafe, NotifiesCount
  <2> QED BY <2>1, <2>2, Zenon
<1> QED BY <1>1, <1>5, <1>6, <1>7, Zenon DEF CvSafe

\* A waiter registers, or leaves the queue's care when it is polled again.
LEMMA CvWaits ==
    ASSUME CvSafe, NEW t \in CvTasks, RegisterWaiter(t) \/ Rewake(t)
    PROVE  CvSafe'
<1> USE CondvarAssumption DEF CvTasks, CvGoto
<1>0. t \in CvWaiters /\ t \notin CvNotifiers
  BY Zenon DEF RegisterWaiter, Rewake, CvSafe, CvRoles
<1>1. CASE RegisterWaiter(t)
  <2>1. /\ cvPc[t] = "unregistered" /\ cvPc'[t] = "asleep"
        /\ \A u \in CvTasks \ {t} : cvPc'[u] = cvPc[u]
        /\ UNCHANGED <<cvFlag, cvHand, cvReady>>
        /\ cvMissed' \in SUBSET CvWaiters /\ cvMissed \subseteq cvMissed'
    BY <1>0, <1>1, Zenon DEF RegisterWaiter, CvSafe, CvTypeOK
  <2>2. /\ cvQueue' \in Seq(CvWaiters) /\ WakersIn(cvQueue) \subseteq WakersIn(cvQueue')
        /\ t \in WakersIn(cvQueue') \/ t \in cvMissed'
        /\ cvMissed' = {} => Len(cvQueue') = Len(cvQueue) + 1
    <3>1. cvQueue \in Seq(CvWaiters) /\ Len(cvQueue) \in Nat
      BY DEF CvSafe, CvTypeOK
    <3>2. CASE WQHasRoom(cvQueue, CvMaxWaiters)
      <4>1. cvQueue' = Append(cvQueue, t)
        BY <1>1, <3>2, Zenon DEF RegisterWaiter, WQRegister
      <4>2. /\ cvQueue' \in Seq(CvWaiters) /\ Len(cvQueue') = Len(cvQueue) + 1
            /\ cvQueue'[Len(cvQueue) + 1] = t
            /\ \A i \in 1 .. Len(cvQueue) : cvQueue'[i] = cvQueue[i]
        BY <1>0, <3>1, <4>1
      <4>3. WakersIn(cvQueue) \subseteq WakersIn(cvQueue') /\ t \in WakersIn(cvQueue')
        BY <3>1, <4>2 DEF WakersIn
      <4> QED BY <4>2, <4>3, Zenon
    <3>3. CASE ~WQHasRoom(cvQueue, CvMaxWaiters)
      BY <1>1, <3>1, <3>3, Zenon DEF RegisterWaiter, WQRegister
    <3> QED BY <3>2, <3>3, Zenon
  <2>3. CvTypeOK'
    BY <1>1, <2>1, <2>2, Zenon DEF RegisterWaiter, CvSafe, CvTypeOK, CvPCs
  <2>4. CvSleepers' = CvSleepers \cup {t} /\ t \notin CvSleepers /\ Notified' = Notified
    BY <1>0, <2>1, Zenon DEF CvSleepers, Notified
  <2>5. CvRoles'
    BY <1>0, <2>1, Zenon DEF CvSafe, CvRoles
  <2>6. CvWakerKept'
    BY <2>1, <2>2, <2>4, Zenon DEF CvSafe, CvWakerKept
  <2>7. NotifiesCount'
    <3> SUFFICES ASSUME cvMissed' = {} PROVE NotifiesCount'
      BY Zenon DEF NotifiesCount
    <3>1. cvMissed = {}
      BY <2>1, Zenon
    <3>2. Notified = {}
      BY <1>0, <2>1, <3>1, Zenon DEF CvSafe, NotifiesCount
    <3>3. cvReady = {} /\ Len(cvQueue) = Cardinality(CvSleepers)
      BY <3>1, <3>2, Zenon DEF CvSafe, NotifiesCount
    <3>4. Cardinality(CvSleepers') = Cardinality(CvSleepers) + 1
      <4>1. CvSleepers \in SUBSET CvWaiters
        BY Zenon DEF CvSleepers
      <4> QED BY <1>0, <2>4, <4>1, CardChange, Zenon
    <3>5. cvReady' = {} /\ Len(cvQueue') = Cardinality(CvSleepers')
      BY <2>1, <2>2, <3>3, <3>4, ZenonT(30)
    <3> QED BY <2>4, <3>2, <3>5, Zenon DEF NotifiesCount
  <2> QED BY <2>3, <2>5, <2>6, <2>7, Zenon DEF CvSafe
<1>2. CASE Rewake(t)
  <2>1. /\ cvPc[t] = "asleep" /\ cvPc'[t] = "lock" /\ t \in cvReady /\ cvReady' = cvReady \ {t}
        /\ \A u \in CvTasks \ {t} : cvPc'[u] = cvPc[u]
        /\ UNCHANGED <<cvFlag, cvQueue, cvHand, cvMissed>>
    BY <1>0, <1>2, Zenon DEF Rewake, CvSafe, CvTypeOK
  <2>2. CvTypeOK'
    BY <1>2, <2>1, Zenon DEF Rewake, CvSafe, CvTypeOK, CvPCs
  <2>3. CvSleepers' = CvSleepers \ {t} /\ Notified' = Notified
    BY <1>0, <2>1, Zenon DEF CvSleepers, Notified
  <2>4. CvRoles'
    BY <1>0, <2>1, Zenon DEF CvSafe, CvRoles
  <2>5. CvWakerKept'
    BY <2>1, <2>3, Zenon DEF CvSafe, CvWakerKept
  <2>6. NotifiesCount'
    <3> SUFFICES ASSUME cvMissed = {} PROVE NotifiesCount'
      BY <2>1, Zenon DEF NotifiesCount
    <3>1. Notified # {}
      BY <2>1, Zenon DEF CvSafe, NotifiesCount
    <3>2. \A u \in CvWaiters : cvPc'[u] # "unregistered"
      BY <2>1, <3>1, Zenon DEF CvSafe, NotifiesCount
    <3>3. cvQueue = << >> \/ Len(cvQueue) + Cardinality(Notified) <= Cardinality(CvWaiters)
      BY <3>1, Zenon DEF CvSafe, NotifiesCount
    <3> QED BY <2>1, <2>3, <3>1, <3>2, <3>3, Zenon DEF NotifiesCount
  <2> QED BY <2>2, <2>4, <2>5, <2>6, Zenon DEF CvSafe
<1> QED BY <1>1, <1>2, Zenon

\* A notification takes at least one waker out, if there is one.
LEMMA CvNotifies ==
    ASSUME CvSafe, NEW t \in CvTasks, NotifyOne(t) \/ NotifyAll(t)
    PROVE  CvSafe'
<1> USE CondvarAssumption DEF CvTasks, CvGoto
<1>1. /\ t \in CvNotifiers /\ t \notin CvWaiters /\ cvPc[t] = "notify" /\ cvPc'[t] = "wake"
      /\ cvPc' \in [CvTasks -> CvPCs]
      /\ \A u \in CvTasks \ {t} : cvPc'[u] = cvPc[u]
      /\ UNCHANGED <<cvFlag, cvReady>> /\ cvMissed' = cvMissed \cup Passed
  BY Zenon DEF NotifyOne, NotifyAll, CvSafe, CvTypeOK, CvPCs
<1>2. cvQueue \in Seq(CvWaiters) /\ cvHand \in [CvNotifiers -> SUBSET CvWaiters] /\ cvHand[t] = {}
  BY <1>1, Zenon DEF CvSafe, CvTypeOK, CvRoles
<1>3. Len(cvQueue) \in Nat /\ WakersIn(cvQueue) \in SUBSET CvWaiters
  BY <1>2, QueueWakers, Zenon
<1>4. /\ cvQueue' \in Seq(CvWaiters) /\ cvHand' \in [CvNotifiers -> SUBSET CvWaiters]
      /\ \A n \in CvNotifiers \ {t} : cvHand'[n] = cvHand[n]
      /\ \A w \in WakersIn(cvQueue) : w \in cvHand'[t] \/ w \in WakersIn(cvQueue')
      /\ cvQueue' = << >> \/ (cvQueue # << >> /\ Len(cvQueue') = Len(cvQueue) - 1)
  <2>1. CASE NotifyAll(t)
    BY <1>1, <1>2, <1>3, <2>1 DEF NotifyAll
  <2>2. CASE NotifyOne(t) /\ cvQueue = << >>
    <3>1. cvQueue' = << >> /\ cvHand' = [cvHand EXCEPT ![t] = {}]
      BY <2>2, Zenon DEF NotifyOne, WQAfterWakeOne
    <3>2. WakersIn(cvQueue) = {}
      BY <2>2 DEF WakersIn
    <3> QED BY <1>1, <1>2, <3>1, <3>2
  <2>3. CASE NotifyOne(t) /\ cvQueue # << >>
    <3>1. cvQueue' = SwapRemoveFirst(cvQueue) /\ cvHand' = [cvHand EXCEPT ![t] = {cvQueue[1]}]
      BY <2>3, Zenon DEF NotifyOne, WQAfterWakeOne
    <3>2. /\ cvQueue' \in Seq(CvWaiters) /\ Len(cvQueue') = Len(cvQueue) - 1
          /\ \A w \in WakersIn(cvQueue) : w = cvQueue[1] \/ w \in WakersIn(cvQueue')
      BY <1>2, <2>3, <3>1, SwapRemoveKeeps, Zenon
    <3>3. cvQueue[1] \in CvWaiters
      BY <1>2, <2>3, QueueWakers, Zenon
    <3> QED BY <1>1, <1>2, <2>3, <3>1, <3>2, <3>3, Zenon
  <2> QED BY <2>1, <2>2, <2>3, Zenon
<1>5. CvTypeOK'
  BY <1>1, <1>4, Zenon DEF CvSafe, CvTypeOK, Passed
<1>6. Notified' = Notified \cup {t} /\ t \notin Notified /\ CvSleepers' = CvSleepers
  BY <1>1, Zenon DEF Notified, CvSleepers
<1>7. CvRoles'
  BY <1>1, <1>4, Zenon DEF CvSafe, CvRoles
<1>8. CvWakerKept'
  BY <1>1, <1>2, <1>4, <1>6, Zenon DEF CvSafe, CvWakerKept
<1>9. NotifiesCount'
  <2> SUFFICES ASSUME cvMissed' = {} PROVE NotifiesCount'
    BY Zenon DEF NotifiesCount
  <2>1. cvMissed = {} /\ Passed = {}
    BY <1>1, Zenon
  <2>2. \A u \in CvWaiters : cvPc'[u] # "unregistered"
    BY <1>1, <2>1, Zenon DEF Passed
  <2>3. Notified \in SUBSET CvNotifiers /\ CvSleepers \in SUBSET CvWaiters
    BY Zenon DEF Notified, CvSleepers
  <2>4. /\ Cardinality(Notified) \in Nat /\ Cardinality(Notified') = Cardinality(Notified) + 1
        /\ Cardinality(CvSleepers) <= Cardinality(CvWaiters)
        /\ Cardinality(CvSleepers) \in Nat /\ Cardinality(CvWaiters) \in Nat
    BY <1>1, <1>6, <2>3, CardPart, CardChange, Zenon
  <2>5. ASSUME cvQueue' # << >>
        PROVE  Len(cvQueue') + Cardinality(Notified') <= Cardinality(CvWaiters)
    <3>1. cvQueue # << >> /\ Len(cvQueue') = Len(cvQueue) - 1
      BY <1>4, <2>5, Zenon
    <3>2. CASE Notified = {}
      <4>1. Len(cvQueue) = Cardinality(CvSleepers) /\ Cardinality(Notified) = 0
        BY <2>1, <3>2, FS_EmptySet, Zenon DEF CvSafe, NotifiesCount
      <4> QED BY <1>3, <2>4, <3>1, <4>1
    <3>3. CASE Notified # {}
      <4>1. Len(cvQueue) + Cardinality(Notified) <= Cardinality(CvWaiters)
        BY <2>1, <3>1, <3>3, Zenon DEF CvSafe, NotifiesCount
      <4> QED BY <1>3, <2>4, <3>1, <4>1
    <3> QED BY <3>2, <3>3, Zenon
  <2>6. Notified' # {}
    BY <1>6, Zenon
  <2> QED BY <2>2, <2>5, <2>6, Zenon DEF NotifiesCount
<1> QED BY <1>5, <1>7, <1>8, <1>9, Zenon DEF CvSafe

\* A notifier calls the wakers it has taken.
LEMMA CvCalls ==
    ASSUME CvSafe, NEW t \in CvTasks, CallWaker(t)
    PROVE  CvSafe'
<1> USE CondvarAssumption DEF CvTasks, CvGoto
<1>1. /\ t \in CvNotifiers /\ t \notin CvWaiters /\ cvPc[t] = "wake"
      /\ cvPc' \in [CvTasks -> CvPCs] /\ cvPc'[t] \in {"wake", "done"}
      /\ \A u \in CvTasks \ {t} : cvPc'[u] = cvPc[u]
      /\ UNCHANGED <<cvFlag, cvQueue, cvMissed>>
      /\ cvHand \in [CvNotifiers -> SUBSET CvWaiters]
  BY Zenon DEF CallWaker, CvSafe, CvTypeOK, CvPCs
<1>2. /\ cvReady' \in SUBSET CvWaiters /\ cvReady \subseteq cvReady'
      /\ cvHand' \in [CvNotifiers -> SUBSET CvWaiters]
      /\ \A n \in CvNotifiers : \A u \in cvHand[n] : u \in cvHand'[n] \/ u \in cvReady'
      /\ \A n \in CvNotifiers \ {t} : cvHand'[n] = cvHand[n]
      /\ cvPc'[t] # "wake" => cvHand'[t] = {}
  <2>1. CASE cvHand[t] = {}
    BY <1>1, <2>1, Zenon DEF CallWaker, CvSafe, CvTypeOK
  <2>2. CASE cvHand[t] # {}
    <3>1. PICK u \in cvHand[t] : /\ cvReady' = cvReady \cup {u}
                                 /\ cvHand' = [cvHand EXCEPT ![t] = @ \ {u}]
                                 /\ UNCHANGED cvPc
      BY <2>2, Zenon DEF CallWaker
    <3> QED BY <1>1, <3>1, Zenon DEF CvSafe, CvTypeOK
  <2> QED BY <2>1, <2>2, Zenon
<1>3. CvTypeOK'
  BY <1>1, <1>2, Zenon DEF CvSafe, CvTypeOK
<1>4. Notified' = Notified /\ t \in Notified /\ CvSleepers' = CvSleepers
  BY <1>1, Zenon DEF Notified, CvSleepers
<1>5. CvRoles'
  BY <1>1, <1>2, Zenon DEF CvSafe, CvRoles
<1>6. CvWakerKept'
  BY <1>1, <1>2, <1>4, Zenon DEF CvSafe, CvWakerKept
<1>7. NotifiesCount'
  <2> SUFFICES ASSUME cvMissed = {} PROVE NotifiesCount'
    BY <1>1, Zenon DEF NotifiesCount
  <2>1. Notified # {} /\ \A u \in CvWaiters : cvPc'[u] # "unregistered"
    BY <1>1, <1>4, Zenon DEF CvSafe, NotifiesCount
  <2>2. cvQueue = << >> \/ Len(cvQueue) + Cardinality(Notified) <= Cardinality(CvWaiters)
    BY <2>1, Zenon DEF CvSafe, NotifiesCount
  <2> QED BY <1>1, <1>4, <2>1, <2>2, Zenon DEF NotifiesCount
<1> QED BY <1>3, <1>5, <1>6, <1>7, Zenon DEF CvSafe

\* Whatever the waiters and notifiers do, the account is kept.
LEMMA CvKeeps == CvSafe /\ [CvNext]_cvVars => CvSafe'
<1> SUFFICES ASSUME CvSafe, [CvNext]_cvVars PROVE CvSafe'
  BY Zenon
<1>1. CASE UNCHANGED cvVars
  <2>1. Notified' = Notified /\ CvSleepers' = CvSleepers
    BY <1>1, Zenon DEF cvVars, Notified, CvSleepers
  <2> QED BY <1>1, <2>1, Zenon DEF cvVars, CvSafe, CvTypeOK, CvRoles, CvWakerKept, NotifiesCount
<1>2. ASSUME NEW t \in CvTasks, LockIt(t) \/ Proceed(t) \/ CvDropGuard(t) \/ SetFlag(t)
      PROVE  CvSafe'
  <2>0. cvPc \in [CvTasks -> CvPCs] /\ cvFlag \in BOOLEAN
    BY Zenon DEF CvSafe, CvTypeOK
  <2>1. UNCHANGED <<cvQueue, cvHand, cvReady, cvMissed>> /\ cvPc[t] \in {"lock", "locked"}
    BY <1>2, Zenon DEF LockIt, Proceed, CvDropGuard, SetFlag
  <2>2. cvFlag' \in BOOLEAN /\ (cvFlag => cvFlag')
    BY <1>2, <2>0, Zenon DEF LockIt, Proceed, CvDropGuard, SetFlag
  <2>3. PICK l \in {"lock", "locked", "done", "notify", "unregistered"} :
          /\ cvPc' = [cvPc EXCEPT ![t] = l]
          /\ t \in CvNotifiers => l # "done" /\ l # "unregistered"
          /\ t \in CvWaiters => l # "notify"
          /\ l = "unregistered" => ~cvFlag
          /\ l = "notify" => cvFlag'
    BY <1>2, CondvarAssumption, Zenon DEF LockIt, Proceed, CvDropGuard, SetFlag, CvGoto
  <2> QED BY <2>1, <2>2, <2>3, CvQuiet, Zenon
<1> QED BY <1>1, <1>2, CvWaits, CvNotifies, CvCalls, Zenon DEF CvNext

\* A wake-up is lost only in the gap between the drop of the guard and the registration,
\* or for want of room.
LEMMA CondvarSafe == CvSpec => []LossOnlyInGap
<1>1. CvInit => CvSafe
  <2> SUFFICES ASSUME CvInit PROVE CvSafe
    BY Zenon
  <2> USE CondvarAssumption DEF CvInit, CvTasks
  <2>1. CvTypeOK /\ CvRoles
    <3>1. cvPc \in [CvTasks -> CvPCs] /\ cvHand \in [CvNotifiers -> SUBSET CvWaiters]
      BY Zenon DEF CvPCs
    <3>2. \A t \in CvWaiters \cup CvNotifiers : cvPc[t] = "lock"
      BY Zenon
    <3>3. \A n \in CvNotifiers : cvHand[n] = {}
      BY Zenon
    <3>4. cvQueue \in Seq(CvWaiters)
      OBVIOUS
    <3>5. CvTypeOK
      BY <3>1, <3>4, Zenon DEF CvTypeOK
    <3>6. CvRoles
      BY <3>2, <3>3, Zenon DEF CvRoles
    <3> QED BY <3>5, <3>6, Zenon
  <2>2. CvSleepers = {} /\ Notified = {}
    BY Zenon DEF CvSleepers, Notified
  <2>3. Cardinality(CvSleepers) = 0
    BY <2>2, FS_EmptySet, Zenon
  <2> QED BY <2>1, <2>2, <2>3, Zenon DEF CvSafe, CvWakerKept, NotifiesCount
<1>2. CvSafe => LossOnlyInGap
  <2> SUFFICES ASSUME CvSafe, AllDelivered, cvMissed = {},
                      NEW t \in CvWaiters, cvPc[t] = "asleep"
               PROVE  FALSE
    BY Zenon DEF LossOnlyInGap
  <2> USE CondvarAssumption
  <2>1. Notified = CvNotifiers
    BY Zenon DEF Notified, AllDelivered
  <2>2. /\ Cardinality(CvWaiters) \in Nat /\ Cardinality(CvNotifiers) \in Nat
        /\ Cardinality(CvNotifiers) >= Cardinality(CvWaiters) /\ Cardinality(CvWaiters) # 0
    BY FS_CardinalityType, FS_EmptySet, Zenon DEF AllDelivered
  <2>3. Notified # {}
    <3>1. Notified = {} => Cardinality(Notified) = 0
      BY FS_EmptySet, Zenon
    <3> QED BY <2>1, <2>2, <3>1
  <2>4. cvQueue \in Seq(CvWaiters)
    BY Zenon DEF CvSafe, CvTypeOK
  <2>5. cvQueue = << >>
    <3>1. cvQueue = << >> \/ Len(cvQueue) + Cardinality(Notified) <= Cardinality(CvWaiters)
      BY <2>3, Zenon DEF CvSafe, NotifiesCount
    <3>2. Len(cvQueue) \in Nat /\ (cvQueue # << >> => Len(cvQueue) > 0)
      BY <2>4, QueueWakers, Zenon
    <3> QED BY <2>1, <2>2, <3>1, <3>2
  <2>6. WakersIn(cvQueue) = {} /\ \A n \in CvNotifiers : cvHand[n] = {}
    BY <2>5 DEF WakersIn, AllDelivered, CvSafe, CvRoles
  <2>7. t \in CvSleepers /\ t \notin cvReady
    BY Zenon DEF CvSleepers, AllDelivered
  <2> QED BY <2>6, <2>7, Zenon DEF CvSafe, CvWakerKept
<1> QED BY <1>1, <1>2, CvKeeps, PTL DEF CvSpec
-----------------------------------------------------------------------------
(* The semaphore *)

SemPCs == {"idle", "load", "cas", "register", "asleep", "held", "pop", "wake"}

SemTypeOK ==
    /\ permits \in Nat
    /\ semQueue \in Seq(SemTasks)
    /\ semPc \in [SemTasks -> SemPCs]
    /\ semCall \in [SemTasks -> Calls]
    /\ semSeen \in [SemTasks -> Nat]
    /\ semHand \in [SemTasks -> SUBSET SemTasks]
    /\ semReady \in SUBSET SemTasks
    /\ semStale \in BOOLEAN

\* A compare-exchange never starts from zero.
SeenPositive == \A t \in SemTasks : semPc[t] = "cas" => semSeen[t] > 0

\* The deque keeps one waker per task.
Once(q) == \A i, j \in 1 .. Len(q) : q[i] = q[j] => i = j
QueuedOnce == Once(semQueue)

Called(t) == t \in semReady \/ \E u \in SemTasks : semPc[u] = "wake" /\ t \in semHand[u]

\* Between its registration and the end of its wait a task is queued or called.
SemWakerKept ==
    \A t \in SemTasks :
        \/ semPc[t] = "asleep"
        \/ semPc[t] \in {"load", "cas"} /\ semCall[t] = "second"
        => HQHolds(semQueue, t) \/ Called(t)

\* Unless a waker was left behind, those queued are still in acquire.
QueuedWait ==
    ~semStale => \A t \in SemTasks : HQHolds(semQueue, t) =>
        \/ semPc[t] \in {"register", "asleep"}
        \/ semPc[t] \in {"load", "cas"} /\ semCall[t] # "try"

\* Tasks that will look at the permits, or wake one that will, and that count for
\* one permit each.
Claimants ==
    { t \in SemTasks :
        \/ semPc[t] = "pop"
        \/ /\ ~HQHolds(semQueue, t)
           /\ semPc[t] \in {"load", "cas"} \/ (semPc[t] = "asleep" /\ Called(t)) }

Sleeps(t) == semPc[t] = "asleep" /\ t \notin semReady

\* A task that lost its place in the queue, will look at the permits after it has
\* taken a new one, and stands behind all who sleep.
Late(t) ==
    \/ semPc[t] = "register" /\ ~HQHolds(semQueue, t)
    \/ /\ semPc[t] \in {"load", "cas"}
       /\ \E i \in 1 .. Len(semQueue) :
             semQueue[i] = t /\ \A j \in 1 .. Len(semQueue) : Sleeps(semQueue[j]) => j < i

\* While somebody sleeps in the queue every free permit has a claimant.
PermitsClaimed ==
    ~semStale /\ permits > 0 /\ (\E i \in 1 .. Len(semQueue) : Sleeps(semQueue[i])) =>
        permits <= Cardinality(Claimants) \/ \E t \in SemTasks : Late(t)

SemSafe ==
    /\ SemTypeOK /\ SeenPositive /\ PermitsConserved
    /\ QueuedOnce /\ SemWakerKept /\ QueuedWait /\ PermitsClaimed

\* register_waker queues a waker once, at the end.
LEMMA QueueRegister ==
    ASSUME NEW S, NEW q \in Seq(S), NEW w \in S, Once(q), NEW r, r = HQRegister(q, w)
    PROVE  /\ r \in Seq(S) /\ Once(r) /\ Len(q) \in Nat
           /\ \A u : HQHolds(r, u) <=> HQHolds(q, u) \/ u = w
<1>1. CASE HQHolds(q, w)
  BY <1>1 DEF HQRegister
<1>2. CASE ~HQHolds(q, w)
  <2>1. r = Append(q, w)
    BY <1>2, Zenon DEF HQRegister
  <2>2. /\ r \in Seq(S) /\ Len(q) \in Nat /\ Len(r) = Len(q) + 1 /\ r[Len(q) + 1] = w
        /\ \A i \in 1 .. Len(q) : r[i] = q[i]
    BY <2>1
  <2>3. \A i \in 1 .. Len(q) : q[i] # w
    BY <1>2, Zenon DEF HQHolds
  <2>4. Once(r)
    <3> SUFFICES ASSUME NEW i \in 1 .. Len(r), NEW j \in 1 .. Len(r), r[i] = r[j] PROVE i = j
      BY Zenon DEF Once
    <3>1. i \in 1 .. Len(q) \/ i = Len(q) + 1
      BY <2>2
    <3>2. j \in 1 .. Len(q) \/ j = Len(q) + 1
      BY <2>2
    <3> QED BY <2>2, <2>3, <3>1, <3>2, Zenon DEF Once
  <2>5. ASSUME NEW u PROVE HQHolds(r, u) <=> HQHolds(q, u) \/ u = w
    BY <2>2 DEF HQHolds
  <2> QED BY <1>2, <2>2, <2>4, <2>5, Zenon
<1> QED BY <1>1, <1>2, Zenon

\* wake_one takes the waker at the front out, and no other.
LEMMA QueuePop ==
    ASSUME NEW S, NEW q \in Seq(S), q # << >>, Once(q), NEW r, r = HQAfterWakeOne(q)
    PROVE  /\ r \in Seq(S) /\ Once(r) /\ Len(q) \in Nat \ {0} /\ Len(r) = Len(q) - 1
           /\ \A i \in 1 .. Len(r) : r[i] = q[i + 1]
           /\ \A u : HQHolds(r, u) <=> HQHolds(q, u) /\ u # q[1]
           /\ q[1] \in S /\ HQHolds(q, q[1])
<1>1. r = Tail(q) /\ Len(q) \in Nat \ {0}
  BY DEF HQAfterWakeOne
<1>2. /\ r \in Seq(S) /\ Len(r) = Len(q) - 1
      /\ \A i \in 1 .. Len(r) : r[i] = q[i + 1]
  BY <1>1
<1>3. 1 \in 1 .. Len(q) /\ q[1] \in S
  BY <1>1
<1>4. Once(r)
  BY <1>1, <1>2 DEF Once
<1>5. ASSUME NEW u PROVE HQHolds(r, u) <=> HQHolds(q, u) /\ u # q[1]
  <2>1. ASSUME NEW i \in 1 .. Len(r), r[i] = u PROVE HQHolds(q, u) /\ u # q[1]
    <3>1. i + 1 \in 1 .. Len(q) /\ q[i + 1] = u /\ i + 1 # 1
      BY <1>1, <1>2, <2>1
    <3> QED BY <1>3, <3>1, Zenon DEF HQHolds, Once
  <2>2. ASSUME NEW i \in 1 .. Len(q), q[i] = u, u # q[1] PROVE HQHolds(r, u)
    <3>1. i # 1
      BY <2>2, Zenon
    <3>2. i - 1 \in 1 .. Len(r) /\ (i - 1) + 1 = i
      BY <1>1, <1>2, <3>1
    <3>3. r[i - 1] = u
      BY <1>2, <2>2, <3>2, ZenonT(30)
    <3> QED BY <3>2, <3>3, Zenon DEF HQHolds
  <2> QED BY <2>1, <2>2, Zenon DEF HQHolds
<1> QED BY <1>1, <1>2, <1>3, <1>4, <1>5, ZenonT(30) DEF HQHolds

\* While the queue and the permits stay, nobody falls asleep and nobody gives up a claim,
\* the permits stay claimed.
LEMMA ClaimsStay ==
    ASSUME SemTypeOK, PermitsClaimed, permits' = permits, semQueue' = semQueue,
           semStale' = semStale,
           \A u \in SemTasks : Sleeps(u)' => Sleeps(u),
           \A u \in SemTasks : Late(u) =>
               \/ semPc'[u] = semPc[u]
               \/ semPc[u] \in {"load", "cas"} /\ semPc'[u] \in {"load", "cas"},
           Claimants \subseteq Claimants'
    PROVE  PermitsClaimed'
<1> SUFFICES ASSUME ~semStale, permits > 0,
                    NEW i \in 1 .. Len(semQueue), Sleeps(semQueue[i])'
             PROVE  permits <= Cardinality(Claimants') \/ \E t \in SemTasks : Late(t)'
  BY ZenonT(30) DEF PermitsClaimed
<1>1. \A j \in 1 .. Len(semQueue) : semQueue[j] \in SemTasks
  BY DEF SemTypeOK
<1>2. \A j \in 1 .. Len(semQueue) : Sleeps(semQueue[j])' => Sleeps(semQueue[j])
  BY <1>1, Zenon
<1>3. permits <= Cardinality(Claimants) \/ \E t \in SemTasks : Late(t)
  BY <1>2, Zenon DEF PermitsClaimed
<1>4. ASSUME NEW t \in SemTasks, Late(t) PROVE Late(t)'
  BY <1>2, <1>4, Zenon DEF Late
<1>5. Claimants' \in SUBSET SemTasks /\ Claimants \in SUBSET Claimants'
  BY Zenon DEF Claimants
<1>6. /\ Cardinality(Claimants) <= Cardinality(Claimants')
      /\ Cardinality(Claimants) \in Nat /\ Cardinality(Claimants') \in Nat
  BY <1>5, CardPart, SemaphoreAssumption, Zenon
<1> QED BY <1>3, <1>4, <1>6 DEF SemTypeOK

\* A step that leaves the permits and the queue alone is judged by what it does to the
\* one who takes it.
LEMMA SemQuiet ==
    ASSUME SemSafe, SemTypeOK', NEW t \in SemTasks,
           permits' = permits, semQueue' = semQueue, semStale' = semStale,
           \A u \in SemTasks \ {t} : /\ semPc'[u] = semPc[u] /\ semCall'[u] = semCall[u]
                                     /\ semSeen'[u] = semSeen[u] /\ (Called(u)' <=> Called(u)),
           semPc'[t] = "held" <=> semPc[t] = "held",
           semPc'[t] = "cas" => semSeen'[t] > 0,
           semPc'[t] = "asleep" \/ (semPc'[t] \in {"load", "cas"} /\ semCall'[t] = "second")
               => HQHolds(semQueue, t) \/ Called(t)',
           ~semStale /\ HQHolds(semQueue, t) =>
               \/ semPc'[t] \in {"register", "asleep"}
               \/ semPc'[t] \in {"load", "cas"} /\ semCall'[t] # "try",
           permits = 0 \/
               (/\ \A u \in SemTasks : Sleeps(u)' => Sleeps(u)
                /\ Late(t) => \/ semPc'[t] = semPc[t]
                              \/ semPc[t] \in {"load", "cas"} /\ semPc'[t] \in {"load", "cas"}
                /\ t \in Claimants => t \in Claimants')
    PROVE  SemSafe'
<1>1. SeenPositive' /\ QueuedOnce'
  BY Zenon DEF SemSafe, SeenPositive, QueuedOnce
<1>2. PermitsConserved'
  <2>1. Holders' = Holders
    BY Zenon DEF Holders
  <2> QED BY <2>1, Zenon DEF SemSafe, PermitsConserved
<1>3. SemWakerKept'
  BY Zenon DEF SemSafe, SemWakerKept
<1>4. QueuedWait'
  BY Zenon DEF SemSafe, QueuedWait
<1>5. PermitsClaimed'
  <2>1. CASE permits = 0
    BY <2>1 DEF PermitsClaimed
  <2>2. CASE permits # 0
    <3>1. Claimants \subseteq Claimants'
      <4> SUFFICES ASSUME NEW u \in Claimants, u # t PROVE u \in Claimants'
        BY <2>2, Zenon
      <4>1. u \in SemTasks \ {t}
        BY Zenon DEF Claimants
      <4> QED BY <4>1, Zenon DEF Claimants
    <3> QED BY <2>2, <3>1, ClaimsStay, Zenon DEF SemSafe
  <2> QED BY <2>1, <2>2, ZenonT(30)
<1> QED BY <1>1, <1>2, <1>3, <1>4, <1>5, ZenonT(30) DEF SemSafe

\* The calls, loads and polls.
LEMMA SemLooks ==
    ASSUME SemSafe, NEW t \in SemTasks,
           (\E call \in Calls : SemStart(t, call)) \/ Load(t)
           \/ (Take(t) /\ permits # semSeen[t]) \/ SemRepoll(t) \/ SemIdlePoll(t) \/ SemWake(t)
    PROVE  SemSafe'
<1> USE DEF SemGoto, Enter, Calls
<1>0. SemTypeOK
  BY Zenon DEF SemSafe
<1>1. CASE \E call \in Calls : SemStart(t, call)
  <2>1. /\ semPc[t] = "idle" /\ semPc'[t] = "load" /\ semCall'[t] \in {"try", "first"}
        /\ UNCHANGED <<permits, semQueue, semSeen, semHand, semReady, semStale>>
        /\ \A u \in SemTasks \ {t} : semPc'[u] = semPc[u] /\ semCall'[u] = semCall[u]
    BY <1>0, <1>1, ZenonT(30) DEF SemStart, SemTypeOK
  <2>2. SemTypeOK'
    BY <1>0, <1>1 DEF SemStart, SemTypeOK, SemPCs
  <2>3. \A u \in SemTasks : Called(u)' <=> Called(u)
    BY <2>1, Zenon DEF Called
  <2>4. \A u \in SemTasks : Sleeps(u)' => Sleeps(u)
    BY <2>1, Zenon DEF Sleeps
  <2>5. ~semStale => ~HQHolds(semQueue, t)
    BY <2>1, Zenon DEF SemSafe, QueuedWait
  <2>6. t \notin Claimants /\ ~Late(t)
    BY <2>1, Zenon DEF Claimants, Late
  <2> QED BY <2>1, <2>2, <2>3, <2>4, <2>5, <2>6, SemQuiet, ZenonT(30)
<1>2. CASE Load(t)
  <2>1. /\ semPc[t] = "load" /\ semSeen'[t] = permits
        /\ semPc'[t] = (IF permits > 0 THEN "cas"
                        ELSE CASE semCall[t] = "try" -> "idle"
                               [] semCall[t] = "first" -> "register"
                               [] semCall[t] = "second" -> "asleep")
        /\ UNCHANGED <<permits, semQueue, semCall, semHand, semReady, semStale>>
        /\ \A u \in SemTasks \ {t} : semPc'[u] = semPc[u] /\ semSeen'[u] = semSeen[u]
    BY <1>0, <1>2, Zenon DEF Load, SemTypeOK
  <2>2. SemTypeOK'
    BY <1>0, <1>2, Zenon DEF Load, SemTypeOK, SemPCs
  <2>3. semPc'[t] # "wake" /\ semPc'[t] # "held" /\ permits \in Nat /\ semCall[t] \in Calls
    BY <1>0, <2>1, Zenon DEF SemTypeOK
  <2>4. \A u \in SemTasks : Called(u)' <=> Called(u)
    BY <2>1, <2>3, Zenon DEF Called
  <2>5. semPc'[t] = "cas" => semSeen'[t] > 0
    BY <2>1, <2>3, Zenon
  <2>6. semPc'[t] = "asleep" \/ (semPc'[t] \in {"load", "cas"} /\ semCall'[t] = "second")
          => HQHolds(semQueue, t) \/ Called(t)'
    <3>1. semPc'[t] = "asleep" => semCall[t] = "second"
      BY <2>1, <2>3, Zenon
    <3>2. semCall[t] = "second" => HQHolds(semQueue, t) \/ Called(t)
      BY <2>1, Zenon DEF SemSafe, SemWakerKept
    <3> QED BY <2>1, <2>4, <3>1, <3>2, ZenonT(30)
  <2>7. ~semStale /\ HQHolds(semQueue, t) =>
               \/ semPc'[t] \in {"register", "asleep"}
               \/ semPc'[t] \in {"load", "cas"} /\ semCall'[t] # "try"
    <3>1. ~semStale /\ HQHolds(semQueue, t) => semCall[t] # "try"
      BY <2>1, Zenon DEF SemSafe, QueuedWait
    <3> QED BY <2>1, <2>3, <3>1, Zenon
  <2>8. permits # 0 => semPc'[t] = "cas"
    <3>1. permits \in Nat
      BY <2>3, Zenon
    <3>2. permits # 0 => permits > 0
      BY <3>1
    <3>3. ASSUME permits > 0 PROVE semPc'[t] = "cas"
      BY <2>1, <3>3, Zenon
    <3> QED BY <3>2, <3>3, Zenon
  <2>9. permits # 0 => /\ \A u \in SemTasks : Sleeps(u)' => Sleeps(u)
                       /\ t \in Claimants => t \in Claimants'
    BY <2>1, <2>8, Zenon DEF Sleeps, Claimants
  <2> QED BY <2>1, <2>2, <2>3, <2>4, <2>5, <2>6, <2>7, <2>8, <2>9, SemQuiet, ZenonT(30)
<1>3. CASE Take(t) /\ permits # semSeen[t]
  <2>1. /\ semPc[t] = "cas" /\ semPc'[t] = "load"
        /\ UNCHANGED <<permits, semQueue, semCall, semHand, semReady, semStale>>
        /\ \A u \in SemTasks \ {t} : semPc'[u] = semPc[u] /\ semSeen'[u] = semSeen[u]
    BY <1>0, <1>3, Zenon DEF Take, SemTypeOK
  <2>2. SemTypeOK'
    BY <1>0, <1>3, Zenon DEF Take, SemTypeOK, SemPCs
  <2>3. \A u \in SemTasks : Called(u)' <=> Called(u)
    BY <2>1, Zenon DEF Called
  <2>4. \A u \in SemTasks : Sleeps(u)' => Sleeps(u)
    BY <2>1, Zenon DEF Sleeps
  <2>5. semCall[t] = "second" => HQHolds(semQueue, t) \/ Called(t)
    BY <2>1, Zenon DEF SemSafe, SemWakerKept
  <2>6. ~semStale /\ HQHolds(semQueue, t) => semCall[t] # "try"
    BY <2>1, Zenon DEF SemSafe, QueuedWait
  <2>7. t \in Claimants => t \in Claimants'
    BY <2>1, Zenon DEF Claimants
  <2> QED BY <2>1, <2>2, <2>3, <2>4, <2>5, <2>6, <2>7, SemQuiet, ZenonT(30)
<1>4. CASE SemRepoll(t)
  <2>1. /\ semPc[t] = "asleep" /\ t \in semReady /\ semPc'[t] = "load" /\ semCall'[t] = "first"
        /\ semReady' = semReady \ {t}
        /\ UNCHANGED <<permits, semQueue, semSeen, semHand, semStale>>
        /\ \A u \in SemTasks \ {t} : semPc'[u] = semPc[u] /\ semCall'[u] = semCall[u]
    BY <1>0, <1>4, Zenon DEF SemRepoll, SemTypeOK
  <2>2. SemTypeOK'
    BY <1>0, <1>4, Zenon DEF SemRepoll, SemTypeOK, SemPCs
  <2>3. \A u \in SemTasks \ {t} : Called(u)' <=> Called(u)
    BY <2>1, Zenon DEF Called
  <2>4. \A u \in SemTasks : Sleeps(u)' => Sleeps(u)
    BY <2>1, Zenon DEF Sleeps
  <2>5. ~Late(t) /\ (t \in Claimants => t \in Claimants')
    BY <2>1, Zenon DEF Late, Claimants
  <2> QED BY <2>1, <2>2, <2>3, <2>4, <2>5, SemQuiet, ZenonT(30)
<1>5. CASE SemIdlePoll(t)
  <2>1. /\ semPc[t] \in {"idle", "held"} /\ semReady' = semReady \ {t}
        /\ UNCHANGED <<permits, semQueue, semPc, semCall, semSeen, semHand, semStale>>
    BY <1>5, Zenon DEF SemIdlePoll
  <2>2. SemTypeOK'
    BY <1>0, <2>1, Zenon DEF SemTypeOK
  <2>3. \A u \in SemTasks \ {t} : Called(u)' <=> Called(u)
    BY <2>1, Zenon DEF Called
  <2>4. \A u \in SemTasks : Sleeps(u)' => Sleeps(u)
    BY <2>1, Zenon DEF Sleeps
  <2>5. ~semStale => ~HQHolds(semQueue, t)
    BY <2>1, Zenon DEF SemSafe, QueuedWait
  <2>6. t \notin Claimants
    BY <2>1, Zenon DEF Claimants
  <2> QED BY <2>1, <2>2, <2>3, <2>4, <2>5, <2>6, SemQuiet, ZenonT(30)
<1>6. CASE SemWake(t)
  <2>1. /\ semPc[t] = "wake" /\ semPc'[t] = "idle"
        /\ semReady' = semReady \cup semHand[t] /\ semHand'[t] = {}
        /\ UNCHANGED <<permits, semQueue, semCall, semSeen, semStale>>
        /\ \A u \in SemTasks \ {t} : semPc'[u] = semPc[u] /\ semHand'[u] = semHand[u]
    BY <1>0, <1>6, Zenon DEF SemWake, SemTypeOK
  <2>2. SemTypeOK'
    BY <1>0, <1>6, Zenon DEF SemWake, SemTypeOK, SemPCs
  <2>3. \A u \in SemTasks : Called(u)' <=> Called(u)
    BY <2>1, Zenon DEF Called
  <2>4. \A u \in SemTasks : Sleeps(u)' => Sleeps(u)
    BY <2>1, Zenon DEF Sleeps
  <2>5. ~semStale => ~HQHolds(semQueue, t)
    BY <2>1, Zenon DEF SemSafe, QueuedWait
  <2>6. t \notin Claimants /\ ~Late(t)
    BY <2>1, Zenon DEF Claimants, Late
  <2> QED BY <2>1, <2>2, <2>3, <2>4, <2>5, <2>6, SemQuiet, ZenonT(30)
<1> QED BY <1>1, <1>2, <1>3, <1>4, <1>5, <1>6, ZenonT(30)

\* A permit is taken: its claimant gives up the claim, or leaves a waker behind.
LEMMA SemTakes ==
    ASSUME SemSafe, NEW t \in SemTasks, Take(t), permits = semSeen[t]
    PROVE  SemSafe'
<1> USE SemaphoreAssumption DEF SemGoto
<1>0. SemTypeOK /\ semSeen[t] > 0 /\ semPc[t] = "cas"
  BY Zenon DEF SemSafe, SeenPositive, Take
<1>1. /\ semPc'[t] = "held" /\ permits' = permits - 1
      /\ semStale' = (semStale \/ HQHolds(semQueue, t))
      /\ UNCHANGED <<semQueue, semCall, semHand, semReady>>
      /\ \A u \in SemTasks \ {t} : semPc'[u] = semPc[u] /\ semSeen'[u] = semSeen[u]
  BY <1>0, ZenonT(30) DEF Take, SemTypeOK
<1>2. permits \in Nat /\ permits > 0 /\ permits' \in Nat
  BY <1>0, <1>1 DEF SemTypeOK
<1>3. SemTypeOK'
  <2>1. semPc' \in [SemTasks -> SemPCs] /\ semSeen' \in [SemTasks -> Nat]
    BY <1>0, Zenon DEF Take, SemTypeOK, SemPCs
  <2>2. semStale' \in BOOLEAN
    BY <1>1, Zenon
  <2> QED BY <1>0, <1>1, <1>2, <2>1, <2>2, ZenonT(30) DEF SemTypeOK
<1>4. SeenPositive' /\ QueuedOnce'
  BY <1>1, ZenonT(30) DEF SemSafe, SeenPositive, QueuedOnce
<1>5. PermitsConserved'
  <2>1. Holders \in SUBSET SemTasks /\ t \notin Holders /\ Holders' = Holders \cup {t}
    BY <1>0, <1>1, Zenon DEF Holders
  <2>2. Cardinality(Holders') = Cardinality(Holders) + 1 /\ Cardinality(Holders) \in Nat
    BY <2>1, CardPart, CardChange, Zenon
  <2>3. permits + Cardinality(Holders) = Permits
    BY Zenon DEF SemSafe, PermitsConserved
  <2> QED BY <1>1, <1>2, <2>2, <2>3 DEF PermitsConserved
<1>6. \A u \in SemTasks : Called(u)' <=> Called(u)
  BY <1>0, <1>1, Zenon DEF Called
<1>7. SemWakerKept'
  BY <1>1, <1>6, Zenon DEF SemSafe, SemWakerKept
<1>8. QueuedWait'
  BY <1>1, ZenonT(30) DEF SemSafe, QueuedWait
<1>9. PermitsClaimed'
  <2> SUFFICES ASSUME ~semStale', permits' > 0,
                      NEW i \in 1 .. Len(semQueue), Sleeps(semQueue[i])'
               PROVE  permits' <= Cardinality(Claimants') \/ \E u \in SemTasks : Late(u)'
    BY <1>1, Zenon DEF PermitsClaimed
  <2>1. ~semStale /\ ~HQHolds(semQueue, t)
    BY <1>1, Zenon
  <2>2. \A u \in SemTasks : Sleeps(u)' <=> Sleeps(u)
    BY <1>0, <1>1, Zenon DEF Sleeps
  <2>3. \A j \in 1 .. Len(semQueue) : semQueue[j] \in SemTasks
    BY <1>0 DEF SemTypeOK
  <2>4. \A j \in 1 .. Len(semQueue) : Sleeps(semQueue[j])' <=> Sleeps(semQueue[j])
    BY <1>1, <2>2, <2>3, Zenon
  <2>5. permits <= Cardinality(Claimants) \/ \E u \in SemTasks : Late(u)
    BY <1>2, <2>1, <2>4, Zenon DEF SemSafe, PermitsClaimed
  <2>6. ASSUME NEW u \in SemTasks, Late(u) PROVE Late(u)'
    <3>1. u # t
      BY <1>0, <2>1, <2>6, Zenon DEF Late, HQHolds
    <3> QED BY <1>1, <2>4, <2>6, <3>1, ZenonT(30) DEF Late
  <2>7. t \in Claimants /\ Claimants \in SUBSET SemTasks
    BY <1>0, <2>1, Zenon DEF Claimants
  <2>8. Claimants' = Claimants \ {t}
    <3>1. t \notin Claimants'
      BY <1>1, Zenon DEF Claimants
    <3>2. \A u \in SemTasks \ {t} : u \in Claimants' <=> u \in Claimants
      BY <1>1, <1>6, Zenon DEF Claimants
    <3>3. Claimants' \in SUBSET SemTasks
      BY Zenon DEF Claimants
    <3> QED BY <2>7, <3>1, <3>2, <3>3, ZenonT(30)
  <2>9. Cardinality(Claimants') = Cardinality(Claimants) - 1 /\ Cardinality(Claimants) \in Nat
    BY <2>7, <2>8, CardPart, CardChange, Zenon
  <2> QED BY <1>1, <1>2, <2>5, <2>6, <2>9, SMTT(30)
<1> QED BY <1>3, <1>4, <1>5, <1>7, <1>8, <1>9, ZenonT(30) DEF SemSafe

\* A permit is given back: whoever gives it claims it until it has woken somebody.
LEMMA SemReleases ==
    ASSUME SemSafe, NEW t \in SemTasks, Release(t)
    PROVE  SemSafe'
<1> USE SemaphoreAssumption DEF SemGoto
<1>0. SemTypeOK /\ semPc[t] = "held" /\ permits \in Nat
  BY Zenon DEF SemSafe, Release, SemTypeOK
<1>1. /\ semPc'[t] = "pop" /\ permits' = permits + 1
      /\ UNCHANGED <<semQueue, semCall, semSeen, semHand, semReady, semStale>>
      /\ \A u \in SemTasks \ {t} : semPc'[u] = semPc[u]
  BY <1>0, Zenon DEF Release, SemTypeOK
<1>2. SemTypeOK'
  BY <1>0 DEF Release, SemTypeOK, SemPCs
<1>3. SeenPositive' /\ QueuedOnce'
  BY <1>1, Zenon DEF SemSafe, SeenPositive, QueuedOnce
<1>4. PermitsConserved'
  <2>1. Holders \in SUBSET SemTasks /\ t \in Holders /\ Holders' = Holders \ {t}
    BY <1>0, <1>1, Zenon DEF Holders
  <2>2. Cardinality(Holders') = Cardinality(Holders) - 1 /\ Cardinality(Holders) \in Nat
    BY <2>1, CardPart, CardChange, Zenon
  <2>3. permits + Cardinality(Holders) = Permits
    BY Zenon DEF SemSafe, PermitsConserved
  <2> QED BY <1>0, <1>1, <2>2, <2>3 DEF PermitsConserved
<1>5. \A u \in SemTasks : Called(u)' <=> Called(u)
  BY <1>0, <1>1, Zenon DEF Called
<1>6. SemWakerKept'
  BY <1>1, <1>5, Zenon DEF SemSafe, SemWakerKept
<1>7. QueuedWait'
  <2>1. ~semStale => ~HQHolds(semQueue, t)
    BY <1>0, ZenonT(30) DEF SemSafe, QueuedWait
  <2> QED BY <1>1, <2>1, Zenon DEF SemSafe, QueuedWait
<1>8. PermitsClaimed'
  <2> SUFFICES ASSUME ~semStale, NEW i \in 1 .. Len(semQueue), Sleeps(semQueue[i])'
               PROVE  permits' <= Cardinality(Claimants') \/ \E u \in SemTasks : Late(u)'
    BY <1>1, Zenon DEF PermitsClaimed
  <2>1. \A u \in SemTasks : Sleeps(u)' <=> Sleeps(u)
    BY <1>0, <1>1, ZenonT(30) DEF Sleeps
  <2>2. \A j \in 1 .. Len(semQueue) : semQueue[j] \in SemTasks
    BY <1>0 DEF SemTypeOK
  <2>3. \A j \in 1 .. Len(semQueue) : Sleeps(semQueue[j])' <=> Sleeps(semQueue[j])
    BY <1>1, <2>1, <2>2, Zenon
  <2>4. permits = 0 \/ permits <= Cardinality(Claimants) \/ \E u \in SemTasks : Late(u)
    <3>1. permits # 0 => permits > 0
      BY <1>0
    <3> QED BY <2>3, <3>1, Zenon DEF SemSafe, PermitsClaimed
  <2>5. ASSUME NEW u \in SemTasks, Late(u) PROVE Late(u)'
    BY <1>0, <1>1, <2>3, <2>5, Zenon DEF Late
  <2>6. /\ t \notin Claimants /\ Claimants \in SUBSET SemTasks
        /\ Claimants' = Claimants \cup {t}
    <3>1. t \in Claimants' /\ t \notin Claimants
      BY <1>0, <1>1, Zenon DEF Claimants
    <3>2. \A u \in SemTasks \ {t} : u \in Claimants' <=> u \in Claimants
      BY <1>1, <1>5, Zenon DEF Claimants
    <3>3. Claimants \in SUBSET SemTasks /\ Claimants' \in SUBSET SemTasks
      BY Zenon DEF Claimants
    <3> QED BY <3>1, <3>2, <3>3, Zenon
  <2>7. Cardinality(Claimants') = Cardinality(Claimants) + 1 /\ Cardinality(Claimants) \in Nat
    BY <2>6, CardPart, CardChange, Zenon
  <2> QED BY <1>0, <1>1, <2>4, <2>5, <2>7, SMTT(30)
<1> QED BY <1>2, <1>3, <1>4, <1>6, <1>7, <1>8, ZenonT(30) DEF SemSafe

\* Whoever registers stands behind all who sleep already, and looks again.
LEMMA SemRegisters ==
    ASSUME SemSafe, NEW t \in SemTasks, SemRegister(t)
    PROVE  SemSafe'
<1> USE DEF SemGoto, Enter
<1>0. SemTypeOK /\ semPc[t] = "register" /\ semQueue \in Seq(SemTasks)
  BY Zenon DEF SemSafe, SemRegister, SemTypeOK
<1>1. /\ semPc'[t] = "load" /\ semCall'[t] = "second"
      /\ UNCHANGED <<permits, semSeen, semHand, semReady, semStale>>
      /\ \A u \in SemTasks \ {t} : semPc'[u] = semPc[u] /\ semCall'[u] = semCall[u]
      /\ semQueue' = HQRegister(semQueue, t)
  BY <1>0, Zenon DEF SemRegister, SemTypeOK
<1>2. /\ semQueue' \in Seq(SemTasks) /\ Once(semQueue') /\ Len(semQueue) \in Nat
      /\ \A u : HQHolds(semQueue', u) <=> HQHolds(semQueue, u) \/ u = t
      /\ HQHolds(semQueue, t) => semQueue' = semQueue
      /\ ~HQHolds(semQueue, t) =>
           /\ Len(semQueue') = Len(semQueue) + 1 /\ semQueue'[Len(semQueue) + 1] = t
           /\ \A i \in 1 .. Len(semQueue) : semQueue'[i] = semQueue[i]
  <2>1. Once(semQueue)
    BY Zenon DEF SemSafe, QueuedOnce
  <2>2. semQueue' \in Seq(SemTasks) /\ Once(semQueue') /\ Len(semQueue) \in Nat
    BY <1>0, <1>1, <2>1, QueueRegister, ZenonT(30)
  <2>3. \A u : HQHolds(semQueue', u) <=> HQHolds(semQueue, u) \/ u = t
    BY <1>0, <1>1, <2>1, QueueRegister
  <2>4. HQHolds(semQueue, t) => semQueue' = semQueue
    BY <1>1, ZenonT(30) DEF HQRegister
  <2>5. ~HQHolds(semQueue, t) =>
           /\ Len(semQueue') = Len(semQueue) + 1 /\ semQueue'[Len(semQueue) + 1] = t
           /\ \A i \in 1 .. Len(semQueue) : semQueue'[i] = semQueue[i]
    <3> SUFFICES ASSUME ~HQHolds(semQueue, t)
                 PROVE  /\ Len(semQueue') = Len(semQueue) + 1 /\ semQueue'[Len(semQueue) + 1] = t
                        /\ \A i \in 1 .. Len(semQueue) : semQueue'[i] = semQueue[i]
      BY Zenon
    <3>1. semQueue' = Append(semQueue, t)
      BY <1>1, Zenon DEF HQRegister
    <3> QED BY <1>0, <3>1
  <2> QED BY <2>2, <2>3, <2>4, <2>5, ZenonT(30)
<1>3. SemTypeOK'
  <2>1. semPc' \in [SemTasks -> SemPCs] /\ semCall' \in [SemTasks -> Calls]
    BY <1>0, Zenon DEF SemRegister, SemTypeOK, SemPCs, Calls
  <2> QED BY <1>0, <1>1, <1>2, <2>1, ZenonT(30) DEF SemTypeOK
<1>4. \A u \in SemTasks : Called(u)' <=> Called(u)
  BY <1>0, <1>1, Zenon DEF Called
<1>5. \A u \in SemTasks : Sleeps(u)' <=> Sleeps(u)
  BY <1>0, <1>1, Zenon DEF Sleeps
<1>6. CASE HQHolds(semQueue, t)
  <2>1. semQueue' = semQueue /\ t \notin Claimants
    BY <1>0, <1>2, <1>6, Zenon DEF Claimants
  <2>2. ~Late(t)
    BY <1>0, <1>6, Zenon DEF Late
  <2> QED BY <1>0, <1>1, <1>3, <1>4, <1>5, <1>6, <2>1, <2>2, SemQuiet, ZenonT(30)
<1>7. CASE ~HQHolds(semQueue, t)
  <2>1. SeenPositive' /\ QueuedOnce'
    BY <1>1, <1>2, Zenon DEF SemSafe, SeenPositive, QueuedOnce
  <2>2. PermitsConserved'
    <3>1. Holders' = Holders
      BY <1>0, <1>1, Zenon DEF Holders
    <3> QED BY <1>1, <3>1, Zenon DEF SemSafe, PermitsConserved
  <2>3. SemWakerKept'
    BY <1>1, <1>2, <1>4, Zenon DEF SemSafe, SemWakerKept
  <2>4. QueuedWait'
    BY <1>1, <1>2, Zenon DEF SemSafe, QueuedWait
  <2>5. Late(t)'
    <3>1. ~Sleeps(t)'
      BY <1>1, ZenonT(30) DEF Sleeps
    <3>2. Len(semQueue) + 1 \in 1 .. Len(semQueue')
      BY <1>2, <1>7, SMTT(30)
    <3>3. \A j \in 1 .. Len(semQueue') : Sleeps(semQueue[j])' => j < Len(semQueue) + 1
      BY <1>2, <1>7, <3>1
    <3> QED BY <1>1, <1>2, <1>7, <3>2, <3>3, ZenonT(30) DEF Late
  <2>6. PermitsClaimed'
    BY <2>5, Zenon DEF PermitsClaimed
  <2> QED BY <1>3, <2>1, <2>2, <2>3, <2>4, <2>6, ZenonT(30) DEF SemSafe
<1> QED BY <1>6, <1>7, Zenon

\* wake_one takes the front waker out: its task has the claim now, or will look again
\* once it has registered anew.
LEMMA SemPops ==
    ASSUME SemSafe, NEW t \in SemTasks, PopWaker(t)
    PROVE  SemSafe'
<1> USE SemaphoreAssumption DEF SemGoto
<1>0. SemTypeOK /\ semPc[t] = "pop" /\ semQueue \in Seq(SemTasks) /\ Once(semQueue)
  BY Zenon DEF SemSafe, PopWaker, SemTypeOK, QueuedOnce
<1>1. /\ semPc'[t] \in {"idle", "wake"}
      /\ UNCHANGED <<permits, semCall, semSeen, semReady, semStale>>
      /\ \A u \in SemTasks \ {t} : semPc'[u] = semPc[u] /\ semHand'[u] = semHand[u]
      /\ semQueue' = HQAfterWakeOne(semQueue)
  BY <1>0, Zenon DEF PopWaker, SemTypeOK
<1>2. SeenPositive'
  BY <1>1, Zenon DEF SemSafe, SeenPositive
<1>3. PermitsConserved'
  <2>1. Holders' = Holders
    BY <1>0, <1>1, Zenon DEF Holders
  <2> QED BY <1>1, <2>1, Zenon DEF SemSafe, PermitsConserved
<1>4. ~semStale => ~HQHolds(semQueue, t)
  BY <1>0, Zenon DEF SemSafe, QueuedWait
<1>5. CASE semQueue = << >>
  <2>1. semQueue' = semQueue /\ semPc'[t] = "idle" /\ semHand' = semHand
    BY <1>0, <1>1, <1>5, Zenon DEF HQAfterWakeOne, PopWaker, SemTypeOK
  <2>2. SemTypeOK'
    BY <1>0, <1>1, <1>5, <2>1, ZenonT(30) DEF PopWaker, SemTypeOK, SemPCs
  <2>3. \A u \in SemTasks : Called(u)' <=> Called(u)
    BY <1>0, <1>1, <2>1, Zenon DEF Called
  <2>4. SemWakerKept'
    BY <1>1, <2>1, <2>3, Zenon DEF SemSafe, SemWakerKept
  <2>5. QueuedWait'
    BY <1>1, <1>4, <2>1, ZenonT(30) DEF SemSafe, QueuedWait
  <2>6. PermitsClaimed'
    BY <1>5, <2>1 DEF PermitsClaimed
  <2> QED BY <1>2, <1>3, <2>1, <2>2, <2>4, <2>5, <2>6, ZenonT(30) DEF SemSafe, QueuedOnce
<1>6. CASE semQueue # << >>
  <2>0. semQueue[1] \in SemTasks /\ HQHolds(semQueue, semQueue[1])
    BY <1>0, <1>6, QueuePop, Zenon
  <2>b. PICK h \in SemTasks : h = semQueue[1]
    BY <2>0, Zenon
  <2>1. /\ semQueue' \in Seq(SemTasks) /\ Once(semQueue')
        /\ Len(semQueue) \in Nat \ {0} /\ Len(semQueue') = Len(semQueue) - 1
    BY <1>0, <1>1, <1>6, QueuePop, ZenonT(30)
  <2>2. \A i \in 1 .. Len(semQueue') : semQueue'[i] = semQueue[i + 1]
    BY <1>0, <1>1, <1>6, QueuePop, SMTT(30)
  <2>3. \A u : HQHolds(semQueue', u) <=> HQHolds(semQueue, u) /\ u # h
    BY <1>0, <1>1, <1>6, <2>b, QueuePop, SMTT(30)
  <2>4. h \in SemTasks /\ HQHolds(semQueue, h)
    BY <2>0, <2>b, Zenon
  <2>5. semPc'[t] = "wake" /\ semHand'[t] = {h}
    BY <1>0, <1>6, <2>b, Zenon DEF PopWaker, SemTypeOK
  <2>6. SemTypeOK'
    <3>1. semPc' \in [SemTasks -> SemPCs]
      BY <1>0, ZenonT(30) DEF PopWaker, SemTypeOK, SemPCs
    <3>2. semHand' \in [SemTasks -> SUBSET SemTasks]
      BY <1>0, <1>6, <2>0 DEF PopWaker, SemTypeOK
    <3> QED BY <1>0, <1>1, <2>1, <3>1, <3>2, ZenonT(30) DEF SemTypeOK
  <2>7. Called(h)' /\ \A u \in SemTasks : Called(u) => Called(u)'
    BY <1>0, <1>1, <2>5, Zenon DEF Called
  <2>8. SemWakerKept'
    BY <1>1, <2>3, <2>5, <2>7, ZenonT(30) DEF SemSafe, SemWakerKept
  <2>9. QueuedWait'
    BY <1>1, <1>4, <2>3, Zenon DEF SemSafe, QueuedWait
  <2>10. PermitsClaimed'
    <3> SUFFICES ASSUME ~semStale, permits > 0,
                        NEW k \in 1 .. Len(semQueue'), Sleeps(semQueue[k])'
                 PROVE  permits <= Cardinality(Claimants') \/ \E u \in SemTasks : Late(u)'
      BY <1>1, Zenon DEF PermitsClaimed
    <3>1. \A u \in SemTasks : Sleeps(u)' <=> Sleeps(u)
      BY <1>0, <1>1, ZenonT(30) DEF Sleeps
    <3>2. \A j \in 1 .. Len(semQueue') : /\ semQueue'[j] = semQueue[j + 1]
                                         /\ j + 1 \in 1 .. Len(semQueue)
                                         /\ semQueue[j + 1] \in SemTasks
      BY <1>0, <2>1, <2>2, SMTT(30)
    <3>3. \A j \in 1 .. Len(semQueue') : Sleeps(semQueue[j])' <=> Sleeps(semQueue[j + 1])
      BY <3>1, <3>2, Zenon
    <3>4. k + 1 \in 1 .. Len(semQueue) /\ Sleeps(semQueue[k + 1])
      BY <3>2, <3>3, Zenon
    <3>5. permits <= Cardinality(Claimants) \/ \E u \in SemTasks : Late(u)
      BY <3>4, Zenon DEF SemSafe, PermitsClaimed
    <3>6. ASSUME NEW u \in SemTasks, Late(u) PROVE Late(u)'
      <4>1. u # t
        BY <1>0, <3>6, Zenon DEF Late
      <4>2. CASE semPc[u] = "register" /\ ~HQHolds(semQueue, u)
        BY <1>1, <2>3, <4>1, <4>2, ZenonT(30) DEF Late
      <4>3. CASE ~(semPc[u] = "register" /\ ~HQHolds(semQueue, u))
        <5>1. semPc[u] \in {"load", "cas"}
          BY <3>6, <4>3, Zenon DEF Late
        <5>2. PICK i \in 1 .. Len(semQueue) :
                 semQueue[i] = u /\ \A j \in 1 .. Len(semQueue) : Sleeps(semQueue[j]) => j < i
          BY <3>6, <4>3, Zenon DEF Late
        <5>3. k + 1 < i
          BY <3>4, <5>2, Zenon
        <5>4. i - 1 \in 1 .. Len(semQueue') /\ (i - 1) + 1 = i
          BY <2>1, <5>2, <5>3
        <5>5. semQueue'[i - 1] = u
          BY <3>2, <5>2, <5>4, ZenonT(30)
        <5>6. \A j \in 1 .. Len(semQueue') : Sleeps(semQueue[j])' => j < i - 1
          <6> SUFFICES ASSUME NEW j \in 1 .. Len(semQueue'), Sleeps(semQueue[j])' PROVE j < i - 1
            BY Zenon
          <6>1. j + 1 \in 1 .. Len(semQueue) /\ Sleeps(semQueue[j + 1])
            BY <3>2, <3>3, Zenon
          <6>2. j + 1 < i
            BY <5>2, <6>1, Zenon
          <6> QED BY <2>1, <6>2
        <5> QED BY <1>1, <4>1, <5>1, <5>4, <5>5, <5>6, ZenonT(30) DEF Late
      <4> QED BY <4>2, <4>3, Zenon
    <3>7. CASE semPc[h] = "register"
      <4>1. h # t
        BY <1>0, <3>7, Zenon
      <4>2. Late(h)'
        BY <1>1, <2>3, <2>4, <3>7, <4>1, ZenonT(30) DEF Late
      <4> QED BY <2>4, <4>2, Zenon
    <3>8. CASE semPc[h] # "register"
      <4>1. semPc[h] \in {"asleep", "load", "cas"} /\ h # t
        BY <1>0, <2>4, <3>8, ZenonT(30) DEF SemSafe, QueuedWait
      <4>2. t \in Claimants /\ h \notin Claimants /\ Claimants \in SUBSET SemTasks
        BY <1>0, <2>4, <4>1, Zenon DEF Claimants
      <4>3. h \in Claimants'
        BY <1>1, <2>3, <2>4, <2>7, <4>1, ZenonT(30) DEF Claimants
      <4>4. \A u \in Claimants \ {t} : u \in Claimants'
        <5> SUFFICES ASSUME NEW u \in Claimants, u # t PROVE u \in Claimants'
          BY Zenon
        <5>1. u \in SemTasks \ {t} /\ ~(semPc[u] \in {"register"})
          BY <4>2, Zenon DEF Claimants
        <5> QED BY <1>1, <2>3, <2>7, <5>1, ZenonT(30) DEF Claimants
      <4> DEFINE D == Claimants \ {t}
      <4>5. D \in SUBSET SemTasks /\ h \notin D /\ D \cup {h} \in SUBSET Claimants'
        BY <4>2, <4>3, <4>4, ZenonT(30)
      <4>6. Cardinality(D) = Cardinality(Claimants) - 1 /\ Cardinality(Claimants) \in Nat
        BY <4>2, CardPart, CardChange, ZenonT(30)
      <4> HIDE DEF D
      <4>7. Cardinality(D \cup {h}) = Cardinality(D) + 1
        BY <2>4, <4>5, CardChange, ZenonT(30)
      <4>8. Claimants' \in SUBSET SemTasks
        BY Zenon DEF Claimants
      <4>9. Cardinality(D \cup {h}) <= Cardinality(Claimants') /\ Cardinality(Claimants') \in Nat
        <5>1. IsFiniteSet(Claimants')
          BY <4>8, CardPart, Zenon
        <5> QED BY <4>5, <5>1, CardPart, ZenonT(30)
      <4> QED BY <3>5, <3>6, <4>6, <4>7, <4>9, SMTT(30) DEF SemSafe, SemTypeOK
    <3> QED BY <3>7, <3>8, Zenon
  <2> QED BY <1>2, <1>3, <2>1, <2>6, <2>8, <2>9, <2>10, ZenonT(30) DEF SemSafe, QueuedOnce
<1> QED BY <1>5, <1>6, Zenon

\* Every step of the semaphore keeps its permits accounted for.
LEMMA SemKeeps == SemSafe /\ [SemNext]_semVars => SemSafe'
<1> SUFFICES ASSUME SemSafe, [SemNext]_semVars PROVE SemSafe'
  BY Zenon
<1>1. CASE UNCHANGED semVars
  <2>1. Holders' = Holders /\ Claimants' = Claimants
    BY <1>1, Zenon DEF semVars, Holders, Claimants, Called
  <2>2. \A u \in SemTasks : Called(u)' <=> Called(u)
    BY <1>1, Zenon DEF semVars, Called
  <2>3. SemTypeOK' /\ SeenPositive' /\ QueuedOnce'
    BY <1>1, Zenon DEF semVars, SemSafe, SemTypeOK, SeenPositive, QueuedOnce
  <2>4. PermitsConserved'
    BY <1>1, <2>1, Zenon DEF semVars, SemSafe, PermitsConserved
  <2>5. SemWakerKept' /\ QueuedWait'
    BY <1>1, <2>2, Zenon DEF semVars, SemSafe, SemWakerKept, QueuedWait
  <2>6. \A u \in SemTasks : Sleeps(u)' => Sleeps(u)
    BY <1>1, Zenon DEF semVars, Sleeps
  <2>7. PermitsClaimed'
    BY <1>1, <2>1, <2>6, ClaimsStay, ZenonT(30) DEF semVars, SemSafe
  <2> QED BY <2>3, <2>4, <2>5, <2>7, ZenonT(30) DEF SemSafe
<1>2. ASSUME NEW t \in SemTasks, SemStep(t) PROVE SemSafe'
  BY <1>2, SemLooks, SemTakes, SemRegisters, SemReleases, SemPops, ZenonT(30) DEF SemStep
<1> QED BY <1>1, <1>2, Zenon DEF SemNext

\* Permits are neither lost nor made, and nobody sleeps on a free one, unless an acquired
\* permit left its waker queued.
LEMMA SemaphoreSafe == SemSpec => [](PermitsConserved /\ PermitReachesSleeper)
<1>1. SemInit => SemSafe
  <2> SUFFICES ASSUME SemInit PROVE SemSafe
    BY Zenon
  <2> USE SemaphoreAssumption DEF SemInit
  <2>1. SemTypeOK
    <3>1. /\ semPc \in [SemTasks -> SemPCs] /\ semCall \in [SemTasks -> Calls]
          /\ semSeen \in [SemTasks -> Nat] /\ semHand \in [SemTasks -> SUBSET SemTasks]
      BY Zenon DEF SemPCs, Calls
    <3>2. semQueue \in Seq(SemTasks) /\ permits \in Nat
      OBVIOUS
    <3> QED BY <3>1, <3>2, Zenon DEF SemTypeOK
  <2>2. Holders = {}
    BY Zenon DEF Holders
  <2>3. Cardinality(Holders) = 0
    BY <2>2, FS_EmptySet, ZenonT(30)
  <2>4. SeenPositive /\ QueuedOnce /\ SemWakerKept /\ QueuedWait
    BY DEF SeenPositive, QueuedOnce, Once, SemWakerKept, QueuedWait, HQHolds
  <2>5. PermitsClaimed
    BY DEF PermitsClaimed
  <2> QED BY <2>1, <2>3, <2>4, <2>5, SMTT(30) DEF SemSafe, PermitsConserved
<1>2. SemSafe => PermitsConserved /\ PermitReachesSleeper
  <2> SUFFICES ASSUME SemSafe, AtRest, permits > 0, ~semStale, NEW t \in SemTasks,
                      semPc[t] = "asleep"
               PROVE  FALSE
    BY Zenon DEF SemSafe, PermitReachesSleeper
  <2>1. \A u \in SemTasks : /\ semPc[u] \in {"idle", "held", "asleep"}
                            /\ semPc[u] = "asleep" => u \notin semReady
    BY Zenon DEF AtRest
  <2>2. \A u \in SemTasks : semPc[u] = "asleep" => ~Called(u)
    BY <2>1, Zenon DEF Called
  <2>3. HQHolds(semQueue, t)
    BY <2>2, Zenon DEF SemSafe, SemWakerKept
  <2>4. PICK i \in 1 .. Len(semQueue) : semQueue[i] = t
    BY <2>3, Zenon DEF HQHolds
  <2>5. Sleeps(semQueue[i])
    BY <2>1, <2>4, Zenon DEF Sleeps
  <2>6. permits <= Cardinality(Claimants) \/ \E u \in SemTasks : Late(u)
    BY <2>5, Zenon DEF SemSafe, PermitsClaimed
  <2>7. \A u \in SemTasks : ~Late(u)
    BY <2>1, Zenon DEF Late
  <2>8. Claimants = {}
    BY <2>1, <2>2, Zenon DEF Claimants
  <2>9. Cardinality(Claimants) = 0
    BY <2>8, FS_EmptySet, ZenonT(30)
  <2> QED BY <2>6, <2>7, <2>9 DEF SemSafe, SemTypeOK
<1> QED BY <1>1, <1>2, SemKeeps, PTL DEF SemSpec

-----------------------------------------------------------------------------
(* The order in which ready queues are served *)

\* Without Critical tasks the streak counter is at least the bypass count.
StreakCounts ==
    /\ rq \in ReadyQueuesOf(Tiers) /\ bypassed \in Nat
    /\ rq.ids["critical"] = << >>
    /\ bypassed <= rq.streak /\ rq.streak <= Limit

\* Nothing is bypassed before the first pop.
LEMMA StreakInit == StInit => StreakCounts
BY StarvationAssumption DEF StInit, StreakCounts, NewQueues, ReadyQueuesOf, Tiers

\* Every push and pop keeps the streak counter at or above the bypass count.
LEMMA StreakStep ==
    ASSUME "critical" \notin Arrivals, StreakCounts, [StNext]_stVars
    PROVE  StreakCounts'
<1> USE StarvationAssumption
<1>1. CASE UNCHANGED stVars
  BY <1>1, Zenon DEF stVars, StreakCounts
<1>2. ASSUME NEW p \in Tiers, Arrive(p) PROVE StreakCounts'
  <2>1. p # "critical" /\ rq.ids[p] \in Seq(Tiers)
    BY <1>2, Zenon DEF Arrive, StreakCounts, ReadyQueuesOf
  <2>2. Append(rq.ids[p], p) \in Seq(Tiers)
    BY <2>1
  <2>3. rq' \in ReadyQueuesOf(Tiers)
    BY <1>2, <2>2, Zenon DEF Arrive, Push, StreakCounts, ReadyQueuesOf
  <2>4. rq'.ids["critical"] = rq.ids["critical"] /\ rq'.streak = rq.streak
    BY <1>2, <2>1, Zenon DEF Arrive, Push, StreakCounts, ReadyQueuesOf, Tiers
  <2> QED BY <1>2, <2>3, <2>4, ZenonT(30) DEF Arrive, StreakCounts
<1>3. CASE Serve
  <2> DEFINE p == PopTier(rq, Limit)
  <2>1. p \in {"normal", "background"} /\ rq.ids[p] # << >>
    BY <1>3, Zenon DEF Serve, PopTier, HasReady, Tiers, StreakCounts
  <2>2. p = "normal" => rq.ids["background"] = << >> \/ rq.streak < Limit
    BY Zenon DEF PopTier, StreakCounts
  <2>3. rq' = [ids |-> [rq.ids EXCEPT ![p] = Tail(@)], streak |-> StreakAfter(rq, p)]
    BY <1>3, Zenon DEF Serve, AfterPop
  <2>4. bypassed' = IF p = "background" \/ rq.ids["background"] = << >> THEN 0
                    ELSE IF p = "normal" /\ bypassed < MaxBypass THEN bypassed + 1
                    ELSE bypassed
    BY <1>3, Zenon DEF Serve
  <2> HIDE DEF p
  <2>5. StreakAfter(rq, p) \in Nat /\ StreakAfter(rq, p) <= Limit
    BY <2>1, <2>2 DEF StreakAfter, StreakCounts, ReadyQueuesOf
  <2>6. bypassed' \in Nat /\ bypassed' <= StreakAfter(rq, p)
    BY <2>1, <2>4, SMTT(30) DEF StreakAfter, StreakCounts, ReadyQueuesOf
  <2>7. Tail(rq.ids[p]) \in Seq(Tiers)
    BY <2>1 DEF StreakCounts, ReadyQueuesOf, Tiers
  <2>8. rq' \in ReadyQueuesOf(Tiers) /\ rq'.ids["critical"] = << >>
    BY <2>1, <2>3, <2>5, <2>7, ZenonT(30) DEF StreakCounts, ReadyQueuesOf, Tiers
  <2>9. rq'.streak = StreakAfter(rq, p)
    BY <2>3, Zenon
  <2> QED BY <2>5, <2>6, <2>8, <2>9, ZenonT(30) DEF StreakCounts
<1> QED BY <1>1, <1>2, <1>3, ZenonT(30) DEF StNext

\* As long as no Critical task is queued, pop serves a waiting Background task
\* after at most Limit Normal ones, whatever the limit.
THEOREM NoStarvation ==
    ASSUME "critical" \notin Arrivals
    PROVE  StSpec => []BypassBounded
<1>1. StreakCounts /\ [StNext]_stVars => StreakCounts'
  BY StreakStep, Zenon
<1>2. StreakCounts => BypassBounded
  BY StarvationAssumption DEF StreakCounts, BypassBounded, ReadyQueuesOf
<1> QED BY StreakInit, <1>1, <1>2, PTL DEF StSpec

-----------------------------------------------------------------------------
(* What the primitives promise, taken together *)

\* The reader-writer lock excludes.
LEMMA RwExcludes == RwSpec => [](WriterAlone /\ WordCountsGuards)
<1>1. RwSafe => WriterAlone /\ WordCountsGuards
  BY Zenon DEF RwSafe
<1> QED BY <1>1, RwFirst, RwKeeps, PTL DEF RwSpec

\* Whatever tasks and CPUs share them, no lock lets two in that exclude each other: the
\* word of a mutex says whether a guard exists, permits are neither lost nor made, a writer
\* is alone with no reader, a value is initialised once.
THEOREM LocksExclude == Spec /\ SemSpec /\ RwSpec /\ LzSpec => []Excludes
<1>1. /\ LockWordMatchesGuard /\ PermitsConserved /\ PermitReachesSleeper
      /\ WriterAlone /\ WordCountsGuards /\ InitialisedOnce
      => Excludes
  BY Zenon DEF Excludes
<1> QED BY <1>1, LockWord, SemaphoreSafe, RwExcludes, LazySafe, PTL

\* Nobody waits for what has already happened: a free mutex or a free permit finds a
\* sleeper unless a task left its waker behind, a notification is lost only in the gap of
\* wait_async or for want of room, and whoever spins on a LazyLock is released.
THEOREM WaitersReached == Spec /\ SemSpec /\ CvSpec /\ LzSpec => []SleepersReached
<1>1. /\ UnlockReachesSleeper /\ PermitReachesSleeper /\ LossOnlyInGap /\ SpinnersReleased
      => SleepersReached
  BY Zenon DEF SleepersReached
<1> QED BY <1>1, UnlockReaches, SemaphoreSafe, CondvarSafe, LazySafe, PTL
=============================================================================
