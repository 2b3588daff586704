------------------------------- MODULE Mutex -------------------------------
(***************************************************************************)
(* The async Mutex (kernel/core/src/sync/mutex.rs) over its WaitQueue.       *)
(*                                                                          *)
(* Tasks are polled by the executor of the CPU they live on.  Tasks of one   *)
(* CPU interleave only where a poll returns; tasks of different CPUs         *)
(* interleave at every atomic access, so each compare-exchange, each queue   *)
(* operation and each store is a step of its own.  The executor is          *)
(* abstracted to the set "ready" of tasks whose waker has fired since they   *)
(* were last polled (Executor.tla models it in full).                       *)
(***************************************************************************)
EXTENDS WaitQueues

CONSTANTS
    Tasks,        \* the tasks that use the mutex
    Cpus,         \* the CPUs they run on
    CpuOf,        \* the CPU of each task
    MaxWaiters,   \* MAX_WAITERS of the wait queue
    Spinners,     \* the tasks that use lock_sync instead of lock().await
    Droppable,    \* the tasks that may drop a pending lock future (select)
    WeakFails,    \* compare_exchange_weak may fail spuriously (not on x86_64)
    Rounds        \* bound: lock attempts per task

ASSUME MutexAssumption ==
    /\ CpuOf \in [Tasks -> Cpus]
    /\ MaxWaiters \in Nat
    /\ WeakFails \in BOOLEAN
    /\ Rounds \in Nat

VARIABLES
    locked,       \* AtomicBool locked
    waiters,      \* the WaitQueue: a sequence of the tasks its wakers wake
    pc,           \* where each task is in lock / try_lock / drop
    hand,         \* the waker a task has taken out of the queue, to call it
    ready,        \* tasks whose waker was called since their last poll
    left,         \* lock attempts each task may still start
    stale         \* history: a task left a waker behind in the queue

vars == <<locked, waiters, pc, hand, ready, left, stale>>

\* Program points inside a poll, where the task's CPU runs nothing else.
Running == {"spin", "fast", "register", "retry", "retryFull", "unlock", "wake"}

PCs == Running \cup {"idle", "asleep", "held"}

Init ==
    /\ locked = FALSE
    /\ waiters = << >>
    /\ pc = [t \in Tasks |-> "idle"]
    /\ hand = [t \in Tasks |-> {}]
    /\ ready = {}
    /\ left = [t \in Tasks |-> Rounds]
    /\ stale = FALSE

\* No other task of t's CPU is inside a poll.
CpuFree(t) == \A u \in Tasks \ {t} : CpuOf[u] = CpuOf[t] => pc[u] \notin Running

Goto(t, label) == pc' = [pc EXCEPT ![t] = label]

-----------------------------------------------------------------------------
(* Acquisition *)

\* lock(): the future is created and polled for the first time.
Lock(t) ==
    /\ pc[t] = "idle" /\ left[t] > 0 /\ t \notin Spinners
    /\ CpuFree(t)
    /\ left' = [left EXCEPT ![t] = @ - 1]
    /\ Goto(t, "fast")
    /\ UNCHANGED <<locked, waiters, hand, ready>>

\* try_lock(): one strong compare-exchange; a failure changes nothing.
TryLock(t) ==
    /\ pc[t] = "idle" /\ left[t] > 0
    /\ CpuFree(t)
    /\ left' = [left EXCEPT ![t] = @ - 1]
    /\ IF locked
         THEN UNCHANGED <<locked, pc>>
         ELSE locked' = TRUE /\ Goto(t, "held")
    /\ UNCHANGED <<waiters, hand, ready>>

\* lock_sync(): enters the loop that spins on try_lock.
LockSync(t) ==
    /\ pc[t] = "idle" /\ left[t] > 0 /\ t \in Spinners
    /\ CpuFree(t)
    /\ left' = [left EXCEPT ![t] = @ - 1]
    /\ Goto(t, "spin")
    /\ UNCHANGED <<locked, waiters, hand, ready>>

\* The iteration of lock_sync's loop that wins (the others change nothing).
SpinAcquire(t) ==
    /\ pc[t] = "spin" /\ ~locked
    /\ locked' = TRUE
    /\ Goto(t, "held")
    /\ UNCHANGED <<waiters, hand, ready, left>>

\* Fast path of poll: compare_exchange_weak.
FastAcquire(t) ==
    /\ pc[t] = "fast" /\ ~locked
    /\ locked' = TRUE
    /\ Goto(t, "held")
    /\ UNCHANGED <<waiters, hand, ready, left>>

FastFail(t) ==
    /\ pc[t] = "fast" /\ (locked \/ WeakFails)
    /\ Goto(t, "register")
    /\ UNCHANGED <<locked, waiters, hand, ready, left>>

\* waiters.register_waker(cx.waker()): remembers whether there was room.
Register(t) ==
    /\ pc[t] = "register"
    /\ waiters' = WQRegister(waiters, t, MaxWaiters)
    /\ Goto(t, IF WQHasRoom(waiters, MaxWaiters) THEN "retry" ELSE "retryFull")
    /\ UNCHANGED <<locked, hand, ready, left>>

\* (mutant) the lock word is not read again after the registration
RetryAcquireUnchecked(t) ==
    /\ pc[t] \in {"retry", "retryFull"}
    /\ locked' = TRUE
    /\ Goto(t, "held")
    /\ UNCHANGED <<waiters, hand, ready, left>>

\* The second compare-exchange succeeds: the waker stays in the queue.
RetryAcquire(t) ==
    /\ pc[t] \in {"retry", "retryFull"} /\ ~locked
    /\ locked' = TRUE
    /\ Goto(t, "held")
    /\ UNCHANGED <<waiters, hand, ready, left>>

\* (mutant) no self-wake when the queue was full
RetryFailNoSelfWake(t) ==
    /\ pc[t] \in {"retry", "retryFull"} /\ locked
    /\ Goto(t, "asleep")
    /\ UNCHANGED <<locked, waiters, hand, ready, left>>

\* It fails: Poll::Pending, after a self-wake if the queue was full.
RetryFail(t) ==
    /\ pc[t] \in {"retry", "retryFull"} /\ locked
    /\ ready' = IF pc[t] = "retryFull" THEN ready \cup {t} ELSE ready
    /\ Goto(t, "asleep")
    /\ UNCHANGED <<locked, waiters, hand, left>>

\* The executor polls a woken task again.
Repoll(t) ==
    /\ pc[t] = "asleep" /\ t \in ready
    /\ CpuFree(t)
    /\ ready' = ready \ {t}
    /\ Goto(t, "fast")
    /\ UNCHANGED <<locked, waiters, hand, left>>

\* A task woken through a stale waker, while it is not waiting for the mutex,
\* is polled for whatever else it is doing.
IdlePoll(t) ==
    /\ pc[t] \in {"idle", "held"} /\ t \in ready
    /\ CpuFree(t)
    /\ ready' = ready \ {t}
    /\ UNCHANGED <<locked, waiters, pc, hand, left>>

\* A select! polled because its other branch is ready drops the lock future,
\* which has no Drop: its waker stays in the queue.
DropFuture(t) ==
    /\ pc[t] = "asleep" /\ t \in Droppable
    /\ CpuFree(t)
    /\ ready' = ready \ {t}
    /\ Goto(t, "idle")
    /\ UNCHANGED <<locked, waiters, hand, left>>

-----------------------------------------------------------------------------
(* Release: MutexGuardInner::drop *)

\* (mutant) the guard's drop forgets the store
UnlockNoStore(t) ==
    /\ pc[t] = "held"
    /\ CpuFree(t)
    /\ Goto(t, "unlock")
    /\ UNCHANGED <<locked, waiters, hand, ready, left>>

\* locked.store(false)
Unlock(t) ==
    /\ pc[t] = "held"
    /\ CpuFree(t)
    /\ locked' = FALSE
    /\ Goto(t, "unlock")
    /\ UNCHANGED <<waiters, hand, ready, left>>

\* (mutant) the guard's drop wakes nobody
WakeNobody(t) ==
    /\ pc[t] = "unlock"
    /\ Goto(t, "idle")
    /\ UNCHANGED <<locked, waiters, hand, ready, left>>

\* waiters.wake_one(), under the queue's lock
WakeOne(t) ==
    /\ pc[t] = "unlock"
    /\ waiters' = WQAfterWakeOne(waiters)
    /\ IF waiters = << >>
         THEN Goto(t, "idle") /\ UNCHANGED hand
         ELSE Goto(t, "wake") /\ hand' = [hand EXCEPT ![t] = {waiters[1]}]
    /\ UNCHANGED <<locked, ready, left>>

\* waker.wake(), after the queue's lock is dropped
Wake(t) ==
    /\ pc[t] = "wake"
    /\ ready' = ready \cup hand[t]
    /\ hand' = [hand EXCEPT ![t] = {}]
    /\ Goto(t, "idle")
    /\ UNCHANGED <<locked, waiters, left>>

Step(t) ==
    \/ Lock(t) \/ TryLock(t) \/ LockSync(t) \/ SpinAcquire(t)
    \/ FastAcquire(t) \/ FastFail(t) \/ Register(t)
    \/ RetryAcquire(t) \/ RetryFail(t)
    \/ Repoll(t) \/ IdlePoll(t) \/ DropFuture(t)
    \/ Unlock(t) \/ WakeOne(t) \/ Wake(t)

Done == \A t \in Tasks : pc[t] = "idle" /\ left[t] = 0

\* Every task has finished its attempts.
Terminated == Done /\ UNCHANGED vars

\* A waker for t is in the queue, or was taken out of it and is being called.
WakerOutstanding(t) ==
    \/ t \in WakersIn(waiters)
    \/ \E u \in Tasks : pc[u] = "wake" /\ t \in hand[u]

\* t goes on, or drops its future, while its waker is queued or under way.
LeavesWaker(t) ==
    \/ pc'[t] = "held" /\ pc[t] # "held" /\ WakerOutstanding(t)
    \/ pc'[t] = "idle" /\ pc[t] = "asleep"

Next ==
    \/ \E t \in Tasks : Step(t) /\ stale' = (stale \/ LeavesWaker(t))
    \/ Terminated

Spec == Init /\ [][Next]_vars

-----------------------------------------------------------------------------
(* Properties *)

\* Types, and the wait queue never outgrows its fixed capacity.
TypeOK ==
    /\ locked \in BOOLEAN
    /\ waiters \in Seq(Tasks) /\ Len(waiters) <= MaxWaiters
    /\ pc \in [Tasks -> PCs]
    /\ hand \in [Tasks -> SUBSET Tasks]
    /\ ready \in SUBSET Tasks
    /\ left \in [Tasks -> 0 .. Rounds]

\* Whatever the interleaving of the two compare-exchanges of poll, of try_lock
\* and of the spinning lock_sync with a guard's drop, no two tasks own a guard.
MutualExclusion ==
    \A t, u \in Tasks : pc[t] = "held" /\ pc[u] = "held" => t = u

\* The lock word is set exactly while a guard exists: a release can neither
\* be undone by a racing acquisition nor clear the lock of the next owner.
LockWordMatchesGuard == locked <=> \E t \in Tasks : pc[t] = "held"

\* poll never returns Pending without leaving a way to be polled again: a
\* sleeping task is ready or its waker is queued or in flight, even when the
\* fixed-size queue was full at registration (then poll wakes itself).
NoForgottenWaiter ==
    \A t \in Tasks : pc[t] = "asleep" => t \in ready \/ WakerOutstanding(t)

\* An unlock reaches a sleeper: when nobody is inside a poll and the lock is free,
\* a task that waits for it is ready to run, unless a waker was left behind in
\* the queue (by the second compare-exchange of poll, or by a dropped future) and
\* may have absorbed the wake-up.
UnlockReachesSleeper ==
    (~stale /\ ~locked /\ \A t \in Tasks : pc[t] \in {"idle", "asleep"}) =>
        LET sleepers == { t \in Tasks : pc[t] = "asleep" }
        IN sleepers = {} \/ sleepers \cap ready # {}

=============================================================================
