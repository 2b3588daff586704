-------------------------------- MODULE Locks -------------------------------
(*****************************************************************************)
(* The synchronisation primitives of kernel/core/src/sync beside the mutex   *)
(* and those of SpinLocks: they do not use each other, and each has a        *)
(* specification of its own here; and the order in which ready queues are    *)
(* served.                                                                   *)
(*****************************************************************************)
EXTENDS Mutex, ReadyQueues, FiniteSets, Integers

-----------------------------------------------------------------------------
(***************************************************************************)
(* The counting semaphore (kernel/core/src/sync/semaphore.rs) over its       *)
(* HeapWaitQueue.  Every task runs on a CPU of its own, so the load and the  *)
(* compare-exchange of try_acquire, the registration and the two halves of   *)
(* a release interleave freely.                                              *)
(***************************************************************************)
CONSTANTS
    SemTasks,     \* the tasks that share the semaphore
    Permits,      \* the permits it was created with
    SemRounds     \* bound: acquisitions each task may start

ASSUME SemaphoreAssumption ==
    IsFiniteSet(SemTasks) /\ Permits \in Nat /\ SemRounds \in Nat

VARIABLES
    permits,      \* AtomicU32 permits
    semQueue,     \* the HeapWaitQueue of wakers
    semPc,        \* where each task is in acquire / try_acquire / drop
    semCall,      \* which call of try_acquire it is in: "try", "first", "second"
    semSeen,      \* the value its load returned, until it is used
    semHand,      \* the waker a releasing task took out of the queue
    semReady,     \* tasks whose waker was called since their last poll
    semLeft,      \* acquisitions each task may still start
    semStale      \* history: an acquired permit left its waker queued

semVars == <<permits, semQueue, semPc, semCall, semSeen, semHand, semReady, semLeft, semStale>>

Calls == {"try", "first", "second"}

SemInit ==
    /\ permits = Permits
    /\ semQueue = << >>
    /\ semPc = [t \in SemTasks |-> "idle"]
    /\ semCall = [t \in SemTasks |-> "try"]
    /\ semSeen = [t \in SemTasks |-> 0]
    /\ semHand = [t \in SemTasks |-> {}]
    /\ semReady = {}
    /\ semLeft = [t \in SemTasks |-> SemRounds]
    /\ semStale = FALSE

SemGoto(t, label) == semPc' = [semPc EXCEPT ![t] = label]

\* Calls try_acquire, directly or from a poll.
Enter(t, call) ==
    /\ SemGoto(t, "load")
    /\ semCall' = [semCall EXCEPT ![t] = call]

\* acquire(), whose future is polled for the first time, or try_acquire().
SemStart(t, call) ==
    /\ semPc[t] = "idle" /\ semLeft[t] > 0 /\ call \in {"try", "first"}
    /\ semLeft' = [semLeft EXCEPT ![t] = @ - 1]
    /\ Enter(t, call)
    /\ UNCHANGED <<permits, semQueue, semSeen, semHand, semReady, semStale>>

\* permits.load; with no permit left the call returns None, and the poll goes
\* on to register its waker, or, after the second call, returns Pending.
Load(t) ==
    /\ semPc[t] = "load"
    /\ semSeen' = [semSeen EXCEPT ![t] = permits]
    /\ SemGoto(t, IF permits > 0 THEN "cas"
                  ELSE CASE semCall[t] = "try" -> "idle"
                         [] semCall[t] = "first" -> "register"
                         [] semCall[t] = "second" -> "asleep")
    /\ UNCHANGED <<permits, semQueue, semCall, semHand, semReady, semLeft, semStale>>

\* (mutant) a plain store in place of the compare-exchange
TakeStore(t) ==
    /\ semPc[t] = "cas"
    /\ permits' = semSeen[t] - 1
    /\ SemGoto(t, "held")
    /\ semStale' = (semStale \/ HQHolds(semQueue, t))
    /\ semSeen' = [semSeen EXCEPT ![t] = 0]
    /\ UNCHANGED <<semQueue, semCall, semHand, semReady, semLeft>>

\* compare_exchange_weak(current, current - 1); a failure loads again.
Take(t) ==
    /\ semPc[t] = "cas"
    /\ IF permits = semSeen[t]
         THEN /\ permits' = permits - 1
              /\ SemGoto(t, "held")
              /\ semStale' = (semStale \/ HQHolds(semQueue, t))
         ELSE /\ SemGoto(t, "load")
              /\ UNCHANGED <<permits, semStale>>
    /\ semSeen' = [semSeen EXCEPT ![t] = 0]
    /\ UNCHANGED <<semQueue, semCall, semHand, semReady, semLeft>>

\* (mutant) poll does not try again after the registration
SemRegisterOnly(t) ==
    /\ semPc[t] = "register"
    /\ semQueue' = HQRegister(semQueue, t)
    /\ SemGoto(t, "asleep")
    /\ UNCHANGED <<permits, semCall, semSeen, semHand, semReady, semLeft, semStale>>

\* waiters.register_waker(cx.waker()), and the second try_acquire begins.
SemRegister(t) ==
    /\ semPc[t] = "register"
    /\ semQueue' = HQRegister(semQueue, t)
    /\ Enter(t, "second")
    /\ UNCHANGED <<permits, semSeen, semHand, semReady, semLeft, semStale>>

\* The executor polls a woken task again.
SemRepoll(t) ==
    /\ semPc[t] = "asleep" /\ t \in semReady
    /\ semReady' = semReady \ {t}
    /\ Enter(t, "first")
    /\ UNCHANGED <<permits, semQueue, semSeen, semHand, semLeft, semStale>>

\* A stale waker makes the executor poll a task that does not wait here.
SemIdlePoll(t) ==
    /\ semPc[t] \in {"idle", "held"} /\ t \in semReady
    /\ semReady' = semReady \ {t}
    /\ UNCHANGED <<permits, semQueue, semPc, semCall, semSeen, semHand, semLeft, semStale>>

\* The permit's drop calls release: permits.fetch_add(1).
Release(t) ==
    /\ semPc[t] = "held"
    /\ permits' = permits + 1
    /\ SemGoto(t, "pop")
    /\ UNCHANGED <<semQueue, semCall, semSeen, semHand, semReady, semLeft, semStale>>

\* waiters.wake_one() takes the front waker under the queue's lock ...
PopWaker(t) ==
    /\ semPc[t] = "pop"
    /\ semQueue' = HQAfterWakeOne(semQueue)
    /\ IF semQueue = << >>
         THEN SemGoto(t, "idle") /\ UNCHANGED semHand
         ELSE SemGoto(t, "wake") /\ semHand' = [semHand EXCEPT ![t] = {semQueue[1]}]
    /\ UNCHANGED <<permits, semCall, semSeen, semReady, semLeft, semStale>>

\* ... and calls it after dropping that lock.
SemWake(t) ==
    /\ semPc[t] = "wake"
    /\ semReady' = semReady \cup semHand[t]
    /\ semHand' = [semHand EXCEPT ![t] = {}]
    /\ SemGoto(t, "idle")
    /\ UNCHANGED <<permits, semQueue, semCall, semSeen, semLeft, semStale>>

SemStep(t) ==
    \/ \E call \in Calls : SemStart(t, call)
    \/ Load(t) \/ Take(t) \/ SemRegister(t) \/ SemRepoll(t) \/ SemIdlePoll(t)
    \/ Release(t) \/ PopWaker(t) \/ SemWake(t)

SemNext == \E t \in SemTasks : SemStep(t)

SemSpec == SemInit /\ [][SemNext]_semVars

-----------------------------------------------------------------------------

Holders == { t \in SemTasks : semPc[t] = "held" }

\* Permits are neither lost nor duplicated by racing calls of try_acquire and
\* drops: those free and those held are always the permits created.
PermitsConserved == permits + Cardinality(Holders) = Permits

\* Everybody is idle, holds a permit, or sleeps without a wake-up under way.
AtRest ==
    \A t \in SemTasks : \/ semPc[t] \in {"idle", "held"}
                        \/ semPc[t] = "asleep" /\ t \notin semReady

\* The second try_acquire of poll closes the window between the first one and
\* the registration: nobody sleeps on a free permit, unless some task
\* acquired a permit and left its waker in the queue, to absorb a wake-up.
PermitReachesSleeper ==
    AtRest /\ permits > 0 /\ ~semStale => \A t \in SemTasks : semPc[t] # "asleep"

-----------------------------------------------------------------------------
(***************************************************************************)
(* The spinning reader-writer lock (kernel/core/src/sync/rwlock.rs): one     *)
(* AtomicU32 that counts the readers, or holds WRITE_LOCKED.  The load and   *)
(* the compare-exchange of a reader are separate steps.                      *)
(***************************************************************************)
CONSTANTS
    RwTasks,       \* the CPUs that use the lock
    WRITE_LOCKED,  \* the sentinel, u32::MAX in the code
    RwRounds       \* bound: acquisitions each CPU may start

\* There are fewer CPUs than the sentinel counts.
ASSUME RwLockAssumption ==
    /\ IsFiniteSet(RwTasks) /\ RwRounds \in Nat
    /\ WRITE_LOCKED \in Nat /\ Cardinality(RwTasks) < WRITE_LOCKED

VARIABLES
    rwState,       \* AtomicU32 state
    rwPc,          \* where each CPU is
    rwSeen,        \* the value a reader's load returned, until it is used
    rwLeft         \* acquisitions each CPU may still start

rwVars == <<rwState, rwPc, rwSeen, rwLeft>>

RwPCs == {"idle", "read", "readCas", "tryRead", "tryCas", "write", "reading", "writing"}

RwInit ==
    /\ rwState = 0
    /\ rwPc = [t \in RwTasks |-> "idle"]
    /\ rwSeen = [t \in RwTasks |-> 0]
    /\ rwLeft = [t \in RwTasks |-> RwRounds]

RwGoto(t, label) == rwPc' = [rwPc EXCEPT ![t] = label]

\* read(), try_read() and write() begin.
RwStart(t, call) ==
    /\ rwPc[t] = "idle" /\ rwLeft[t] > 0 /\ call \in {"read", "tryRead", "write"}
    /\ rwLeft' = [rwLeft EXCEPT ![t] = @ - 1]
    /\ RwGoto(t, call)
    /\ UNCHANGED <<rwState, rwSeen>>

\* state.load: a reader goes on unless a writer holds the lock; then read spins
\* (and changes nothing) and try_read returns None.
LoadState(t) ==
    /\ rwPc[t] \in {"read", "tryRead"}
    /\ rwPc[t] = "read" => rwState # WRITE_LOCKED
    /\ IF rwState # WRITE_LOCKED
         THEN /\ rwSeen' = [rwSeen EXCEPT ![t] = rwState]
              /\ RwGoto(t, IF rwPc[t] = "read" THEN "readCas" ELSE "tryCas")
         ELSE /\ RwGoto(t, "idle")
              /\ UNCHANGED rwSeen
    /\ UNCHANGED <<rwState, rwLeft>>

\* (mutant) the reader adds itself to whatever the state is now
CountReaderBlindly(t) ==
    /\ rwPc[t] \in {"readCas", "tryCas"}
    /\ rwState' = (rwState + 1) % (WRITE_LOCKED + 1)
    /\ RwGoto(t, "reading")
    /\ rwSeen' = [rwSeen EXCEPT ![t] = 0]
    /\ UNCHANGED rwLeft

\* compare_exchange(s, s + 1); on failure read loads again, try_read gives up.
CountReader(t) ==
    /\ rwPc[t] \in {"readCas", "tryCas"}
    /\ IF rwState = rwSeen[t]
         THEN rwState' = rwState + 1 /\ RwGoto(t, "reading")
         ELSE RwGoto(t, IF rwPc[t] = "readCas" THEN "read" ELSE "idle") /\ UNCHANGED rwState
    /\ rwSeen' = [rwSeen EXCEPT ![t] = 0]
    /\ UNCHANGED rwLeft

\* write(): compare_exchange_weak(0, WRITE_LOCKED) succeeds (a failure spins).
TakeWrite(t) ==
    /\ rwPc[t] = "write" /\ rwState = 0
    /\ rwState' = WRITE_LOCKED
    /\ RwGoto(t, "writing")
    /\ UNCHANGED <<rwSeen, rwLeft>>

\* try_write(): the same compare-exchange, once.
TryWrite(t) ==
    /\ rwPc[t] = "idle" /\ rwLeft[t] > 0
    /\ rwLeft' = [rwLeft EXCEPT ![t] = @ - 1]
    /\ IF rwState = 0
         THEN rwState' = WRITE_LOCKED /\ RwGoto(t, "writing")
         ELSE UNCHANGED <<rwState, rwPc>>
    /\ UNCHANGED rwSeen

\* (mutant) the read guard's drop unlocks, as the write guard's does
DropReadStore(t) ==
    /\ rwPc[t] = "reading"
    /\ rwState' = 0
    /\ RwGoto(t, "idle")
    /\ UNCHANGED <<rwSeen, rwLeft>>

\* The read guard's drop: state.fetch_sub(1).
DropRead(t) ==
    /\ rwPc[t] = "reading"
    /\ rwState' = rwState - 1
    /\ RwGoto(t, "idle")
    /\ UNCHANGED <<rwSeen, rwLeft>>

\* The write guard's drop: state.store(0).
DropWrite(t) ==
    /\ rwPc[t] = "writing"
    /\ rwState' = 0
    /\ RwGoto(t, "idle")
    /\ UNCHANGED <<rwSeen, rwLeft>>

RwStep(t) ==
    \/ \E call \in {"read", "tryRead", "write"} : RwStart(t, call)
    \/ LoadState(t) \/ CountReader(t) \/ TakeWrite(t) \/ TryWrite(t)
    \/ DropRead(t) \/ DropWrite(t)

RwNext == \E t \in RwTasks : RwStep(t)

RwSpec == RwInit /\ [][RwNext]_rwVars

-----------------------------------------------------------------------------

ReadersIn == { t \in RwTasks : rwPc[t] = "reading" }
WritersIn == { t \in RwTasks : rwPc[t] = "writing" }

RwTypeOK ==
    /\ rwState \in 0 .. WRITE_LOCKED
    /\ rwPc \in [RwTasks -> RwPCs]
    /\ rwSeen \in [RwTasks -> 0 .. WRITE_LOCKED - 1]
    /\ rwLeft \in [RwTasks -> 0 .. RwRounds]

\* A writer is alone: no reader that loaded the state before the writer took the
\* lock, or while others come and go, gets in beside it.
WriterAlone ==
    \A t \in WritersIn : WritersIn = {t} /\ ReadersIn = {}

\* The word counts the read guards, or is the sentinel exactly while a write
\* guard exists: fetch_sub never runs into the sentinel, nor a count up to it.
WordCountsGuards ==
    rwState = IF WritersIn # {} THEN WRITE_LOCKED ELSE Cardinality(ReadersIn)

-----------------------------------------------------------------------------
(***************************************************************************)
(* The condition variable (kernel/core/src/sync/condvar.rs), used as its      *)
(* documentation says: waiters re-check a flag in a loop, a notifier sets the *)
(* flag under the lock and notifies after releasing it.  The lock (a Mutex    *)
(* for wait_async, a SpinLock for wait) is abstracted to a word that is taken *)
(* when it is free; Mutex models the former in full.                          *)
(***************************************************************************)
CONSTANTS
    CvWaiters,     \* tasks that wait for the flag
    CvSpinners,    \* those of them that use wait; the others use wait_async
    CvNotifiers,   \* tasks that set the flag
    CvMaxWaiters,  \* MAX_WAITERS
    CvNobody       \* the lock's owner when it is free

ASSUME CondvarAssumption ==
    /\ IsFiniteSet(CvWaiters) /\ IsFiniteSet(CvNotifiers)
    /\ CvWaiters \cap CvNotifiers = {} /\ CvNobody \notin CvWaiters \cup CvNotifiers
    /\ CvMaxWaiters \in Nat

VARIABLES
    cvLock,        \* the owner of the lock
    cvFlag,        \* the predicate
    cvQueue,       \* the wakers
    cvPc,          \* where each task is
    cvHand,        \* wakers a notifier took out of the queue
    cvReady,       \* tasks whose waker was called since their last poll
    cvMissed       \* history: waiters a notification passed by before they
                   \* were in the queue, or that found it full

cvVars == <<cvLock, cvFlag, cvQueue, cvPc, cvHand, cvReady, cvMissed>>

CvTasks == CvWaiters \cup CvNotifiers

CvInit ==
    /\ cvLock = CvNobody
    /\ cvFlag = FALSE
    /\ cvQueue = << >>
    /\ cvPc = [t \in CvTasks |-> "lock"]
    /\ cvHand = [t \in CvNotifiers |-> {}]
    /\ cvReady = {}
    /\ cvMissed = {}

CvGoto(t, label) == cvPc' = [cvPc EXCEPT ![t] = label]

\* The lock is acquired: first, or again after the wait.
LockIt(t) ==
    /\ cvPc[t] = "lock" /\ cvLock = CvNobody
    /\ cvLock' = t
    /\ CvGoto(t, "locked")
    /\ UNCHANGED <<cvFlag, cvQueue, cvHand, cvReady, cvMissed>>

-----------------------------------------------------------------------------
(* Waiters *)

\* The predicate holds: the loop ends and the guard is dropped.
Proceed(t) ==
    /\ t \in CvWaiters /\ cvPc[t] = "locked" /\ cvFlag
    /\ cvLock' = CvNobody
    /\ CvGoto(t, "done")
    /\ UNCHANGED <<cvFlag, cvQueue, cvHand, cvReady, cvMissed>>

\* wait drops the guard and only re-acquires the lock; wait_async makes its
\* future, drops the guard, and has registered nothing yet.
CvDropGuard(t) ==
    /\ t \in CvWaiters /\ cvPc[t] = "locked" /\ ~cvFlag
    /\ cvLock' = CvNobody
    /\ CvGoto(t, IF t \in CvSpinners THEN "lock" ELSE "unregistered")
    /\ UNCHANGED <<cvFlag, cvQueue, cvHand, cvReady, cvMissed>>

\* First poll of the wait future: the waker is queued if there is room.
RegisterWaiter(t) ==
    /\ cvPc[t] = "unregistered"
    /\ cvQueue' = WQRegister(cvQueue, t, CvMaxWaiters)
    /\ cvMissed' = IF WQHasRoom(cvQueue, CvMaxWaiters) THEN cvMissed ELSE cvMissed \cup {t}
    /\ CvGoto(t, "asleep")
    /\ UNCHANGED <<cvLock, cvFlag, cvHand, cvReady>>

\* Second poll: registered, so Ready; then mutex.lock().await.
Rewake(t) ==
    /\ cvPc[t] = "asleep" /\ t \in cvReady
    /\ cvReady' = cvReady \ {t}
    /\ CvGoto(t, "lock")
    /\ UNCHANGED <<cvLock, cvFlag, cvQueue, cvHand, cvMissed>>

-----------------------------------------------------------------------------
(* Notifiers *)

SetFlag(t) ==
    /\ t \in CvNotifiers /\ cvPc[t] = "locked"
    /\ cvFlag' = TRUE
    /\ cvLock' = CvNobody
    /\ CvGoto(t, "notify")
    /\ UNCHANGED <<cvQueue, cvHand, cvReady, cvMissed>>

Passed == { u \in CvWaiters : cvPc[u] = "unregistered" }

\* notify_one: swap_remove(0) under the queue's lock.
NotifyOne(t) ==
    /\ t \in CvNotifiers /\ cvPc[t] = "notify"
    /\ cvQueue' = WQAfterWakeOne(cvQueue)
    /\ cvHand' = [cvHand EXCEPT ![t] = IF cvQueue = << >> THEN {} ELSE {cvQueue[1]}]
    /\ cvMissed' = cvMissed \cup Passed
    /\ CvGoto(t, "wake")
    /\ UNCHANGED <<cvLock, cvFlag, cvReady>>

\* (mutant) notify_all pops one waker
NotifyAllPopsOne(t) ==
    /\ t \in CvNotifiers /\ cvPc[t] = "notify"
    /\ cvQueue' = << >>
    /\ cvHand' = [cvHand EXCEPT ![t] = IF cvQueue = << >> THEN {} ELSE {cvQueue[Len(cvQueue)]}]
    /\ cvMissed' = cvMissed \cup Passed
    /\ CvGoto(t, "wake")
    /\ UNCHANGED <<cvLock, cvFlag, cvReady>>

\* notify_all: pops every waker under the queue's lock.
NotifyAll(t) ==
    /\ t \in CvNotifiers /\ cvPc[t] = "notify"
    /\ cvQueue' = << >>
    /\ cvHand' = [cvHand EXCEPT ![t] = WakersIn(cvQueue)]
    /\ cvMissed' = cvMissed \cup Passed
    /\ CvGoto(t, "wake")
    /\ UNCHANGED <<cvLock, cvFlag, cvReady>>

\* The wakers are called, one at a time.
CallWaker(t) ==
    /\ t \in CvNotifiers /\ cvPc[t] = "wake"
    /\ IF cvHand[t] = {}
         THEN CvGoto(t, "done") /\ UNCHANGED <<cvHand, cvReady>>
         ELSE \E u \in cvHand[t] :
                /\ cvReady' = cvReady \cup {u}
                /\ cvHand' = [cvHand EXCEPT ![t] = @ \ {u}]
                /\ UNCHANGED cvPc
    /\ UNCHANGED <<cvLock, cvFlag, cvQueue, cvMissed>>

CvNext ==
    \E t \in CvTasks :
        \/ LockIt(t) \/ Proceed(t) \/ CvDropGuard(t) \/ RegisterWaiter(t) \/ Rewake(t)
        \/ SetFlag(t) \/ NotifyOne(t) \/ NotifyAll(t) \/ CallWaker(t)

CvSpec == CvInit /\ [][CvNext]_cvVars

-----------------------------------------------------------------------------

\* Every notification is delivered, each waiter could have had one of its own,
\* and nobody is about to run.
AllDelivered ==
    /\ \A t \in CvNotifiers : cvPc[t] = "done"
    /\ \A t \in CvWaiters : cvPc[t] \in {"asleep", "done"} /\ t \notin cvReady
    /\ Cardinality(CvNotifiers) >= Cardinality(CvWaiters)

\* A wake-up is lost only in the gap of wait_async between the drop of the guard
\* and the registration, or for want of room: if no notification passed a waiter
\* in that gap and the queue was never full, all waiters get through.
LossOnlyInGap ==
    AllDelivered /\ cvMissed = {} => \A t \in CvWaiters : cvPc[t] # "asleep"

\* What the comment of wait_async promises ("Register waker before releasing the
\* lock to avoid lost wakeup"): with room in the queue, no waiter is left asleep
\* when every notifier has set the flag and notified.
NoLostNotification ==
    AllDelivered /\ Cardinality(CvWaiters) <= CvMaxWaiters =>
        \A t \in CvWaiters : cvPc[t] # "asleep"

-----------------------------------------------------------------------------
(***************************************************************************)
(* LazyLock (kernel/core/src/sync/lazy.rs): a value initialised by whoever    *)
(* dereferences it first, over an atomic state.  An init closure may panic;   *)
(* then the InitGuard poisons the lock (seen only where panics unwind).       *)
(***************************************************************************)
CONSTANTS
    LzTasks,      \* the CPUs that dereference the value
    LzRounds      \* bound: dereferences per CPU

VARIABLES
    lzState,      \* AtomicU8 state
    lzClosure,    \* the Option<F> still holds the closure
    lzValue,      \* the value has been written
    lzPc,         \* where each CPU is in force()
    lzLeft        \* dereferences each CPU may still start

lzVars == <<lzState, lzClosure, lzValue, lzPc, lzLeft>>

LzInit ==
    /\ lzState = "UNINIT"
    /\ lzClosure = TRUE
    /\ lzValue = FALSE
    /\ lzPc = [t \in LzTasks |-> "idle"]
    /\ lzLeft = [t \in LzTasks |-> LzRounds]

LzGoto(t, label) == lzPc' = [lzPc EXCEPT ![t] = label]

\* force(): the first load of the state.
LzForce(t) ==
    /\ lzPc[t] = "idle" /\ lzLeft[t] > 0
    /\ lzLeft' = [lzLeft EXCEPT ![t] = @ - 1]
    /\ LzGoto(t, CASE lzState = "READY" -> "read"
                   [] lzState = "POISONED" -> "panicked"
                   [] lzState = "UNINIT" -> "claim"
                   [] OTHER -> "spin")
    /\ UNCHANGED <<lzState, lzClosure, lzValue>>

\* (mutant) the state is stored, not compared and exchanged
ClaimBlindly(t) ==
    /\ lzPc[t] = "claim"
    /\ lzState' = "INITIALIZING"
    /\ LzGoto(t, "take")
    /\ UNCHANGED <<lzClosure, lzValue, lzLeft>>

\* compare_exchange(UNINIT, INITIALIZING); the losers spin.
Claim(t) ==
    /\ lzPc[t] = "claim"
    /\ IF lzState = "UNINIT"
         THEN lzState' = "INITIALIZING" /\ LzGoto(t, "take")
         ELSE LzGoto(t, "spin") /\ UNCHANGED lzState
    /\ UNCHANGED <<lzClosure, lzValue, lzLeft>>

\* init.take().unwrap(): a second initialiser would panic here and poison the lock.
TakeClosure(t) ==
    /\ lzPc[t] = "take"
    /\ lzClosure' = FALSE
    /\ IF lzClosure
         THEN LzGoto(t, "init") /\ UNCHANGED lzState
         ELSE LzGoto(t, "panicked") /\ lzState' = "POISONED"
    /\ UNCHANGED <<lzValue, lzLeft>>

\* The closure returns and its value is written ...
WriteValue(t) ==
    /\ lzPc[t] = "init"
    /\ lzValue' = TRUE
    /\ LzGoto(t, "publish")
    /\ UNCHANGED <<lzState, lzClosure, lzLeft>>

\* ... or it panics: the InitGuard's drop stores POISONED.
Poison(t) ==
    /\ lzPc[t] = "init"
    /\ lzState' = "POISONED"
    /\ LzGoto(t, "panicked")
    /\ UNCHANGED <<lzClosure, lzValue, lzLeft>>

\* state.store(READY), and the guard is defused.
Publish(t) ==
    /\ lzPc[t] = "publish"
    /\ lzState' = "READY"
    /\ LzGoto(t, "read")
    /\ UNCHANGED <<lzClosure, lzValue, lzLeft>>

\* (mutant) the loop waits for READY only
SpinEndsReady == lzState = "READY"

\* The states that end the spin loop.
SpinEnds == lzState \in {"READY", "POISONED"}

\* The load that ends it.
Spin(t) ==
    /\ lzPc[t] = "spin" /\ SpinEnds
    /\ LzGoto(t, IF lzState = "READY" THEN "read" ELSE "panicked")
    /\ UNCHANGED <<lzState, lzClosure, lzValue, lzLeft>>

\* The reference is used and dropped.
Read(t) ==
    /\ lzPc[t] = "read"
    /\ LzGoto(t, "idle")
    /\ UNCHANGED <<lzState, lzClosure, lzValue, lzLeft>>

LzNext ==
    \E t \in LzTasks :
        \/ LzForce(t) \/ Claim(t) \/ TakeClosure(t) \/ WriteValue(t) \/ Poison(t)
        \/ Publish(t) \/ Spin(t) \/ Read(t)

LzSpec == LzInit /\ [][LzNext]_lzVars

-----------------------------------------------------------------------------

\* Whoever holds a reference reads a value that was written, and racing
\* initialisers never find the closure gone, which would poison the lock.
InitialisedOnce ==
    /\ \A t \in LzTasks : lzPc[t] = "read" => lzValue
    /\ \A t \in LzTasks : lzPc[t] = "take" => lzClosure

\* A CPU that spins is waiting for a CPU that runs the closure, or can leave the
\* loop: also a panic ends the wait.
SpinnersReleased ==
    (\E t \in LzTasks : lzPc[t] = "spin") =>
        \/ \E u \in LzTasks : lzPc[u] \in {"take", "init", "publish"}
        \/ SpinEnds

-----------------------------------------------------------------------------
(***************************************************************************)
(* Which tier ReadyQueues::pop (kernel/core/src/sched.rs) serves over time,  *)
(* when tasks of every tier keep being queued: how long can a Background     *)
(* task be bypassed by Normal ones?                                          *)
(***************************************************************************)
CONSTANTS
    Arrivals,       \* the tiers in which tasks are queued
    Limit,          \* BACKGROUND_STARVATION_LIMIT
    MaxLen,         \* bound: ids in one tier
    MaxBypass       \* bound: how far bypasses are counted

ASSUME StarvationAssumption ==
    Arrivals \subseteq Tiers /\ Limit \in Nat /\ MaxLen \in Nat /\ MaxBypass \in Nat

VARIABLES
    rq,             \* the ready queues of one CPU; an id is named by its tier
    bypassed,       \* history: Normal pops while a Background task waits
    urgent          \* history: the last pop was Critical

stVars == <<rq, bypassed, urgent>>

StInit == rq = NewQueues /\ bypassed = 0 /\ urgent = FALSE

\* A task of tier p is queued.  Critical tasks are rare: one arrives only after
\* a pop of another tier, so they never occupy the CPU.
Arrive(p) ==
    /\ p \in Arrivals /\ Len(rq.ids[p]) < MaxLen
    /\ p = "critical" => ~urgent /\ rq.ids[p] = << >>
    /\ rq' = Push(rq, p, p)
    /\ UNCHANGED <<bypassed, urgent>>

Serve ==
    /\ HasReady(rq)
    /\ rq' = AfterPop(rq, Limit)
    /\ LET p == PopTier(rq, Limit) IN
         /\ urgent' = (p = "critical")
         /\ bypassed' = IF p = "background" \/ rq.ids["background"] = << >> THEN 0
                        ELSE IF p = "normal" /\ bypassed < MaxBypass THEN bypassed + 1
                        ELSE bypassed

StNext == Serve \/ \E p \in Tiers : Arrive(p)

StSpec == StInit /\ [][StNext]_stVars

\* As long as no Critical task arrives, a waiting Background task is bypassed by at
\* most Limit Normal tasks: the streak counter of pop keeps housekeeping from
\* starving.  A Critical pop resets the counter, and then there is no such bound.
BypassBounded == bypassed <= Limit

-----------------------------------------------------------------------------
(* What the primitives promise, taken together *)

\* Exclusion: a lock's word says who holds it, a writer is alone, permits are
\* neither made nor lost, and a value is initialised once.
Excludes ==
    /\ LockWordMatchesGuard
    /\ PermitsConserved
    /\ WriterAlone /\ WordCountsGuards
    /\ InitialisedOnce

\* Nobody waits for what has already happened: an unlock, a permit, a notification
\* (but for the gap in wait_async) or the end of an initialisation reaches a waiter.
SleepersReached ==
    /\ UnlockReachesSleeper
    /\ PermitReachesSleeper
    /\ LossOnlyInGap
    /\ SpinnersReleased
=============================================================================
