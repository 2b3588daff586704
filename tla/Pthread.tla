------------------------------ MODULE Pthread ------------------------------
(***************************************************************************)
(* The mutexes, condition variables and once controls of the C library       *)
(* (userspace/hadron-libc/core/src/pthread.rs) over the futex system call    *)
(* (syscall/event.rs, ipc/futex.rs and TRAP_FUTEX of process_task).          *)
(*                                                                          *)
(* Threads are preempted anywhere, so every atomic access is a step.  The    *)
(* futex future looks at the word and registers under the table's lock each  *)
(* time it is polled: a woken thread whose word is unchanged sleeps again.   *)
(* It is polled when any waker of its task is called, and leaves the entry   *)
(* of the poll before in the table.  The table is keyed by virtual address:  *)
(* it does not tell apart the words of two address spaces.  When it is full  *)
(* a registration fails and the thread sleeps all the same.  The histories   *)
(* mixed and refused say where one of these has happened.                    *)
(***************************************************************************)
EXTENDS Integers, FiniteSets, Sequences

CONSTANTS
    Threads, Spaces, SpaceOf,   \* threads, address spaces, the one each lives in
    MaxEntries,                 \* MAX_FUTEX_ENTRIES
    Workloads                   \* bounds: calls in use, calls per thread, strays, and
                                \* entries of the table that other programs hold

Operations == {"Lock", "TryLock", "CondWait", "Signal", "Broadcast", "Once"}

Load == [ops : SUBSET Operations, left : [Threads -> Nat], strays : Nat, others : Nat]

ASSUME PthreadAssumption ==
    /\ IsFiniteSet(Threads) /\ Cardinality(Threads) \in Nat
    /\ SpaceOf \in [Threads -> Spaces] /\ MaxEntries \in Nat
    /\ Workloads \subseteq Load

-----------------------------------------------------------------------------
(* The futex table: a user virtual address to the tasks whose wakers wait    *)
(* there, oldest first.  An address without waiters has no entry; here it    *)
(* has the empty sequence.  Each operator is one region of the table's lock. *)

FutexEntries(table) == { a \in DOMAIN table : table[a] # << >> }

FutexFull(table, a, max) ==
    Cardinality(FutexEntries(table)) >= max /\ a \notin FutexEntries(table)

\* FutexTable::register; the caller does not look at its result.
FutexRegister(table, a, t, max) ==
    IF FutexFull(table, a, max) THEN table ELSE [table EXCEPT ![a] = Append(@, t)]

\* i32::MAX, as many as a table may hold at one address.
Everyone == 2147483647

\* FutexTable::wake: the oldest count waiters, however often a task is among them.
FutexToWake(table, a, count) ==
    IF count # Everyone /\ count < Len(table[a]) THEN count ELSE Len(table[a])

\* Tasks that lose an entry and have none left: the entry of their last poll is
\* among those that wake takes out.
FutexWoken(table, a, count) ==
    { u \in Threads :
        LET n == FutexToWake(table, a, count) IN
        /\ \E i \in 1 .. n : table[a][i] = u
        /\ \A i \in n + 1 .. Len(table[a]) : table[a][i] # u }

FutexAfterWake(table, a, count) ==
    [table EXCEPT ![a] = SubSeq(@, FutexToWake(table, a, count) + 1, Len(@))]

-----------------------------------------------------------------------------
VARIABLES
    word,       \* the futex words of each space: mutex, cond (seq) and once
    sleepers,   \* PthreadCond.waiters, which is written and never read
    table,      \* FUTEX_TABLE
    pc,         \* where each thread is
    arg,        \* its futex call: address, and value or count
    then,       \* and where it goes on after the call
    seq,        \* pthread_cond_wait's local seq
    ready,      \* threads whose waker was called since their last poll
    calls,      \* the workload: what threads may still do
    ticket,     \* history: the sequence number when a waiter released the mutex
    inits,      \* history: runs of the init routine in each space
    mixed,      \* history: addresses where a sleeper was polled for another reason than
                \* a wake there, or a wake was spent on a sleeper of another space
    refused     \* history: addresses where a registration failed

marks == <<mixed, refused>>
vars == <<word, sleepers, table, pc, arg, then, seq, ready, calls, ticket, inits, marks>>

Addrs == {"mutex", "cond", "once"}
UNLOCKED == 0
LOCKED == 1
LOCKED_WAITERS == 2
UNINITIALIZED == 0
IN_PROGRESS == 1
DONE == 2

Word(t, a) == word[SpaceOf[t]][a]
Store(t, a, v) == word' = [word EXCEPT ![SpaceOf[t]][a] = v]
Goto(t, label) == pc' = [pc EXCEPT ![t] = label]

\* sys_futex(a, op, v), to continue at label.
Futex(t, op, a, v, label) ==
    /\ Goto(t, op)
    /\ arg' = [arg EXCEPT ![t] = [addr |-> a, val |-> v]]
    /\ then' = [then EXCEPT ![t] = label]

Init ==
    /\ word = [s \in Spaces |-> [a \in Addrs |-> 0]]
    /\ sleepers = [s \in Spaces |-> 0]
    /\ table = [a \in Addrs |-> << >>]
    /\ pc = [t \in Threads |-> "idle"]
    /\ arg = [t \in Threads |-> [addr |-> "mutex", val |-> 0]]
    /\ then = [t \in Threads |-> "idle"]
    /\ seq = [t \in Threads |-> 0]
    /\ ready = {}
    /\ calls \in Workloads
    /\ ticket = [t \in Threads |-> 0]
    /\ inits = [s \in Spaces |-> 0]
    /\ mixed = {} /\ refused = {}

\* Not in a call; "initialized" is where pthread_once returns to.
Idle == {"idle", "initialized"}

Call(t, op, from) ==
    /\ op \in calls.ops /\ calls.left[t] > 0 /\ pc[t] \in from
    /\ calls' = [calls EXCEPT !.left[t] = @ - 1]

-----------------------------------------------------------------------------
(* The futex system call *)

\* Entries of the table that this model's addresses may take.
Room == MaxEntries - calls.others

\* (mutant) the waker is registered before the word is looked at
FutexWaitRegistered(t) ==
    /\ pc[t] = "wait" \/ (pc[t] = "asleep" /\ t \in ready)
    /\ ready' = ready \ {t}
    /\ table' = FutexRegister(table, arg[t].addr, t, Room)
    /\ refused' = refused \cup { a \in {arg[t].addr} : FutexFull(table, a, Room) }
    /\ Goto(t, IF Word(t, arg[t].addr) = arg[t].val THEN "asleep" ELSE then[t])
    /\ UNCHANGED <<word, sleepers, arg, then, seq, calls, inits, ticket, mixed>>

\* FUTEX_WAIT is polled: for the first time, or because a waker was called.
FutexWait(t) ==
    /\ pc[t] = "wait" \/ (pc[t] = "asleep" /\ t \in ready)
    /\ ready' = ready \ {t}
    /\ IF Word(t, arg[t].addr) = arg[t].val
       THEN /\ table' = FutexRegister(table, arg[t].addr, t, Room)
            /\ refused' = refused \cup { a \in {arg[t].addr} : FutexFull(table, a, Room) }
            /\ Goto(t, "asleep")
       ELSE Goto(t, then[t]) /\ UNCHANGED <<table, refused>>
    /\ UNCHANGED <<word, sleepers, arg, then, seq, calls, inits, ticket, mixed>>

\* An entry of an earlier poll holds a waker for the CPU of that poll, which may
\* reach the task or not: if it does, that is a Stray.
FutexWake(t) ==
    LET a == arg[t].addr IN
    /\ pc[t] = "wake"
    /\ table' = FutexAfterWake(table, a, arg[t].val)
    /\ ready' = ready \cup
                { u \in FutexWoken(table, a, arg[t].val) : pc[u] = "asleep" /\ arg[u].addr = a }
    /\ mixed' = IF \E i \in 1 .. FutexToWake(table, a, arg[t].val) :
                        SpaceOf[table[a][i]] # SpaceOf[t]
                THEN mixed \cup {a} ELSE mixed
    /\ Goto(t, then[t])
    /\ UNCHANGED <<word, sleepers, arg, then, seq, calls, inits, ticket, refused>>

\* Another waker of a sleeping task is called: one that an earlier system call left
\* in some queue, one of an entry of an earlier poll, or one that was called while
\* the task still ran.
Stray(t) ==
    /\ pc[t] = "asleep" /\ t \notin ready /\ calls.strays > 0
    /\ ready' = ready \cup {t}
    /\ mixed' = mixed \cup {arg[t].addr}
    /\ calls' = [calls EXCEPT !.strays = @ - 1]
    /\ UNCHANGED <<word, sleepers, table, pc, arg, then, seq, inits, ticket, refused>>

-----------------------------------------------------------------------------
(* Mutexes *)

Lock(t) ==
    /\ Call(t, "Lock", Idle)
    /\ Goto(t, "lock")
    /\ UNCHANGED <<word, sleepers, table, arg, then, seq, ready, inits, ticket, marks>>

\* The compare-exchange of the fast path.
FastLock(t) ==
    /\ pc[t] = "lock"
    /\ IF Word(t, "mutex") = UNLOCKED THEN Store(t, "mutex", LOCKED) /\ Goto(t, "owner")
                                      ELSE UNCHANGED word /\ Goto(t, "swap")
    /\ UNCHANGED <<sleepers, table, arg, then, seq, ready, calls, inits, ticket, marks>>

\* (mutant) the slow path takes LOCKED, without waiters, for free
SwapUncontended(t) ==
    /\ pc[t] = "swap"
    /\ Store(t, "mutex", LOCKED_WAITERS)
    /\ IF Word(t, "mutex") # LOCKED_WAITERS
       THEN Goto(t, "owner") /\ UNCHANGED <<arg, then>>
       ELSE Futex(t, "wait", "mutex", LOCKED_WAITERS, "swap")
    /\ UNCHANGED <<sleepers, table, seq, ready, calls, inits, ticket, marks>>

\* (mutant) the slow path does not mark the waiter it is about to become
SwapUnmarked(t) ==
    /\ pc[t] = "swap"
    /\ IF Word(t, "mutex") = UNLOCKED
       THEN Store(t, "mutex", LOCKED) /\ Goto(t, "owner") /\ UNCHANGED <<arg, then>>
       ELSE Futex(t, "wait", "mutex", Word(t, "mutex"), "swap") /\ UNCHANGED word
    /\ UNCHANGED <<sleepers, table, seq, ready, calls, inits, ticket, marks>>

\* One round of the slow path.
Swap(t) ==
    /\ pc[t] = "swap"
    /\ Store(t, "mutex", LOCKED_WAITERS)
    /\ IF Word(t, "mutex") = UNLOCKED
       THEN Goto(t, "owner") /\ UNCHANGED <<arg, then>>
       ELSE Futex(t, "wait", "mutex", LOCKED_WAITERS, "swap")
    /\ UNCHANGED <<sleepers, table, seq, ready, calls, inits, ticket, marks>>

TryLock(t) ==
    /\ Call(t, "TryLock", Idle)
    /\ IF Word(t, "mutex") = UNLOCKED THEN Store(t, "mutex", LOCKED) /\ Goto(t, "owner")
                                      ELSE UNCHANGED <<word, pc>>
    /\ UNCHANGED <<sleepers, table, arg, then, seq, ready, inits, ticket, marks>>

\* pthread_mutex_unlock: the swap, and FUTEX_WAKE if there were waiters.
Release(t, label) ==
    /\ Store(t, "mutex", UNLOCKED)
    /\ IF Word(t, "mutex") = LOCKED_WAITERS
       THEN Futex(t, "wake", "mutex", 1, label)
       ELSE Goto(t, label) /\ UNCHANGED <<arg, then>>

Unlock(t) ==
    /\ pc[t] = "owner" /\ Release(t, "idle")
    /\ UNCHANGED <<sleepers, table, seq, ready, calls, inits, ticket, marks>>

-----------------------------------------------------------------------------
(* Condition variables *)

\* pthread_cond_wait, up to the release of the mutex.
CondWait(t) ==
    /\ Call(t, "CondWait", {"owner"})
    /\ seq' = [seq EXCEPT ![t] = Word(t, "cond")]
    /\ sleepers' = [sleepers EXCEPT ![SpaceOf[t]] = @ + 1]
    /\ Goto(t, "release")
    /\ UNCHANGED <<word, table, arg, then, ready, inits, ticket, marks>>

CondRelease(t) ==
    /\ pc[t] = "release" /\ Release(t, "condwait")
    /\ ticket' = [ticket EXCEPT ![t] = Word(t, "cond")]
    /\ UNCHANGED <<sleepers, table, seq, ready, calls, inits, marks>>

\* (mutant) the sequence number is read only now
CondSleepLate(t) ==
    /\ pc[t] = "condwait"
    /\ seq' = [seq EXCEPT ![t] = Word(t, "cond")]
    /\ Futex(t, "wait", "cond", seq'[t], "condcheck")
    /\ UNCHANGED <<word, sleepers, table, ready, calls, inits, ticket, marks>>

CondSleep(t) ==
    /\ pc[t] = "condwait"
    /\ Futex(t, "wait", "cond", seq[t], "condcheck")
    /\ UNCHANGED <<word, sleepers, table, seq, ready, calls, inits, ticket, marks>>

\* The sequence number has changed: lock again.
CondCheck(t) ==
    /\ pc[t] = "condcheck"
    /\ IF Word(t, "cond") = seq[t]
       THEN Goto(t, "condwait") /\ UNCHANGED sleepers
       ELSE Goto(t, "lock") /\ sleepers' = [sleepers EXCEPT ![SpaceOf[t]] = @ - 1]
    /\ UNCHANGED <<word, table, arg, then, seq, ready, calls, inits, ticket, marks>>

Notify(t, op, count) ==
    /\ Call(t, op, Idle \cup {"owner"})
    /\ Store(t, "cond", Word(t, "cond") + 1)
    /\ Futex(t, "wake", "cond", count, pc[t])
    /\ UNCHANGED <<sleepers, table, seq, ready, inits, ticket, marks>>

Signal(t) == Notify(t, "Signal", 1)
Broadcast(t) == Notify(t, "Broadcast", Everyone)

-----------------------------------------------------------------------------
(* Once *)

Once(t) ==
    /\ Call(t, "Once", Idle)
    /\ Goto(t, "once")
    /\ UNCHANGED <<word, sleepers, table, arg, then, seq, ready, inits, ticket, marks>>

\* The load at the head of the loop.
OnceLook(t) ==
    /\ pc[t] = "once"
    /\ CASE Word(t, "once") = DONE -> Goto(t, "initialized") /\ UNCHANGED <<arg, then>>
         [] Word(t, "once") = UNINITIALIZED -> Goto(t, "claim") /\ UNCHANGED <<arg, then>>
         [] OTHER -> Futex(t, "wait", "once", IN_PROGRESS, "once")
    /\ UNCHANGED <<word, sleepers, table, seq, ready, calls, inits, ticket, marks>>

\* (mutant) a plain store instead of the compare-exchange
OnceClaimStore(t) ==
    /\ pc[t] = "claim"
    /\ Store(t, "once", IN_PROGRESS) /\ Goto(t, "init")
    /\ inits' = [inits EXCEPT ![SpaceOf[t]] = @ + 1]
    /\ UNCHANGED <<sleepers, table, arg, then, seq, ready, calls, ticket, marks>>

\* The compare-exchange, and the start of the init routine.
OnceClaim(t) ==
    /\ pc[t] = "claim"
    /\ IF Word(t, "once") = UNINITIALIZED
       THEN /\ Store(t, "once", IN_PROGRESS) /\ Goto(t, "init")
            /\ inits' = [inits EXCEPT ![SpaceOf[t]] = @ + 1]
       ELSE Goto(t, "once") /\ UNCHANGED <<word, inits>>
    /\ UNCHANGED <<sleepers, table, arg, then, seq, ready, calls, ticket, marks>>

\* (mutant) the waiting callers are not woken
OnceDoneQuietly(t) ==
    /\ pc[t] = "init"
    /\ Store(t, "once", DONE) /\ Goto(t, "initialized")
    /\ UNCHANGED <<sleepers, table, arg, then, seq, ready, calls, inits, ticket, marks>>

OnceDone(t) ==
    /\ pc[t] = "init"
    /\ Store(t, "once", DONE)
    /\ Futex(t, "wake", "once", Everyone, "initialized")
    /\ UNCHANGED <<sleepers, table, seq, ready, calls, inits, ticket, marks>>

-----------------------------------------------------------------------------

Step(t) ==
    \/ FutexWait(t) \/ FutexWake(t) \/ FastLock(t) \/ Swap(t) \/ Unlock(t)
    \/ CondRelease(t) \/ CondSleep(t) \/ CondCheck(t)
    \/ OnceLook(t) \/ OnceClaim(t) \/ OnceDone(t)

Start(t) ==
    Lock(t) \/ TryLock(t) \/ CondWait(t) \/ Signal(t) \/ Broadcast(t) \/ Once(t)

Next == \E t \in Threads : Step(t) \/ Start(t) \/ Stray(t)

\* Threads are scheduled, the executor polls what is ready, and an owner unlocks.
Spec == Init /\ [][Next]_vars /\ \A t \in Threads : WF_vars(Step(t))

-----------------------------------------------------------------------------
(* Properties *)

Owns(t) == pc[t] \in {"owner", "release"} \/ (pc[t] = "wake" /\ then[t] = "owner")

\* The mutex word is unlocked exactly when nobody owns the mutex, and one thread
\* at a time does, whatever the interleaving of fast paths, slow paths, waiters of
\* the condition variable that lock again, and unlocks.
MutexWord ==
    \A s \in Spaces :
        LET owners == { t \in Threads : SpaceOf[t] = s /\ Owns(t) } IN
        /\ Cardinality(owners) <= 1
        /\ word[s]["mutex"] = UNLOCKED <=> owners = {}

SleepsOn(t, a) == pc[t] = "asleep" /\ t \notin ready /\ arg[t].addr = a

\* Somebody will take the mutex for contended, or wake a sleeper.
Hurrying(t) ==
    \/ pc[t] = "wake" /\ arg[t].addr = "mutex"
    \/ pc[t] = "swap"
    \/ pc[t] \in {"wait", "asleep"} /\ then[t] = "swap" /\ ~SleepsOn(t, "mutex")

\* No lost unlock: a thread sleeps on the mutex only if the word says so to the
\* owner, which will then wake it, or somebody is on the way who will see to it.
\* This holds as long as sleepers at the mutex are polled only because of a wake
\* there, no wake went to another space and no registration failed.
NoLostUnlock ==
    "mutex" \notin mixed \cup refused =>
        \A t \in Threads : SleepsOn(t, "mutex") =>
            \/ Word(t, "mutex") = LOCKED_WAITERS
            \/ \E u \in Threads : SpaceOf[u] = SpaceOf[t] /\ Hurrying(u)

\* FUTEX_WAKE for everyone wakes every thread of its address space that sleeps on
\* the address, however many entries it has, unless a registration has failed
\* there.  FUTEX_WAKE for count threads wakes as many, or all, unless the address
\* is mixed, also by this wake: a duplicate entry or another space may use it up.
WakeCounts ==
    [][\A t \in Threads : FutexWake(t) /\ arg[t].addr \notin refused =>
          LET asleep == { u \in Threads : SpaceOf[u] = SpaceOf[t] /\ SleepsOn(u, arg[t].addr) } IN
          \/ asleep \subseteq ready'
          \/ /\ arg[t].val # Everyone
             /\ arg[t].addr \in mixed' \/ Cardinality(asleep \cap ready') >= arg[t].val]_vars

\* pthread_once: the init routine runs at most once, and has finished when any
\* call returns.
OnceOnly ==
    /\ \A s \in Spaces : inits[s] <= 1
    /\ \A t, u \in Threads : pc[t] = "initialized" /\ SpaceOf[u] = SpaceOf[t] => pc[u] # "init"

\* No broadcast is missed: a thread that sleeps in pthread_cond_wait though a
\* broadcast came after it released the mutex is about to be woken (a signal may
\* be spent on another waiter), unless a registration failed there.
NoMissedBroadcast ==
    "Signal" \notin calls.ops /\ "cond" \notin refused =>
        \A t \in Threads : SleepsOn(t, "cond") /\ ticket[t] # Word(t, "cond") =>
            \E u \in Threads : pc[u] = "wake" /\ arg[u].addr = "cond"

Waits(t) ==
    \/ pc[t] \in {"lock", "swap", "once", "claim", "init"}
    \/ pc[t] \in {"wait", "asleep"} /\ then[t] \in {"swap", "once"}

\* Every lock and once call returns, as long as owners unlock and the init routine
\* ends, unless the mutex gets mixed or a registration fails.  A once call does not
\* mind being polled once more: the end of the init routine wakes every entry.
Served ==
    \A t \in Threads :
        Waits(t) ~> \/ Owns(t) \/ pc[t] = "initialized"
                    \/ "mutex" \in mixed \/ refused # {}
=============================================================================
