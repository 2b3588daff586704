---------------------------- MODULE PthreadProofs ---------------------------
(***************************************************************************)
(* Proofs about the mutexes, condition variables and once controls of the C  *)
(* library over the futex table, for any threads, address spaces and calls.  *)
(* What depends on the table holds at the addresses where no registration    *)
(* has failed; for the mutex and for FUTEX_WAKE of one thread, where sleepers *)
(* were polled because of wakes of their own space only.                     *)
(***************************************************************************)
EXTENDS Pthread, FiniteSetTheorems, TLAPS

USE PthreadAssumption

Labels == {"idle", "initialized", "wait", "asleep", "wake", "lock", "swap", "owner",
           "release", "condwait", "condcheck", "once", "claim", "init"}

Typed ==
    /\ word \in [Spaces -> [Addrs -> Nat]]
    /\ table \in [Addrs -> Seq(Threads)]
    /\ pc \in [Threads -> Labels]
    /\ arg \in [Threads -> [addr : Addrs, val : Nat]]
    /\ then \in [Threads -> Labels]
    /\ seq \in [Threads -> Nat]
    /\ ready \subseteq Threads
    /\ calls \in Load
    /\ ticket \in [Threads -> Nat]
    /\ inits \in [Spaces -> Nat]

\* What a thread waits for in FUTEX_WAIT, and where it goes on.
WaitsFor(t) ==
    \/ arg[t].addr = "mutex" /\ arg[t].val = LOCKED_WAITERS /\ then[t] = "swap"
    \/ arg[t].addr = "cond" /\ arg[t].val = seq[t] /\ then[t] = "condcheck"
    \/ arg[t].addr = "once" /\ arg[t].val = IN_PROGRESS /\ then[t] = "once"

\* Whom a thread wakes in FUTEX_WAKE, and where it goes on.
WakesUp(t) ==
    \/ arg[t].addr = "mutex" /\ arg[t].val = 1 /\ then[t] \in {"idle", "condwait"}
    \/ /\ arg[t].addr = "cond" /\ then[t] \in Idle \cup {"owner"}
       /\ arg[t].val = Everyone \/ (arg[t].val = 1 /\ "Signal" \in calls.ops)
    \/ arg[t].addr = "once" /\ arg[t].val = Everyone /\ then[t] = "initialized"

InCall ==
    \A t \in Threads : /\ pc[t] \in {"wait", "asleep"} => WaitsFor(t)
                       /\ pc[t] = "wake" => WakesUp(t)

\* One owner, and the word tells whether there is one.
Exclusive ==
    /\ \A t, u \in Threads : Owns(t) /\ Owns(u) /\ SpaceOf[t] = SpaceOf[u] => t = u
    /\ \A t \in Threads : Owns(t) => Word(t, "mutex") # UNLOCKED
    /\ \A s \in Spaces : word[s]["mutex"] # UNLOCKED => \E t \in Threads : SpaceOf[t] = s /\ Owns(t)

\* The thread that won the compare-exchange is the one in the init routine, as
\* long as the word says that it runs.
Returned(t) == pc[t] = "initialized" \/ (pc[t] = "wake" /\ then[t] = "initialized")

Initialized ==
    /\ \A s \in Spaces : /\ inits[s] <= 1
                         /\ word[s]["once"] = UNINITIALIZED => inits[s] = 0
    /\ \A t \in Threads : /\ pc[t] = "init" => Word(t, "once") = IN_PROGRESS
                          /\ Returned(t) => Word(t, "once") = DONE
    /\ \A t, u \in Threads : pc[t] = "init" /\ pc[u] = "init" /\ SpaceOf[t] = SpaceOf[u] => t = u

Asleep(a) == { t \in Threads : SleepsOn(t, a) }

\* Where only wakes of the own space were at work, the queue holds sleepers, each
\* once and under its own address.
Queued ==
    \A a \in Addrs : a \notin mixed =>
        /\ \A i \in 1 .. Len(table[a]) : table[a][i] \in Asleep(a)
        /\ \A i, j \in 1 .. Len(table[a]) : table[a][i] = table[a][j] => i = j

\* Every sleeper is in the table, unless a registration has failed there.
Found ==
    \A t \in Threads, a \in Addrs : SleepsOn(t, a) /\ a \notin refused =>
        \E i \in 1 .. Len(table[a]) : table[a][i] = t

\* A thread in pthread_cond_wait, and one that has released the mutex there.
Released(t) ==
    \/ pc[t] \in {"condwait", "condcheck"}
    \/ pc[t] \in {"wait", "asleep", "wake"} /\ then[t] \in {"condwait", "condcheck"}

Sequence ==
    \A t \in Threads :
        /\ pc[t] = "release" => seq[t] <= Word(t, "cond")
        /\ Released(t) => seq[t] <= ticket[t] /\ ticket[t] <= Word(t, "cond")

\* A sleeper whose sequence number has passed is about to be woken.
Broadcasts ==
    "Signal" \notin calls.ops /\ "cond" \notin refused =>
        \A t \in Threads : SleepsOn(t, "cond") =>
            \/ Word(t, "cond") = seq[t]
            \/ \E u \in Threads : pc[u] = "wake" /\ arg[u].addr = "cond"

IInv ==
    /\ Typed /\ InCall /\ Exclusive /\ Initialized /\ Queued /\ Sequence
    /\ Found /\ Broadcasts /\ NoLostUnlock

-----------------------------------------------------------------------------
(* What each step does, thread by thread *)

\* Nothing happens to the other threads.
Frame(t) ==
    \A u \in Threads : u # t =>
        /\ pc'[u] = pc[u] /\ arg'[u] = arg[u] /\ then'[u] = then[u]
        /\ seq'[u] = seq[u] /\ ticket'[u] = ticket[u]

\* Only the word at a of the space of t may change.
Elsewhere(t, a) ==
    /\ word' \in [Spaces -> [Addrs -> Nat]]
    /\ \A s \in Spaces, b \in Addrs : s # SpaceOf[t] \/ b # a => word'[s][b] = word[s][b]

\* Store writes the word of the thread's own space.
LEMMA StoreIs ==
    ASSUME Typed, NEW t \in Threads, NEW a \in Addrs, NEW v \in Nat, Store(t, a, v)
    PROVE  Elsewhere(t, a) /\ Word(t, a)' = v
  BY Zenon DEF Typed, Store, Elsewhere, Word

\* A thread that goes on moves alone.
LEMMA GotoIs ==
    ASSUME Typed, NEW t \in Threads, NEW l, Goto(t, l)
    PROVE  /\ pc'[t] = l /\ \A u \in Threads : u # t => pc'[u] = pc[u]
           /\ l \in Labels => pc' \in [Threads -> Labels]
  BY Zenon DEF Typed, Goto

\* A system call leaves its arguments and the place to return to.
LEMMA FutexIs ==
    ASSUME Typed, NEW t \in Threads, NEW op \in {"wait", "wake"}, NEW a \in Addrs, NEW v \in Nat,
           NEW l \in Labels, Futex(t, op, a, v, l)
    PROVE  /\ pc'[t] = op /\ arg'[t].addr = a /\ arg'[t].val = v /\ then'[t] = l
           /\ \A u \in Threads : u # t => pc'[u] = pc[u] /\ arg'[u] = arg[u] /\ then'[u] = then[u]
           /\ pc' \in [Threads -> Labels] /\ then' \in [Threads -> Labels]
           /\ arg' \in [Threads -> [addr : Addrs, val : Nat]]
<1>1. Goto(t, op) /\ op \in Labels
      BY Zenon DEF Futex, Labels
<1>2. arg' \in [Threads -> [addr : Addrs, val : Nat]] /\ arg'[t] = [addr |-> a, val |-> v]
      BY Zenon DEF Futex, Typed
<1>3. \A u \in Threads : u # t => arg'[u] = arg[u] /\ then'[u] = then[u]
      BY Zenon DEF Futex, Typed
<1>4. then' \in [Threads -> Labels] /\ then'[t] = l
      BY Zenon DEF Futex, Typed
<1> QED
      BY <1>1, <1>2, <1>3, <1>4, GotoIs

\* A call in use is counted.
LEMMA CallIs ==
    ASSUME Typed, NEW t \in Threads, NEW op, NEW from, Call(t, op, from)
    PROVE  /\ op \in calls.ops /\ pc[t] \in from /\ calls'.ops = calls.ops
           /\ calls' \in Load
<1>1. calls \in Load
      BY Zenon DEF Typed
<1>2. calls.left[t] \in Nat /\ calls.left[t] > 0 /\ calls.left \in [Threads -> Nat]
      BY <1>1, Zenon DEF Call, Load
<1>3. [calls.left EXCEPT ![t] = calls.left[t] - 1] \in [Threads -> Nat]
      BY <1>2
<1>4. calls' = [calls EXCEPT !.left = [calls.left EXCEPT ![t] = calls.left[t] - 1]]
      BY <1>1, <1>2, Zenon DEF Call
<1>5. calls' \in Load /\ calls'.ops = calls.ops
      BY <1>1, <1>3, <1>4 DEF Load
<1> QED
      BY <1>5, Zenon DEF Call

\* A poll of FUTEX_WAIT sleeps or goes on.
LEMMA FutexWaitIs ==
    ASSUME Typed, NEW t \in Threads, FutexWait(t)
    PROVE  /\ pc[t] = "wait" \/ (pc[t] = "asleep" /\ t \in ready)
           /\ ready' = ready \ {t}
           /\ \/ /\ Word(t, arg[t].addr) = arg[t].val /\ pc'[t] = "asleep"
                 /\ table' = FutexRegister(table, arg[t].addr, t, Room)
                 /\ refused' = refused \cup { a \in {arg[t].addr} : FutexFull(table, a, Room) }
              \/ /\ Word(t, arg[t].addr) # arg[t].val /\ pc'[t] = then[t]
                 /\ UNCHANGED <<table, refused>>
           /\ Frame(t) /\ pc' \in [Threads -> Labels]
           /\ UNCHANGED <<word, sleepers, arg, then, seq, calls, inits, ticket, mixed>>
<1>1. "asleep" \in Labels /\ then[t] \in Labels
      BY Zenon DEF Typed, Labels
<1> QED
      BY <1>1, GotoIs, Zenon DEF FutexWait, Frame

\* FUTEX_WAKE returns to its caller.
LEMMA FutexWakeIs ==
    ASSUME Typed, NEW t \in Threads, FutexWake(t)
    PROVE  /\ pc[t] = "wake" /\ pc'[t] = then[t] /\ Frame(t) /\ pc' \in [Threads -> Labels]
           /\ table' = FutexAfterWake(table, arg[t].addr, arg[t].val)
           /\ ready' = ready \cup { u \in FutexWoken(table, arg[t].addr, arg[t].val) :
                                      pc[u] = "asleep" /\ arg[u].addr = arg[t].addr }
           /\ mixed' = IF \E i \in 1 .. FutexToWake(table, arg[t].addr, arg[t].val) :
                              SpaceOf[table[arg[t].addr][i]] # SpaceOf[t]
                       THEN mixed \cup {arg[t].addr} ELSE mixed
           /\ UNCHANGED <<word, sleepers, arg, then, seq, calls, inits, ticket, refused>>
<1>1. then[t] \in Labels
      BY Zenon DEF Typed
<1> QED
      BY <1>1, GotoIs, Zenon DEF FutexWake, Frame

\* The fast path takes a free mutex or leaves for the slow path.
LEMMA FastLockIs ==
    ASSUME Typed, NEW t \in Threads, FastLock(t)
    PROVE  /\ pc[t] = "lock" /\ Frame(t) /\ pc' \in [Threads -> Labels] /\ Elsewhere(t, "mutex")
           /\ \/ Word(t, "mutex") = UNLOCKED /\ Word(t, "mutex")' = LOCKED /\ pc'[t] = "owner"
              \/ Word(t, "mutex") # UNLOCKED /\ word' = word /\ pc'[t] = "swap"
           /\ UNCHANGED <<sleepers, table, arg, then, seq, ready, calls, inits, ticket>>
<1>1. "owner" \in Labels /\ "swap" \in Labels /\ "mutex" \in Addrs /\ LOCKED \in Nat
      BY Zenon DEF Labels, Addrs, LOCKED
<1>2. CASE Word(t, "mutex") = UNLOCKED
  <2>1. Store(t, "mutex", LOCKED) /\ Goto(t, "owner")
        BY <1>2, Zenon DEF FastLock
  <2> QED
        BY <1>1, <1>2, <2>1, StoreIs, GotoIs, Zenon DEF FastLock, Frame
<1>3. CASE Word(t, "mutex") # UNLOCKED
  <2>1. UNCHANGED word /\ Goto(t, "swap")
        BY <1>3, Zenon DEF FastLock
  <2>2. Elsewhere(t, "mutex")
        BY <2>1, Zenon DEF Elsewhere, Typed
  <2> QED
        BY <1>1, <1>3, <2>1, <2>2, GotoIs, Zenon DEF FastLock, Frame
<1> QED
      BY <1>2, <1>3, Zenon

\* The slow path marks the mutex contended, and owns it or waits.
LEMMA SwapIs ==
    ASSUME Typed, NEW t \in Threads, Swap(t)
    PROVE  /\ pc[t] = "swap" /\ Frame(t) /\ pc' \in [Threads -> Labels] /\ Elsewhere(t, "mutex")
           /\ then' \in [Threads -> Labels] /\ arg' \in [Threads -> [addr : Addrs, val : Nat]]
           /\ Word(t, "mutex")' = LOCKED_WAITERS
           /\ \/ Word(t, "mutex") = UNLOCKED /\ pc'[t] = "owner" /\ UNCHANGED <<arg, then>>
              \/ /\ Word(t, "mutex") # UNLOCKED /\ pc'[t] = "wait" /\ then'[t] = "swap"
                 /\ arg'[t].addr = "mutex" /\ arg'[t].val = LOCKED_WAITERS
           /\ UNCHANGED <<sleepers, table, seq, ready, calls, inits, ticket>>
<1>1. "owner" \in Labels /\ "swap" \in Labels /\ "mutex" \in Addrs /\ LOCKED_WAITERS \in Nat
      BY Zenon DEF Labels, Addrs, LOCKED_WAITERS
<1>2. Elsewhere(t, "mutex") /\ Word(t, "mutex")' = LOCKED_WAITERS
      BY <1>1, StoreIs, Zenon DEF Swap
<1>3. CASE Word(t, "mutex") = UNLOCKED
  <2>1. Goto(t, "owner") /\ UNCHANGED <<arg, then>>
        BY <1>3, Zenon DEF Swap
  <2>2. then' \in [Threads -> Labels] /\ arg' \in [Threads -> [addr : Addrs, val : Nat]]
        BY <2>1, Zenon DEF Typed
  <2> QED
        BY <1>1, <1>2, <1>3, <2>1, <2>2, GotoIs, Zenon DEF Swap, Frame
<1>4. CASE Word(t, "mutex") # UNLOCKED
  <2>1. Futex(t, "wait", "mutex", LOCKED_WAITERS, "swap")
        BY <1>4, Zenon DEF Swap
  <2> QED
        BY <1>1, <1>2, <1>4, <2>1, FutexIs DEF Swap, Frame
<1> QED
      BY <1>3, <1>4, Zenon

\* A release frees the mutex, and wakes if there were waiters.
LEMMA ReleaseIs ==
    ASSUME Typed, NEW t \in Threads, NEW l \in Labels, Release(t, l), UNCHANGED seq,
           \A u \in Threads : u # t => ticket'[u] = ticket[u]
    PROVE  /\ Frame(t) /\ pc' \in [Threads -> Labels] /\ Elsewhere(t, "mutex")
           /\ then' \in [Threads -> Labels] /\ arg' \in [Threads -> [addr : Addrs, val : Nat]]
           /\ Word(t, "mutex")' = UNLOCKED
           /\ \/ /\ Word(t, "mutex") = LOCKED_WAITERS /\ pc'[t] = "wake" /\ then'[t] = l
                 /\ arg'[t].addr = "mutex" /\ arg'[t].val = 1
              \/ Word(t, "mutex") # LOCKED_WAITERS /\ pc'[t] = l /\ UNCHANGED <<arg, then>>
<1>1. "mutex" \in Addrs /\ UNLOCKED \in Nat
      BY Zenon DEF Addrs, UNLOCKED
<1>2. Elsewhere(t, "mutex") /\ Word(t, "mutex")' = UNLOCKED
      BY <1>1, StoreIs, Zenon DEF Release
<1>3. CASE Word(t, "mutex") = LOCKED_WAITERS
  <2>1. Futex(t, "wake", "mutex", 1, l)
        BY <1>3, Zenon DEF Release
  <2>2. /\ pc'[t] = "wake" /\ arg'[t].addr = "mutex" /\ arg'[t].val = 1 /\ then'[t] = l
        /\ \A u \in Threads : u # t => pc'[u] = pc[u] /\ arg'[u] = arg[u] /\ then'[u] = then[u]
        /\ pc' \in [Threads -> Labels] /\ then' \in [Threads -> Labels]
        /\ arg' \in [Threads -> [addr : Addrs, val : Nat]]
        BY <1>1, <2>1, FutexIs, Zenon
  <2> QED
        BY <1>2, <1>3, <2>2, Zenon DEF Frame
<1>4. CASE Word(t, "mutex") # LOCKED_WAITERS
  <2>1. Goto(t, l) /\ UNCHANGED <<arg, then>>
        BY <1>4, Zenon DEF Release
  <2>2. then' \in [Threads -> Labels] /\ arg' \in [Threads -> [addr : Addrs, val : Nat]]
        BY <2>1, Zenon DEF Typed
  <2> QED
        BY <1>2, <1>4, <2>1, <2>2, GotoIs, Zenon DEF Frame
<1> QED
      BY <1>3, <1>4, Zenon

\* pthread_mutex_unlock is a release.
LEMMA UnlockIs ==
    ASSUME Typed, NEW t \in Threads, Unlock(t)
    PROVE  pc[t] = "owner" /\ Release(t, "idle") /\ "idle" \in Labels
           /\ UNCHANGED <<sleepers, table, seq, ready, calls, inits, ticket>>
  BY Zenon DEF Unlock, Labels

\* pthread_cond_wait releases too, and its ticket is the number of that moment.
LEMMA CondReleaseIs ==
    ASSUME Typed, NEW t \in Threads, CondRelease(t)
    PROVE  /\ pc[t] = "release" /\ Release(t, "condwait") /\ "condwait" \in Labels
           /\ ticket' \in [Threads -> Nat] /\ ticket'[t] = Word(t, "cond")
           /\ \A u \in Threads : u # t => ticket'[u] = ticket[u]
           /\ UNCHANGED <<sleepers, table, seq, ready, calls, inits>>
<1>1. Word(t, "cond") \in Nat
      BY DEF Word, Typed, Addrs
<1>2. ticket \in [Threads -> Nat]
      BY Zenon DEF Typed
<1> QED
      BY <1>1, <1>2, Zenon DEF CondRelease, Labels

\* pthread_cond_wait waits for the number to change.
LEMMA CondSleepIs ==
    ASSUME Typed, NEW t \in Threads, CondSleep(t)
    PROVE  /\ pc[t] = "condwait" /\ pc'[t] = "wait" /\ then'[t] = "condcheck"
           /\ arg'[t].addr = "cond" /\ arg'[t].val = seq[t] /\ Frame(t)
           /\ pc' \in [Threads -> Labels] /\ then' \in [Threads -> Labels]
           /\ arg' \in [Threads -> [addr : Addrs, val : Nat]]
           /\ UNCHANGED <<word, sleepers, table, seq, ready, calls, inits, ticket>>
<1>1. "cond" \in Addrs /\ seq[t] \in Nat /\ "condcheck" \in Labels
      BY Zenon DEF Addrs, Typed, Labels
<1>2. Futex(t, "wait", "cond", seq[t], "condcheck")
      BY Zenon DEF CondSleep
<1> QED
      BY <1>1, <1>2, FutexIs, ZenonT(30) DEF CondSleep, Frame

\* A waiter whose number has changed locks again.
LEMMA CondCheckIs ==
    ASSUME Typed, NEW t \in Threads, CondCheck(t)
    PROVE  /\ pc[t] = "condcheck" /\ Frame(t) /\ pc' \in [Threads -> Labels]
           /\ \/ Word(t, "cond") = seq[t] /\ pc'[t] = "condwait"
              \/ Word(t, "cond") # seq[t] /\ pc'[t] = "lock"
           /\ UNCHANGED <<word, table, arg, then, seq, ready, calls, inits, ticket>>
<1>1. "condwait" \in Labels /\ "lock" \in Labels
      BY Zenon DEF Labels
<1> QED
      BY <1>1, GotoIs, Zenon DEF CondCheck, Frame

\* A signal or broadcast counts up and wakes.
LEMMA NotifyIs ==
    ASSUME Typed, NEW t \in Threads, NEW op \in {"Signal", "Broadcast"}, NEW n \in Nat, Notify(t, op, n)
    PROVE  /\ op \in calls.ops /\ pc[t] \in {"idle", "initialized", "owner"}
           /\ pc'[t] = "wake" /\ then'[t] = pc[t] /\ arg'[t].addr = "cond" /\ arg'[t].val = n
           /\ Elsewhere(t, "cond") /\ Word(t, "cond")' = Word(t, "cond") + 1 /\ Word(t, "cond") \in Nat
           /\ Frame(t) /\ pc' \in [Threads -> Labels] /\ then' \in [Threads -> Labels]
           /\ arg' \in [Threads -> [addr : Addrs, val : Nat]]
           /\ calls'.ops = calls.ops /\ calls' \in Load
           /\ UNCHANGED <<sleepers, table, seq, ready, inits, ticket>>
<1>1. "cond" \in Addrs /\ Word(t, "cond") \in Nat /\ pc[t] \in Labels
      BY DEF Addrs, Typed, Word
<1>2. /\ Futex(t, "wake", "cond", n, pc[t]) /\ Store(t, "cond", Word(t, "cond") + 1)
      /\ Call(t, op, Idle \cup {"owner"})
      BY Zenon DEF Notify
<1>3. /\ op \in calls.ops /\ pc[t] \in Idle \cup {"owner"} /\ calls'.ops = calls.ops
      /\ calls' \in Load
      BY <1>2, CallIs, Zenon
<1>4. Elsewhere(t, "cond") /\ Word(t, "cond")' = Word(t, "cond") + 1
      BY <1>1, <1>2, StoreIs
<1>5. /\ pc'[t] = "wake" /\ arg'[t].addr = "cond" /\ arg'[t].val = n /\ then'[t] = pc[t]
      /\ \A u \in Threads : u # t => pc'[u] = pc[u] /\ arg'[u] = arg[u] /\ then'[u] = then[u]
      /\ pc' \in [Threads -> Labels] /\ then' \in [Threads -> Labels]
      /\ arg' \in [Threads -> [addr : Addrs, val : Nat]]
      BY <1>1, <1>2, FutexIs, Zenon
<1>6. Frame(t)
      BY <1>5, Zenon DEF Frame, Notify
<1> QED
      BY <1>1, <1>3, <1>4, <1>5, <1>6, Zenon DEF Notify, Idle

\* i32::MAX is a number, and not one.
LEMMA EveryoneIs == Everyone \in Nat /\ Everyone # 1
  BY DEF Everyone

\* pthread_mutex_lock and pthread_once begin.
LEMMA EntryIs ==
    ASSUME Typed, NEW t \in Threads, Lock(t) \/ Once(t)
    PROVE  /\ pc[t] \in Idle /\ Frame(t) /\ pc' \in [Threads -> Labels]
           /\ pc'[t] \in {"lock", "once"} /\ calls'.ops = calls.ops
           /\ calls' \in Load
           /\ UNCHANGED <<word, sleepers, table, arg, then, seq, ready, inits, ticket>>
<1>1. PICK op \in {"Lock", "Once"}, l \in {"lock", "once"} : Call(t, op, Idle) /\ Goto(t, l)
      BY Zenon DEF Lock, Once
<1>2. l \in Labels
      BY Zenon DEF Labels
<1>3. UNCHANGED <<word, sleepers, table, arg, then, seq, ready, inits, ticket>>
      BY Zenon DEF Lock, Once
<1> QED
      BY <1>1, <1>2, <1>3, CallIs, GotoIs, Zenon DEF Frame

\* pthread_mutex_trylock takes a free mutex or fails.
LEMMA TryLockIs ==
    ASSUME Typed, NEW t \in Threads, TryLock(t)
    PROVE  /\ pc[t] \in Idle /\ Frame(t) /\ pc' \in [Threads -> Labels] /\ Elsewhere(t, "mutex")
           /\ \/ Word(t, "mutex") = UNLOCKED /\ Word(t, "mutex")' = LOCKED /\ pc'[t] = "owner"
              \/ word' = word /\ pc' = pc
           /\ calls'.ops = calls.ops
           /\ calls' \in Load
           /\ UNCHANGED <<sleepers, table, arg, then, seq, ready, inits, ticket>>
<1>1. "owner" \in Labels /\ "mutex" \in Addrs /\ LOCKED \in Nat
      BY Zenon DEF Labels, Addrs, LOCKED
<1>2. /\ pc[t] \in Idle /\ calls'.ops = calls.ops
      /\ calls' \in Load
      BY CallIs, Zenon DEF TryLock
<1>3. UNCHANGED <<sleepers, table, arg, then, seq, ready, inits, ticket>>
      BY Zenon DEF TryLock
<1>4. CASE Word(t, "mutex") = UNLOCKED
  <2>1. Store(t, "mutex", LOCKED) /\ Goto(t, "owner")
        BY <1>4, Zenon DEF TryLock
  <2> QED
        BY <1>1, <1>2, <1>3, <1>4, <2>1, StoreIs, GotoIs, Zenon DEF Frame
<1>5. CASE Word(t, "mutex") # UNLOCKED
  <2>1. word' = word /\ pc' = pc
        BY <1>5, Zenon DEF TryLock
  <2>2. pc \in [Threads -> Labels] /\ word \in [Spaces -> [Addrs -> Nat]]
        BY Zenon DEF Typed
  <2>3. Elsewhere(t, "mutex")
        BY <2>1, <2>2, Zenon DEF Elsewhere
  <2> QED
        BY <1>2, <1>3, <2>1, <2>2, <2>3, Zenon DEF Frame
<1> QED
      BY <1>4, <1>5, Zenon

\* pthread_cond_wait notes the number.
LEMMA CondWaitIs ==
    ASSUME Typed, NEW t \in Threads, CondWait(t)
    PROVE  /\ pc[t] = "owner" /\ pc'[t] = "release" /\ Frame(t) /\ pc' \in [Threads -> Labels]
           /\ seq' \in [Threads -> Nat] /\ seq'[t] = Word(t, "cond") /\ Word(t, "cond") \in Nat
           /\ calls'.ops = calls.ops
           /\ calls' \in Load
           /\ UNCHANGED <<word, table, arg, then, ready, inits, ticket>>
<1>1. Word(t, "cond") \in Nat /\ seq \in [Threads -> Nat] /\ "release" \in Labels
      BY DEF Word, Typed, Addrs, Labels
<1>2. /\ pc[t] \in {"owner"} /\ calls'.ops = calls.ops
      /\ calls' \in Load
      BY CallIs, Zenon DEF CondWait
<1>3. /\ seq' \in [Threads -> Nat] /\ seq'[t] = Word(t, "cond")
      /\ \A u \in Threads : u # t => seq'[u] = seq[u]
      BY <1>1, Zenon DEF CondWait
<1>4. Goto(t, "release") /\ UNCHANGED <<word, table, arg, then, ready, inits, ticket>>
      BY Zenon DEF CondWait
<1> QED
      BY <1>1, <1>2, <1>3, <1>4, GotoIs, Zenon DEF Frame

\* pthread_once returns, tries to claim or waits.
LEMMA OnceLookIs ==
    ASSUME Typed, NEW t \in Threads, OnceLook(t)
    PROVE  /\ pc[t] = "once" /\ Frame(t)
           /\ pc' \in [Threads -> Labels] /\ then' \in [Threads -> Labels]
           /\ arg' \in [Threads -> [addr : Addrs, val : Nat]]
           /\ \/ Word(t, "once") = DONE /\ pc'[t] = "initialized" /\ UNCHANGED <<arg, then>>
              \/ Word(t, "once") = UNINITIALIZED /\ pc'[t] = "claim" /\ UNCHANGED <<arg, then>>
              \/ /\ pc'[t] = "wait" /\ then'[t] = "once"
                 /\ arg'[t].addr = "once" /\ arg'[t].val = IN_PROGRESS
           /\ UNCHANGED <<word, sleepers, table, seq, ready, calls, inits, ticket>>
<1>1. /\ {"initialized", "claim", "once"} \subseteq Labels /\ "once" \in Addrs /\ IN_PROGRESS \in Nat
      /\ UNCHANGED <<word, sleepers, table, seq, ready, calls, inits, ticket>> /\ pc[t] = "once"
      BY Zenon DEF Labels, Addrs, IN_PROGRESS, OnceLook
<1>2. then \in [Threads -> Labels] /\ arg \in [Threads -> [addr : Addrs, val : Nat]]
      BY Zenon DEF Typed
<1>3. \/ Word(t, "once") = DONE /\ Goto(t, "initialized") /\ UNCHANGED <<arg, then>>
      \/ Word(t, "once") = UNINITIALIZED /\ Goto(t, "claim") /\ UNCHANGED <<arg, then>>
      \/ Futex(t, "wait", "once", IN_PROGRESS, "once")
      BY Zenon DEF OnceLook, DONE, UNINITIALIZED
<1>4. CASE Word(t, "once") = DONE /\ Goto(t, "initialized") /\ UNCHANGED <<arg, then>>
      BY <1>1, <1>2, <1>4, GotoIs, Zenon DEF Frame
<1>5. CASE Word(t, "once") = UNINITIALIZED /\ Goto(t, "claim") /\ UNCHANGED <<arg, then>>
      BY <1>1, <1>2, <1>5, GotoIs, Zenon DEF Frame
<1>6. CASE Futex(t, "wait", "once", IN_PROGRESS, "once")
      BY <1>1, <1>6, FutexIs, ZenonT(30) DEF Frame
<1> QED
      BY <1>3, <1>4, <1>5, <1>6, Zenon

\* One caller wins the claim.
LEMMA OnceClaimIs ==
    ASSUME Typed, NEW t \in Threads, OnceClaim(t)
    PROVE  /\ pc[t] = "claim" /\ Frame(t) /\ pc' \in [Threads -> Labels] /\ Elsewhere(t, "once")
           /\ inits' \in [Spaces -> Nat]
           /\ \/ /\ Word(t, "once") = UNINITIALIZED /\ Word(t, "once")' = IN_PROGRESS /\ pc'[t] = "init"
                 /\ inits'[SpaceOf[t]] = inits[SpaceOf[t]] + 1
                 /\ \A s \in Spaces : s # SpaceOf[t] => inits'[s] = inits[s]
              \/ word' = word /\ inits' = inits /\ pc'[t] = "once"
           /\ UNCHANGED <<sleepers, table, arg, then, seq, ready, calls, ticket>>
<1>1. /\ "init" \in Labels /\ "once" \in Labels /\ "once" \in Addrs /\ IN_PROGRESS \in Nat
      /\ UNCHANGED <<sleepers, table, arg, then, seq, ready, calls, ticket>> /\ pc[t] = "claim"
      BY Zenon DEF Labels, Addrs, IN_PROGRESS, OnceClaim
<1>2. inits \in [Spaces -> Nat] /\ SpaceOf[t] \in Spaces
      BY Zenon DEF Typed
<1>3. CASE Word(t, "once") = UNINITIALIZED
  <2>1. /\ Store(t, "once", IN_PROGRESS) /\ Goto(t, "init")
        /\ inits' = [inits EXCEPT ![SpaceOf[t]] = @ + 1]
        BY <1>3, Zenon DEF OnceClaim
  <2>2. /\ inits' \in [Spaces -> Nat] /\ inits'[SpaceOf[t]] = inits[SpaceOf[t]] + 1
        /\ \A s \in Spaces : s # SpaceOf[t] => inits'[s] = inits[s]
        BY <1>2, <2>1
  <2> QED
        BY <1>1, <1>3, <2>1, <2>2, StoreIs, GotoIs DEF Frame
<1>4. CASE Word(t, "once") # UNINITIALIZED
  <2>1. Goto(t, "once") /\ UNCHANGED <<word, inits>>
        BY <1>4, Zenon DEF OnceClaim
  <2>2. Elsewhere(t, "once")
        BY <2>1, Zenon DEF Elsewhere, Typed
  <2> QED
        BY <1>1, <1>2, <2>1, <2>2, GotoIs, Zenon DEF Frame
<1> QED
      BY <1>3, <1>4, Zenon

\* The end of the init routine wakes everyone.
LEMMA OnceDoneIs ==
    ASSUME Typed, NEW t \in Threads, OnceDone(t)
    PROVE  /\ pc[t] = "init" /\ Elsewhere(t, "once") /\ Word(t, "once")' = DONE
           /\ pc'[t] = "wake" /\ then'[t] = "initialized" /\ arg'[t].addr = "once"
           /\ arg'[t].val = Everyone /\ Frame(t)
           /\ pc' \in [Threads -> Labels] /\ then' \in [Threads -> Labels]
           /\ arg' \in [Threads -> [addr : Addrs, val : Nat]]
           /\ UNCHANGED <<sleepers, table, seq, ready, calls, inits, ticket>>
<1>1. "initialized" \in Labels /\ "once" \in Addrs /\ DONE \in Nat /\ Everyone \in Nat
      BY EveryoneIs, Zenon DEF Labels, Addrs, DONE
<1>2. /\ pc[t] = "init" /\ Store(t, "once", DONE) /\ Futex(t, "wake", "once", Everyone, "initialized")
      /\ UNCHANGED <<sleepers, table, seq, ready, calls, inits, ticket>>
      BY Zenon DEF OnceDone
<1>3. Elsewhere(t, "once") /\ Word(t, "once")' = DONE
      BY <1>1, <1>2, StoreIs, Zenon
<1> QED
      BY <1>1, <1>2, <1>3, FutexIs, ZenonT(30) DEF Frame

-----------------------------------------------------------------------------
(* The futex table *)

Table == [Addrs -> Seq(Threads)]

\* What is left of a sequence without its first k elements.
Rest(s, k) == SubSeq(s, k + 1, Len(s))

\* Dropping the first k elements keeps the others in order.
LEMMA RestIs ==
    ASSUME NEW S, NEW s \in Seq(S), NEW k \in 0 .. Len(s)
    PROVE  /\ Rest(s, k) \in Seq(S) /\ Len(Rest(s, k)) = Len(s) - k
           /\ \A i \in 1 .. Len(Rest(s, k)) : Rest(s, k)[i] = s[i + k]
<1>1. k \in Nat /\ Len(s) \in Nat /\ k <= Len(s)
      OBVIOUS
<1>2. Len(Rest(s, k)) = Len(s) - k
      BY <1>1 DEF Rest
<1>3. ASSUME NEW i \in 1 .. Len(Rest(s, k)) PROVE Rest(s, k)[i] = s[i + k]
      BY <1>1, <1>2 DEF Rest
<1>4. Rest(s, k) \in Seq(S)
      BY <1>1 DEF Rest
<1> QED
      BY <1>2, <1>3, <1>4, Zenon

\* register appends the caller, or does nothing when the table has no room.
LEMMA RegisterIs ==
    ASSUME Typed, NEW t \in Threads, NEW a \in Addrs, table' = FutexRegister(table, a, t, Room)
    PROVE  /\ table' \in Table
           /\ \A b \in Addrs : b # a => table'[b] = table[b]
           /\ table'[a] = table[a] \/ table'[a] = Append(table[a], t)
           /\ ~FutexFull(table, a, Room) => table'[a] = Append(table[a], t)
<1>1. table \in Table
      BY Zenon DEF Typed, Table
<1>2. /\ table' = table \/ table' = [table EXCEPT ![a] = Append(table[a], t)]
      /\ ~FutexFull(table, a, Room) => table' = [table EXCEPT ![a] = Append(table[a], t)]
      BY <1>1, Zenon DEF FutexRegister
<1>3. Append(table[a], t) \in Seq(Threads)
      BY <1>1 DEF Table
<1> QED
      BY <1>1, <1>2, <1>3, Zenon DEF Table

\* The k oldest entries at a are all that u has there.
Taken(u, a, k) ==
    /\ \E i \in 1 .. k : table[a][i] = u
    /\ \A i \in k + 1 .. Len(table[a]) : table[a][i] # u

\* wake takes the oldest k waiters out, and wakes who has none left.
LEMMA WakeIs ==
    ASSUME Typed, NEW a \in Addrs, NEW n \in Nat, table' = FutexAfterWake(table, a, n)
    PROVE  LET k == FutexToWake(table, a, n) IN
           /\ table' \in Table
           /\ \A b \in Addrs : b # a => table'[b] = table[b]
           /\ k \in 0 .. Len(table[a]) /\ (k = Len(table[a]) \/ (k = n /\ n # Everyone))
           /\ Len(table'[a]) = Len(table[a]) - k
           /\ \A i \in 1 .. Len(table'[a]) : table'[a][i] = table[a][i + k]
           /\ \A i \in 1 .. Len(table[a]) : i <= k <=> \A j \in 1 .. Len(table'[a]) : i # j + k
           /\ FutexWoken(table, a, n) = { u \in Threads : Taken(u, a, k) }
<1> DEFINE k == FutexToWake(table, a, n)
<1>1. table \in Table /\ table[a] \in Seq(Threads) /\ Len(table[a]) \in Nat
      BY DEF Typed, Table
<1>2. k \in 0 .. Len(table[a]) /\ (k = Len(table[a]) \/ (k = n /\ n # Everyone))
      BY <1>1 DEF FutexToWake
<1> DEFINE rest == Rest(table[a], k)
<1> HIDE DEF k
<1>3. table' = [table EXCEPT ![a] = rest]
      BY <1>1, Zenon DEF FutexAfterWake, Rest, k
<1>4. /\ rest \in Seq(Threads) /\ Len(rest) = Len(table[a]) - k
      /\ \A i \in 1 .. Len(rest) : rest[i] = table[a][i + k]
      BY <1>1, <1>2, RestIs, Zenon
<1> HIDE DEF rest
<1>5. FutexWoken(table, a, n) = { u \in Threads : Taken(u, a, k) }
      BY Zenon DEF FutexWoken, Taken, k
<1>6. table' \in Table /\ table'[a] = rest /\ \A b \in Addrs : b # a => table'[b] = table[b]
      BY <1>1, <1>3, <1>4, Zenon DEF Table
<1>7. \A i \in 1 .. Len(table[a]) : i <= k <=> \A j \in 1 .. Len(rest) : i # j + k
  <2>1. ASSUME NEW i \in 1 .. Len(table[a]), i > k PROVE i - k \in 1 .. Len(rest) /\ i = (i - k) + k
        BY <1>1, <1>2, <1>4, <2>1
  <2>2. ASSUME NEW i \in 1 .. Len(table[a]), i <= k, NEW j \in 1 .. Len(rest) PROVE i # j + k
        BY <1>1, <1>2, <1>4, <2>2
  <2> QED
        BY <1>1, <1>2, <2>1, <2>2
<1> QED
      BY <1>2, <1>4, <1>5, <1>6, <1>7, Zenon DEF k

-----------------------------------------------------------------------------
(* The types *)

\* The types after a signal or broadcast.
LEMMA NotifyKept ==
    ASSUME Typed, NEW t \in Threads, NEW op \in {"Signal", "Broadcast"}, NEW n \in Nat, Notify(t, op, n)
    PROVE  Typed'
<1>1. Elsewhere(t, "cond") /\ pc' \in [Threads -> Labels] /\ then' \in [Threads -> Labels]
      BY NotifyIs, Zenon
<1>2. arg' \in [Threads -> [addr : Addrs, val : Nat]]
      BY NotifyIs, Zenon
<1>3. calls' \in Load
      BY NotifyIs, Zenon
<1> QED
      BY <1>1, <1>2, <1>3, Zenon DEF Notify, Typed, Elsewhere

\* The types after any step.
LEMMA TypedKept ==
    ASSUME Typed, NEW t \in Threads, Step(t) \/ Start(t)
    PROVE  Typed'
<1>0. Everyone \in Nat /\ arg[t].addr \in Addrs /\ arg[t].val \in Nat /\ 1 \in Nat
      BY EveryoneIs, Zenon DEF Typed
<1>1. CASE FutexWait(t)
  <2>1. table' = FutexRegister(table, arg[t].addr, t, Room) \/ table' = table
        BY <1>1, FutexWaitIs, Zenon
  <2>2. table' \in [Addrs -> Seq(Threads)]
        BY <1>0, <2>1, RegisterIs, Zenon DEF Table, Typed
  <2> QED
        BY <1>1, <2>2, FutexWaitIs, Zenon DEF Typed
<1>2. CASE FutexWake(t)
  <2>1. /\ table' = FutexAfterWake(table, arg[t].addr, arg[t].val) /\ pc' \in [Threads -> Labels]
        /\ ready' = ready \cup { u \in FutexWoken(table, arg[t].addr, arg[t].val) :
                                   pc[u] = "asleep" /\ arg[u].addr = arg[t].addr }
        /\ UNCHANGED <<word, sleepers, arg, then, seq, calls, inits, ticket>>
        BY <1>2, FutexWakeIs, Zenon
  <2>2. table' \in [Addrs -> Seq(Threads)]
        BY <1>0, <2>1, WakeIs, Zenon DEF Table
  <2>3. ready' \subseteq Threads
        BY <2>1, Zenon DEF Typed, FutexWoken
  <2> QED
        BY <2>1, <2>2, <2>3, Zenon DEF Typed
<1>3. CASE FastLock(t)
      BY <1>3, FastLockIs, Zenon DEF Typed, Elsewhere
<1>4. CASE Swap(t)
      BY <1>4, SwapIs, Zenon DEF Typed, Elsewhere
<1>5. CASE Unlock(t)
  <2>1. Release(t, "idle") /\ "idle" \in Labels /\ UNCHANGED <<table, seq, ready, calls, inits, ticket>>
        BY <1>5, UnlockIs, Zenon
  <2> QED
        BY <2>1, ReleaseIs, Zenon DEF Typed, Elsewhere
<1>6. CASE CondRelease(t)
  <2>1. /\ Release(t, "condwait") /\ "condwait" \in Labels /\ ticket' \in [Threads -> Nat]
        /\ \A u \in Threads : u # t => ticket'[u] = ticket[u]
        /\ UNCHANGED <<table, seq, ready, calls, inits>>
        BY <1>6, CondReleaseIs, Zenon
  <2> QED
        BY <2>1, ReleaseIs, Zenon DEF Typed, Elsewhere
<1>7. CASE CondSleep(t)
      BY <1>7, CondSleepIs, Zenon DEF Typed
<1>8. CASE CondCheck(t)
      BY <1>8, CondCheckIs, Zenon DEF Typed
<1>9. CASE OnceLook(t)
      BY <1>9, OnceLookIs, Zenon DEF Typed
<1>10. CASE OnceClaim(t)
      BY <1>10, OnceClaimIs, Zenon DEF Typed, Elsewhere
<1>11. CASE OnceDone(t)
      BY <1>11, OnceDoneIs, Zenon DEF Typed, Elsewhere
<1>12. CASE Lock(t) \/ Once(t)
      BY <1>12, EntryIs, Zenon DEF Typed
<1>13. CASE TryLock(t)
      BY <1>13, TryLockIs, Zenon DEF Typed, Elsewhere
<1>14. CASE CondWait(t)
      BY <1>14, CondWaitIs, Zenon DEF Typed
<1>15. CASE Signal(t)
      BY <1>0, <1>15, NotifyKept, Zenon DEF Signal
<1>16. CASE Broadcast(t)
      BY <1>0, <1>16, NotifyKept, Zenon DEF Broadcast
<1> QED
      BY <1>1, <1>2, <1>3, <1>4, <1>5, <1>6, <1>7, <1>8, <1>9, <1>10, <1>11, <1>12, <1>13, <1>14,
         <1>15, <1>16, ZenonT(30) DEF Step, Start

-----------------------------------------------------------------------------
(* The arguments of futex calls *)

\* Only the thread that moves has to be looked at.
LEMMA InCallMove ==
    ASSUME InCall, NEW t \in Threads, Frame(t), calls'.ops = calls.ops,
           pc'[t] \in {"wait", "asleep"} => WaitsFor(t)', pc'[t] = "wake" => WakesUp(t)'
    PROVE  InCall'
<1>1. SUFFICES ASSUME NEW u \in Threads, u # t
               PROVE  /\ pc'[u] \in {"wait", "asleep"} => WaitsFor(u)'
                      /\ pc'[u] = "wake" => WakesUp(u)'
      BY Zenon DEF InCall
<1>2. /\ pc'[u] = pc[u] /\ arg'[u] = arg[u] /\ then'[u] = then[u] /\ seq'[u] = seq[u]
      BY <1>1, Zenon DEF Frame
<1>3. pc[u] \in {"wait", "asleep"} => WaitsFor(u)
      BY Zenon DEF InCall
<1>4. pc[u] = "wake" => WakesUp(u)
      BY Zenon DEF InCall
<1>5. WaitsFor(u) => WaitsFor(u)'
      BY <1>2, Zenon DEF WaitsFor
<1>6. WakesUp(u) => WakesUp(u)'
      BY <1>2, Zenon DEF WakesUp
<1> QED
      BY <1>2, <1>3, <1>4, <1>5, <1>6, Zenon

\* Every futex call has the arguments of its caller.
LEMMA InCallKept ==
    ASSUME Typed, InCall, NEW t \in Threads, Step(t) \/ Start(t)
    PROVE  InCall'
<1>1. CASE FutexWait(t)
  <2>1. /\ WaitsFor(t) /\ Frame(t) /\ calls'.ops = calls.ops /\ UNCHANGED <<arg, then, seq>>
        /\ pc'[t] = "asleep" \/ pc'[t] = then[t]
        BY <1>1, FutexWaitIs, Zenon DEF InCall
  <2>2. WaitsFor(t)'
        BY <2>1, Zenon DEF WaitsFor
  <2>3. pc'[t] # "wake"
        BY <2>1, Zenon DEF WaitsFor
  <2> QED
        BY <2>1, <2>2, <2>3, InCallMove, Zenon
<1>2. CASE FutexWake(t)
  <2>1. WakesUp(t) /\ Frame(t) /\ calls'.ops = calls.ops /\ pc'[t] = then[t]
        BY <1>2, FutexWakeIs, Zenon DEF InCall
  <2>2. pc'[t] \notin {"wait", "asleep", "wake"}
        BY <2>1, Zenon DEF WakesUp, Idle
  <2> QED
        BY <2>1, <2>2, InCallMove, Zenon
<1>3. CASE FastLock(t)
      BY <1>3, FastLockIs, InCallMove, Zenon
<1>4. CASE Swap(t)
  <2>1. /\ Frame(t) /\ calls'.ops = calls.ops /\ pc'[t] # "wake"
        /\ \/ pc'[t] = "owner"
           \/ then'[t] = "swap" /\ arg'[t].addr = "mutex" /\ arg'[t].val = LOCKED_WAITERS
        BY <1>4, SwapIs, Zenon
  <2> QED
        BY <2>1, InCallMove, Zenon DEF WaitsFor
<1>5. ASSUME NEW l \in {"idle", "condwait"}, l \in Labels, Release(t, l), UNCHANGED <<seq, calls>>,
             \A u \in Threads : u # t => ticket'[u] = ticket[u]
      PROVE  InCall'
  <2>1. /\ Frame(t) /\ calls'.ops = calls.ops
        /\ pc'[t] = l \/ (pc'[t] = "wake" /\ then'[t] = l /\ arg'[t].addr = "mutex" /\ arg'[t].val = 1)
        BY <1>5, ReleaseIs, ZenonT(30)
  <2>2. pc'[t] = "wake" => WakesUp(t)'
        BY <2>1, Zenon DEF WakesUp
  <2> QED
        BY <2>1, <2>2, InCallMove, Zenon
<1>6. CASE Unlock(t)
      BY <1>5, <1>6, UnlockIs, Zenon
<1>7. CASE CondRelease(t)
      BY <1>5, <1>7, CondReleaseIs, Zenon
<1>8. CASE CondSleep(t)
  <2>1. /\ Frame(t) /\ calls'.ops = calls.ops /\ pc'[t] = "wait" /\ seq' = seq
        /\ then'[t] = "condcheck" /\ arg'[t].addr = "cond" /\ arg'[t].val = seq[t]
        BY <1>8, CondSleepIs, Zenon
  <2> QED
        BY <2>1, InCallMove, Zenon DEF WaitsFor
<1>9. CASE CondCheck(t)
      BY <1>9, CondCheckIs, InCallMove, Zenon
<1>10. CASE OnceLook(t)
  <2>1. /\ Frame(t) /\ calls'.ops = calls.ops
        /\ \/ pc'[t] \in {"initialized", "claim"}
           \/ /\ pc'[t] = "wait" /\ then'[t] = "once"
              /\ arg'[t].addr = "once" /\ arg'[t].val = IN_PROGRESS
        BY <1>10, OnceLookIs, Zenon
  <2> QED
        BY <2>1, InCallMove, Zenon DEF WaitsFor
<1>11. CASE OnceClaim(t)
      BY <1>11, OnceClaimIs, InCallMove, Zenon
<1>12. CASE OnceDone(t)
  <2>1. /\ Frame(t) /\ calls'.ops = calls.ops /\ pc'[t] = "wake"
        /\ then'[t] = "initialized" /\ arg'[t].addr = "once" /\ arg'[t].val = Everyone
        BY <1>12, OnceDoneIs, Zenon
  <2>2. WakesUp(t)'
        BY <2>1, Zenon DEF WakesUp
  <2> QED
        BY <2>1, <2>2, InCallMove, Zenon
<1>13. CASE Lock(t) \/ Once(t)
      BY <1>13, EntryIs, InCallMove, Zenon
<1>14. CASE TryLock(t)
  <2>1. pc[t] \in Idle /\ Frame(t) /\ calls'.ops = calls.ops /\ (pc'[t] = "owner" \/ pc' = pc)
        BY <1>14, TryLockIs, Zenon
  <2> QED
        BY <2>1, InCallMove, Zenon DEF Idle
<1>15. CASE CondWait(t)
      BY <1>15, CondWaitIs, InCallMove, Zenon
<1>16. ASSUME NEW op \in {"Signal", "Broadcast"}, NEW n \in Nat, Notify(t, op, n),
              n = Everyone \/ (n = 1 /\ op = "Signal")
       PROVE  InCall'
  <2>0. Notify(t, op, n)
        BY <1>16, Zenon
  <2>1. pc'[t] = "wake" /\ then'[t] = pc[t] /\ arg'[t].addr = "cond" /\ arg'[t].val = n
        BY <2>0, NotifyIs
  <2>2. pc[t] \in {"idle", "initialized", "owner"} /\ op \in calls.ops
        BY <2>0, NotifyIs
  <2>3. Frame(t) /\ calls'.ops = calls.ops
        BY <2>0, NotifyIs, Zenon
  <2>4. WakesUp(t)'
        BY <1>16, <2>1, <2>2, <2>3, ZenonT(30) DEF WakesUp, Idle
  <2> QED
        BY <2>1, <2>3, <2>4, InCallMove, ZenonT(30)
<1>17. CASE Signal(t)
      BY <1>16, <1>17, Zenon DEF Signal
<1>18. CASE Broadcast(t)
  <2>1. Notify(t, "Broadcast", Everyone) /\ Everyone \in Nat
        BY <1>18, EveryoneIs, Zenon DEF Broadcast
  <2> QED
        BY <1>16, <2>1, Zenon
<1> QED
      BY <1>1, <1>2, <1>3, <1>4, <1>6, <1>7, <1>8, <1>9, <1>10, <1>11, <1>12, <1>13, <1>14, <1>15,
         <1>17, <1>18, ZenonT(30) DEF Step, Start

-----------------------------------------------------------------------------
(* The sleepers and the table *)

\* Outside the futex call nobody falls asleep or wakes up.
LEMMA Awake ==
    ASSUME Typed, NEW t \in Threads, Step(t) \/ Start(t), ~FutexWait(t), ~FutexWake(t)
    PROVE  /\ Frame(t) /\ UNCHANGED <<table, ready, mixed, refused>> /\ calls'.ops = calls.ops
           /\ pc[t] \notin {"wait", "asleep", "wake"} /\ pc'[t] # "asleep"
           /\ \A u \in Threads, a \in Addrs : SleepsOn(u, a)' <=> SleepsOn(u, a)
<1>1. /\ Frame(t) /\ UNCHANGED <<table, ready>> /\ calls'.ops = calls.ops
      /\ pc[t] \notin {"wait", "asleep", "wake"} /\ pc'[t] # "asleep"
  <2>1. CASE FastLock(t) \/ Swap(t) \/ CondSleep(t) \/ CondCheck(t)
        BY <2>1, FastLockIs, SwapIs, CondSleepIs, CondCheckIs, ZenonT(30)
  <2>2. CASE OnceLook(t) \/ OnceClaim(t) \/ OnceDone(t)
        BY <2>2, OnceLookIs, OnceClaimIs, OnceDoneIs, ZenonT(30)
  <2>3. CASE Unlock(t)
        BY <2>3, UnlockIs, ReleaseIs
  <2>4. CASE CondRelease(t)
        BY <2>4, CondReleaseIs, ReleaseIs, Zenon
  <2>5. CASE Lock(t) \/ Once(t) \/ CondWait(t)
        BY <2>5, EntryIs, CondWaitIs, Zenon DEF Idle
  <2>6. CASE TryLock(t)
        BY <2>6, TryLockIs, Zenon DEF Idle
  <2>7. ASSUME NEW op \in {"Signal", "Broadcast"}, NEW n \in Nat, Notify(t, op, n)
        PROVE  /\ Frame(t) /\ UNCHANGED <<table, ready>> /\ calls'.ops = calls.ops
               /\ pc[t] \notin {"wait", "asleep", "wake"} /\ pc'[t] # "asleep"
        BY <2>7, NotifyIs, ZenonT(30)
  <2>8. CASE Signal(t) \/ Broadcast(t)
        BY <2>7, <2>8, EveryoneIs, Zenon DEF Signal, Broadcast
  <2> QED
        BY <2>1, <2>2, <2>3, <2>4, <2>5, <2>6, <2>8, ZenonT(30) DEF Step, Start
<1>2. UNCHANGED marks
  <2>1. CASE Step(t)
        BY <2>1, Zenon DEF Step, FastLock, Swap, Unlock, CondRelease, CondSleep, CondCheck, OnceLook,
           OnceClaim, OnceDone
  <2>2. CASE Start(t)
        BY <2>2, Zenon DEF Start, Lock, TryLock, CondWait, Signal, Broadcast, Notify, Once
  <2> QED
        BY <2>1, <2>2, Zenon
<1>3. UNCHANGED <<mixed, refused>>
      BY <1>2, Zenon DEF marks
<1> QED
      BY <1>1, <1>3, Zenon DEF Frame, SleepsOn

\* A thread that polls FUTEX_WAIT does not sleep; it falls asleep or goes on.
LEMMA Polled ==
    ASSUME Typed, InCall, NEW t \in Threads, FutexWait(t)
    PROVE  /\ \A a \in Addrs : ~SleepsOn(t, a)
           /\ \A u \in Threads, a \in Addrs : u # t => (SleepsOn(u, a)' <=> SleepsOn(u, a))
           /\ \A a \in Addrs : SleepsOn(t, a)' <=> a = arg[t].addr /\ pc'[t] = "asleep"
           /\ pc'[t] = "asleep" \/ table' = table
<1>1. /\ pc[t] = "wait" \/ (pc[t] = "asleep" /\ t \in ready)
      /\ ready' = ready \ {t} /\ Frame(t) /\ arg' = arg
      /\ pc'[t] = "asleep" \/ table' = table
      BY FutexWaitIs, Zenon
<1> QED
      BY <1>1, Zenon DEF Frame, SleepsOn

\* The k oldest entries at a leave the table, and those who have none left there
\* sleep no more.
Wakes(a, k) ==
    /\ \A b \in Addrs : b # a => table'[b] = table[b]
    /\ k \in 0 .. Len(table[a]) /\ Len(table'[a]) = Len(table[a]) - k
    /\ \A i \in 1 .. Len(table'[a]) : table'[a][i] = table[a][i + k]
    /\ \A i \in 1 .. Len(table[a]) : i <= k <=> \A j \in 1 .. Len(table'[a]) : i # j + k
    /\ \A u \in Threads : SleepsOn(u, a) /\ Taken(u, a, k) => u \in ready'
    /\ \A u \in Threads, b \in Addrs :
          SleepsOn(u, b)' <=> SleepsOn(u, b) /\ ~(b = a /\ Taken(u, a, k))

\* What a wake at a that takes k entries out makes of mixed.
Spends(t, a, k) ==
    /\ \A b \in Addrs : b \notin mixed' => b \notin mixed
    /\ a \notin mixed' => \A i \in 1 .. k : SpaceOf[table[a][i]] = SpaceOf[t]

\* FUTEX_WAKE takes out as many entries as it was asked to, or all there are.
LEMMA Woken ==
    ASSUME Typed, InCall, NEW t \in Threads, FutexWake(t), NEW a \in Addrs, arg[t].addr = a
    PROVE  \E k \in Nat : /\ Wakes(a, k) /\ Spends(t, a, k)
                          /\ k = Len(table[a]) \/ (k = arg[t].val /\ arg[t].val # Everyone)
<1> DEFINE k == FutexToWake(table, a, arg[t].val)
<1>1. /\ pc[t] = "wake" /\ pc'[t] = then[t] /\ Frame(t) /\ arg' = arg
      /\ table' = FutexAfterWake(table, a, arg[t].val)
      /\ ready' = ready \cup { u \in FutexWoken(table, a, arg[t].val) :
                                 pc[u] = "asleep" /\ arg[u].addr = a }
      /\ mixed' = IF \E i \in 1 .. k : SpaceOf[table[a][i]] # SpaceOf[t]
                  THEN mixed \cup {a} ELSE mixed
      BY FutexWakeIs, Zenon
<1>2. arg[t].val \in Nat /\ Len(table[a]) \in Nat
      BY DEF Typed
<1>3. /\ \A b \in Addrs : b # a => table'[b] = table[b]
      /\ k \in 0 .. Len(table[a])
      /\ k = Len(table[a]) \/ (k = arg[t].val /\ arg[t].val # Everyone)
      /\ Len(table'[a]) = Len(table[a]) - k
      /\ \A i \in 1 .. Len(table'[a]) : table'[a][i] = table[a][i + k]
      /\ \A i \in 1 .. Len(table[a]) : i <= k <=> \A j \in 1 .. Len(table'[a]) : i # j + k
      /\ FutexWoken(table, a, arg[t].val) = { u \in Threads : Taken(u, a, k) }
      BY <1>1, <1>2, WakeIs, ZenonT(30)
<1> HIDE DEF k
<1>4. \A u \in Threads :
          u \in ready' <=> u \in ready \/ (pc[u] = "asleep" /\ arg[u].addr = a /\ Taken(u, a, k))
      BY <1>1, <1>3, Zenon
<1>5. pc'[t] # "asleep"
  <2>1. WakesUp(t)
        BY <1>1, Zenon DEF InCall
  <2> QED
        BY <1>1, <2>1, Zenon DEF WakesUp, Idle
<1>6. \A u \in Threads : u # t => pc'[u] = pc[u]
      BY <1>1, Zenon DEF Frame
<1>7. \A u \in Threads, b \in Addrs :
          SleepsOn(u, b)' <=> SleepsOn(u, b) /\ ~(b = a /\ Taken(u, a, k))
  <2>1. TAKE u \in Threads, b \in Addrs
  <2>2. arg'[u].addr = arg[u].addr
        BY <1>1, Zenon
  <2>3. CASE u = t
        BY <1>1, <1>5, <2>3, Zenon DEF SleepsOn
  <2>4. CASE u # t
        BY <1>4, <1>6, <2>2, <2>4, ZenonT(30) DEF SleepsOn
  <2> QED
        BY <2>3, <2>4, Zenon
<1>8. \A u \in Threads : SleepsOn(u, a) /\ Taken(u, a, k) => u \in ready'
      BY <1>4, Zenon DEF SleepsOn
<1>9. Wakes(a, k)
      BY <1>3, <1>7, <1>8, Zenon DEF Wakes
<1>10. Spends(t, a, k)
      BY <1>1, Zenon DEF Spends
<1>11. k \in Nat
      BY <1>2, <1>3, ZenonT(30)
<1> QED
      BY <1>3, <1>9, <1>10, <1>11, Zenon

-----------------------------------------------------------------------------
(* The mutex *)

\* A thread that comes to own the mutex has found it free.
LEMMA Acquired ==
    ASSUME Typed, Exclusive, NEW t \in Threads, Frame(t), Elsewhere(t, "mutex"),
           Word(t, "mutex") = UNLOCKED, Word(t, "mutex")' # UNLOCKED, Owns(t)'
    PROVE  Exclusive'
<1>1. \A u \in Threads : u # t => (Owns(u)' <=> Owns(u))
      BY Zenon DEF Frame, Owns
<1>2. \A u \in Threads : SpaceOf[u] = SpaceOf[t] => ~Owns(u)
      BY Zenon DEF Exclusive, Word
<1>3. \A s \in Spaces : s # SpaceOf[t] => word'[s]["mutex"] = word[s]["mutex"]
      BY Zenon DEF Elsewhere, Addrs
<1>4. SpaceOf[t] \in Spaces /\ \A u \in Threads : SpaceOf[u] \in Spaces
      BY Zenon
<1> QED
      BY <1>1, <1>2, <1>3, <1>4, SMTT(30) DEF Exclusive, Word

\* The owner leaves it free.
LEMMA Dropped ==
    ASSUME Typed, Exclusive, NEW t \in Threads, Frame(t), Elsewhere(t, "mutex"),
           Owns(t), Word(t, "mutex")' = UNLOCKED, ~Owns(t)'
    PROVE  Exclusive'
<1>1. \A u \in Threads : u # t => (Owns(u)' <=> Owns(u))
      BY Zenon DEF Frame, Owns
<1>2. \A u \in Threads : SpaceOf[u] = SpaceOf[t] => ~Owns(u)'
      BY <1>1, Zenon DEF Exclusive, Word
<1>3. \A s \in Spaces : s # SpaceOf[t] => word'[s]["mutex"] = word[s]["mutex"]
      BY Zenon DEF Elsewhere, Addrs
<1>4. SpaceOf[t] \in Spaces /\ \A u \in Threads : SpaceOf[u] \in Spaces
      BY Zenon
<1> QED
      BY <1>1, <1>2, <1>3, <1>4, ZenonT(30) DEF Exclusive, Word

\* Nothing else changes who owns it, or whether the word says so.
LEMMA OwnersKept ==
    ASSUME Typed, Exclusive, NEW t \in Threads, Frame(t), Owns(t)' <=> Owns(t),
           \A s \in Spaces : word'[s]["mutex"] = UNLOCKED <=> word[s]["mutex"] = UNLOCKED
    PROVE  Exclusive'
<1>1. \A u \in Threads : Owns(u)' <=> Owns(u)
      BY Zenon DEF Frame, Owns
<1>2. \A u \in Threads : SpaceOf[u] \in Spaces
      BY Zenon
<1> QED
      BY <1>1, <1>2, Zenon DEF Exclusive, Word

\* Each step keeps the mutex exclusive.
LEMMA ExclusiveKept ==
    ASSUME Typed, InCall, Exclusive, NEW t \in Threads, Step(t) \/ Start(t)
    PROVE  Exclusive'
<1>0. SpaceOf[t] \in Spaces /\ Addrs = {"mutex", "cond", "once"}
      BY Zenon DEF Addrs
<1>1. CASE FutexWait(t)
  <2>1. /\ Frame(t) /\ word' = word /\ pc[t] \in {"wait", "asleep"} /\ then' = then
        /\ pc'[t] = "asleep" \/ pc'[t] = then[t]
        BY <1>1, FutexWaitIs, Zenon
  <2>2. WaitsFor(t)
        BY <2>1, Zenon DEF InCall
  <2>3. ~Owns(t) /\ ~Owns(t)'
        BY <2>1, <2>2, Zenon DEF WaitsFor, Owns
  <2> QED
        BY <2>1, <2>3, OwnersKept, Zenon
<1>2. CASE FutexWake(t)
  <2>1. Frame(t) /\ word' = word /\ pc[t] = "wake" /\ pc'[t] = then[t]
        BY <1>2, FutexWakeIs, Zenon
  <2>2. WakesUp(t)
        BY <2>1, Zenon DEF InCall
  <2>3. Owns(t) <=> Owns(t)'
        BY <2>1, <2>2, Zenon DEF WakesUp, Owns, Idle
  <2> QED
        BY <2>1, <2>3, OwnersKept, Zenon
<1>3. CASE FastLock(t) \/ TryLock(t)
  <2>1. /\ Frame(t) /\ Elsewhere(t, "mutex") /\ ~Owns(t)
        /\ \/ Word(t, "mutex") = UNLOCKED /\ Word(t, "mutex")' = LOCKED /\ pc'[t] = "owner"
           \/ word' = word /\ ~Owns(t)'
        BY <1>3, FastLockIs, TryLockIs, Zenon DEF Owns, Idle
  <2>2. pc'[t] = "owner" => Owns(t)'
        BY Zenon DEF Owns
  <2> QED
        BY <2>1, <2>2, Acquired, OwnersKept DEF LOCKED, UNLOCKED
<1>4. CASE Swap(t)
  <2>1. /\ Frame(t) /\ Elsewhere(t, "mutex") /\ ~Owns(t) /\ Word(t, "mutex")' = LOCKED_WAITERS
        /\ \/ Word(t, "mutex") = UNLOCKED /\ pc'[t] = "owner"
           \/ Word(t, "mutex") # UNLOCKED /\ ~Owns(t)'
        BY <1>4, SwapIs, ZenonT(30) DEF Owns
  <2>2. pc'[t] = "owner" => Owns(t)'
        BY Zenon DEF Owns
  <2>3. CASE Word(t, "mutex") = UNLOCKED
        BY <2>1, <2>2, <2>3, Acquired DEF LOCKED_WAITERS, UNLOCKED
  <2>4. CASE Word(t, "mutex") # UNLOCKED
    <3>1. \A s \in Spaces : word'[s]["mutex"] = UNLOCKED <=> word[s]["mutex"] = UNLOCKED
          BY <1>0, <2>1, <2>4, SMTT(30) DEF Elsewhere, Word, LOCKED_WAITERS, UNLOCKED
    <3> QED
          BY <2>1, <2>4, <3>1, OwnersKept, ZenonT(30)
  <2> QED
        BY <2>3, <2>4, Zenon
<1>5. ASSUME NEW l \in {"idle", "condwait"}, l \in Labels, Release(t, l), UNCHANGED <<seq, calls>>,
             \A u \in Threads : u # t => ticket'[u] = ticket[u], Owns(t)
      PROVE  Exclusive'
  <2>1. /\ Frame(t) /\ Elsewhere(t, "mutex") /\ Word(t, "mutex")' = UNLOCKED
        /\ pc'[t] = l \/ (pc'[t] = "wake" /\ then'[t] = l)
        BY <1>5, ReleaseIs, Zenon
  <2>2. ~Owns(t)'
        BY <2>1, Zenon DEF Owns
  <2> QED
        BY <1>5, <2>1, <2>2, Dropped, ZenonT(30)
<1>6. CASE Unlock(t)
      BY <1>5, <1>6, UnlockIs, ZenonT(30) DEF Owns
<1>7. CASE CondRelease(t)
      BY <1>5, <1>7, CondReleaseIs, Zenon DEF Owns
<1>8. CASE CondSleep(t)
      BY <1>8, CondSleepIs, OwnersKept, Zenon DEF Owns
<1>9. CASE CondCheck(t)
      BY <1>9, CondCheckIs, OwnersKept, Zenon DEF Owns
<1>10. CASE OnceLook(t)
      BY <1>10, OnceLookIs, OwnersKept, Zenon DEF Owns
<1>11. CASE OnceClaim(t) \/ OnceDone(t)
  <2>1. /\ Frame(t) /\ Elsewhere(t, "once") /\ pc[t] \in {"claim", "init"}
        /\ pc'[t] \in {"once", "init"} \/ (pc'[t] = "wake" /\ then'[t] = "initialized")
        BY <1>11, OnceClaimIs, OnceDoneIs, Zenon
  <2>2. ~Owns(t) /\ ~Owns(t)'
        BY <2>1, Zenon DEF Owns
  <2>3. \A s \in Spaces : word'[s]["mutex"] = word[s]["mutex"]
        BY <1>0, <2>1, Zenon DEF Elsewhere
  <2> QED
        BY <2>1, <2>2, <2>3, OwnersKept, ZenonT(30)
<1>12. CASE Lock(t) \/ Once(t)
      BY <1>12, EntryIs, OwnersKept, ZenonT(30) DEF Owns, Idle
<1>13. CASE CondWait(t)
      BY <1>13, CondWaitIs, OwnersKept, Zenon DEF Owns
<1>14. ASSUME NEW op \in {"Signal", "Broadcast"}, NEW n \in Nat, Notify(t, op, n)
       PROVE  Exclusive'
  <2>1. /\ pc[t] \in {"idle", "initialized", "owner"} /\ pc'[t] = "wake"
        /\ then'[t] = pc[t] /\ Frame(t) /\ Elsewhere(t, "cond")
        BY <1>14, NotifyIs, ZenonT(30)
  <2>2. Owns(t) <=> Owns(t)'
        BY <2>1, Zenon DEF Owns
  <2>3. \A s \in Spaces : word'[s]["mutex"] = word[s]["mutex"]
        BY <1>0, <2>1, Zenon DEF Elsewhere
  <2> QED
        BY <2>1, <2>2, <2>3, OwnersKept, ZenonT(30)
<1>15. CASE Signal(t)
      BY <1>14, <1>15, Zenon DEF Signal
<1>16. CASE Broadcast(t)
      BY <1>14, <1>16, EveryoneIs, ZenonT(30) DEF Broadcast
<1> QED
      BY <1>1, <1>2, <1>3, <1>4, <1>6, <1>7, <1>8, <1>9, <1>10, <1>11, <1>12, <1>13, <1>15, <1>16,
         ZenonT(30) DEF Step, Start

-----------------------------------------------------------------------------
(* The once control *)

\* A step that leaves the word and the count alone, and neither enters the init
\* routine nor returns before it is over.
LEMMA OnceQuiet ==
    ASSUME Typed, Initialized, NEW t \in Threads, Frame(t), inits' = inits,
           \A s \in Spaces : word'[s]["once"] = word[s]["once"],
           pc'[t] # "init", Returned(t)' => Returned(t) \/ Word(t, "once") = DONE
    PROVE  Initialized'
<1>1. \A u \in Threads : u # t => (Returned(u)' <=> Returned(u)) /\ pc'[u] = pc[u]
      BY Zenon DEF Frame, Returned
<1>2. \A u \in Threads : SpaceOf[u] \in Spaces
      BY Zenon
<1>3. \A u \in Threads : Word(u, "once")' = Word(u, "once")
      BY <1>2, Zenon DEF Word
<1> QED
      BY <1>1, <1>3, Zenon DEF Initialized

\* Each step keeps the once control.
LEMMA InitializedKept ==
    ASSUME Typed, InCall, Initialized, NEW t \in Threads, Step(t) \/ Start(t)
    PROVE  Initialized'
<1>0. SpaceOf[t] \in Spaces /\ Addrs = {"mutex", "cond", "once"}
      BY Zenon DEF Addrs
<1>1. CASE FutexWait(t)
  <2>1. /\ Frame(t) /\ UNCHANGED <<word, inits>> /\ pc[t] \in {"wait", "asleep"}
        /\ pc'[t] = "asleep" \/ pc'[t] = then[t]
        BY <1>1, FutexWaitIs, Zenon
  <2>2. WaitsFor(t)
        BY <2>1, Zenon DEF InCall
  <2>3. pc'[t] \notin {"init", "initialized", "wake"}
        BY <2>1, <2>2, Zenon DEF WaitsFor
  <2> QED
        BY <2>1, <2>3, OnceQuiet, Zenon DEF Returned
<1>2. CASE FutexWake(t)
  <2>1. Frame(t) /\ UNCHANGED <<word, then, inits>> /\ pc[t] = "wake" /\ pc'[t] = then[t]
        BY <1>2, FutexWakeIs, Zenon
  <2>2. WakesUp(t)
        BY <2>1, Zenon DEF InCall
  <2>3. pc'[t] \notin {"init", "wake"} /\ (pc'[t] = "initialized" => then[t] = "initialized")
        BY <2>1, <2>2, Zenon DEF WakesUp, Idle
  <2> QED
        BY <2>1, <2>3, OnceQuiet, Zenon DEF Returned
<1>3. CASE FastLock(t) \/ TryLock(t)
  <2>1. /\ Frame(t) /\ Elsewhere(t, "mutex") /\ inits' = inits
        /\ pc'[t] \in {"owner", "swap"} \/ (pc[t] \in Idle /\ UNCHANGED <<pc, then>>)
        BY <1>3, FastLockIs, TryLockIs, Zenon
  <2>2. \A s \in Spaces : word'[s]["once"] = word[s]["once"]
        BY <1>0, <2>1, Zenon DEF Elsewhere
  <2>3. pc'[t] # "init" /\ (Returned(t)' => Returned(t))
        BY <2>1, Zenon DEF Returned, Idle
  <2> QED
        BY <2>1, <2>2, <2>3, OnceQuiet, ZenonT(30)
<1>4. CASE Swap(t)
  <2>1. Frame(t) /\ Elsewhere(t, "mutex") /\ inits' = inits /\ pc'[t] \in {"owner", "wait"}
        BY <1>4, SwapIs, Zenon
  <2>2. \A s \in Spaces : word'[s]["once"] = word[s]["once"]
        BY <1>0, <2>1, Zenon DEF Elsewhere
  <2> QED
        BY <2>1, <2>2, OnceQuiet, Zenon DEF Returned
<1>5. ASSUME NEW l \in {"idle", "condwait"}, l \in Labels, Release(t, l), UNCHANGED <<seq, inits>>,
             \A u \in Threads : u # t => ticket'[u] = ticket[u]
      PROVE  Initialized'
  <2>1. /\ Frame(t) /\ Elsewhere(t, "mutex")
        /\ pc'[t] = l \/ (pc'[t] = "wake" /\ then'[t] = l)
        BY <1>5, ReleaseIs, Zenon
  <2>2. \A s \in Spaces : word'[s]["once"] = word[s]["once"]
        BY <1>0, <2>1, Zenon DEF Elsewhere
  <2> QED
        BY <1>5, <2>1, <2>2, OnceQuiet, ZenonT(30) DEF Returned
<1>6. CASE Unlock(t)
      BY <1>5, <1>6, UnlockIs, ZenonT(30)
<1>7. CASE CondRelease(t)
      BY <1>5, <1>7, CondReleaseIs, ZenonT(30)
<1>8. CASE CondSleep(t)
      BY <1>8, CondSleepIs, OnceQuiet, ZenonT(30) DEF Returned
<1>9. CASE CondCheck(t)
      BY <1>9, CondCheckIs, OnceQuiet, Zenon DEF Returned
<1>10. CASE OnceLook(t)
      BY <1>10, OnceLookIs, OnceQuiet, ZenonT(30) DEF Returned
<1>11. CASE OnceClaim(t)
  <2>1. /\ Frame(t) /\ Elsewhere(t, "once") /\ inits' \in [Spaces -> Nat]
        /\ \/ /\ Word(t, "once") = UNINITIALIZED /\ Word(t, "once")' = IN_PROGRESS /\ pc'[t] = "init"
              /\ inits'[SpaceOf[t]] = inits[SpaceOf[t]] + 1
              /\ \A s \in Spaces : s # SpaceOf[t] => inits'[s] = inits[s]
           \/ word' = word /\ inits' = inits /\ pc'[t] = "once"
        BY <1>11, OnceClaimIs, Zenon
  <2>2. CASE word' = word /\ inits' = inits /\ pc'[t] = "once"
        BY <2>1, <2>2, OnceQuiet, ZenonT(30) DEF Returned
  <2>3. CASE /\ Word(t, "once") = UNINITIALIZED /\ Word(t, "once")' = IN_PROGRESS /\ pc'[t] = "init"
             /\ inits'[SpaceOf[t]] = inits[SpaceOf[t]] + 1
             /\ \A s \in Spaces : s # SpaceOf[t] => inits'[s] = inits[s]
    <3>1. \A u \in Threads : u # t => (Returned(u)' <=> Returned(u)) /\ pc'[u] = pc[u]
          BY <2>1, Zenon DEF Frame, Returned
    <3>2. \A s \in Spaces : s # SpaceOf[t] => word'[s]["once"] = word[s]["once"]
          BY <1>0, <2>1, ZenonT(30) DEF Elsewhere
    <3>3. \A u \in Threads : SpaceOf[u] = SpaceOf[t] => pc[u] # "init" /\ ~Returned(u)
          BY <2>3, SMTT(30) DEF Initialized, Word, UNINITIALIZED, IN_PROGRESS, DONE
    <3>4. \A u \in Threads : SpaceOf[u] \in Spaces
          BY Zenon
    <3>5. \A u \in Threads : SpaceOf[u] # SpaceOf[t] => Word(u, "once")' = Word(u, "once")
          BY <3>2, <3>4, Zenon DEF Word
    <3>6. ~Returned(t)'
          BY <2>3, Zenon DEF Returned
    <3>7. ASSUME NEW s \in Spaces
          PROVE  inits'[s] <= 1 /\ (word'[s]["once"] = UNINITIALIZED => inits'[s] = 0)
      <4>1. inits[s] <= 1 /\ (word[s]["once"] = UNINITIALIZED => inits[s] = 0)
            BY Zenon DEF Initialized
      <4>2. CASE s = SpaceOf[t]
            BY <2>3, <4>1, <4>2, SMTT(30) DEF Word, UNINITIALIZED, IN_PROGRESS
      <4>3. CASE s # SpaceOf[t]
            BY <2>3, <3>2, <4>1, <4>3, ZenonT(30)
      <4> QED
            BY <4>2, <4>3, Zenon
    <3>8. ASSUME NEW u \in Threads
          PROVE  /\ pc'[u] = "init" => Word(u, "once")' = IN_PROGRESS
                 /\ Returned(u)' => Word(u, "once")' = DONE
          BY <2>3, <3>1, <3>3, <3>5, <3>6, ZenonT(30) DEF Initialized
    <3>9. \A u, v \in Threads : pc'[u] = "init" /\ pc'[v] = "init" /\ SpaceOf[u] = SpaceOf[v] => u = v
          BY <3>1, <3>3, Zenon DEF Initialized
    <3> QED
          BY <3>7, <3>8, <3>9, ZenonT(30) DEF Initialized
  <2> QED
        BY <2>1, <2>2, <2>3, ZenonT(30)
<1>12. CASE OnceDone(t)
  <2>1. /\ Frame(t) /\ Elsewhere(t, "once") /\ Word(t, "once")' = DONE /\ inits' = inits
        /\ pc[t] = "init" /\ pc'[t] = "wake" /\ then'[t] = "initialized"
        BY <1>12, OnceDoneIs, Zenon
  <2>2. \A u \in Threads : u # t => (Returned(u)' <=> Returned(u)) /\ pc'[u] = pc[u]
        BY <2>1, Zenon DEF Frame, Returned
  <2>3. \A s \in Spaces : s # SpaceOf[t] => word'[s]["once"] = word[s]["once"]
        BY <1>0, <2>1, ZenonT(30) DEF Elsewhere
  <2>4. \A u \in Threads : SpaceOf[u] \in Spaces
        BY Zenon
  <2>5. \A u \in Threads : SpaceOf[u] # SpaceOf[t] => Word(u, "once")' = Word(u, "once")
        BY <2>3, <2>4, Zenon DEF Word
  <2>6. \A u \in Threads : SpaceOf[u] = SpaceOf[t] => Word(u, "once")' = DONE
        BY <2>1, Zenon DEF Word
  <2>7. \A u \in Threads : pc'[u] = "init" => SpaceOf[u] # SpaceOf[t]
        BY <2>1, <2>2, ZenonT(30) DEF Initialized
  <2>8. \A s \in Spaces : word'[s]["once"] = UNINITIALIZED => inits'[s] = 0
        BY <2>1, <2>3, SMTT(30) DEF Initialized, Word, DONE, UNINITIALIZED
  <2>9. ASSUME NEW u \in Threads, pc'[u] = "init" PROVE Word(u, "once")' = IN_PROGRESS
    <3>1. pc[u] = "init" /\ SpaceOf[u] # SpaceOf[t]
          BY <2>1, <2>2, <2>7, <2>9, ZenonT(30)
    <3> QED
          BY <2>5, <3>1, Zenon DEF Initialized
  <2>10. ASSUME NEW u \in Threads, Returned(u)' PROVE Word(u, "once")' = DONE
    <3>1. u = t \/ Returned(u)
          BY <2>2, <2>10, Zenon
    <3>2. CASE SpaceOf[u] = SpaceOf[t]
          BY <2>6, <3>2, Zenon
    <3>3. CASE SpaceOf[u] # SpaceOf[t]
          BY <2>5, <3>1, <3>3, ZenonT(30) DEF Initialized
    <3> QED
          BY <3>2, <3>3, Zenon
  <2>11. \A u, v \in Threads : pc'[u] = "init" /\ pc'[v] = "init" /\ SpaceOf[u] = SpaceOf[v] => u = v
        BY <2>1, <2>2, Zenon DEF Initialized
  <2>12. \A s \in Spaces : inits'[s] <= 1
        BY <2>1, Zenon DEF Initialized
  <2> QED
        BY <2>8, <2>9, <2>10, <2>11, <2>12, ZenonT(30) DEF Initialized
<1>13. CASE Lock(t) \/ Once(t)
      BY <1>13, EntryIs, OnceQuiet, ZenonT(30) DEF Returned
<1>14. CASE CondWait(t)
      BY <1>14, CondWaitIs, OnceQuiet, Zenon DEF Returned
<1>15. ASSUME NEW op \in {"Signal", "Broadcast"}, NEW n \in Nat, Notify(t, op, n)
       PROVE  Initialized'
  <2>1. /\ pc[t] \in {"idle", "initialized", "owner"} /\ pc'[t] = "wake"
        /\ then'[t] = pc[t] /\ Frame(t) /\ Elsewhere(t, "cond") /\ inits' = inits
        BY <1>15, NotifyIs, ZenonT(30)
  <2>2. Returned(t)' => Returned(t)
        BY <2>1, Zenon DEF Returned
  <2>3. \A s \in Spaces : word'[s]["once"] = word[s]["once"]
        BY <1>0, <2>1, Zenon DEF Elsewhere
  <2> QED
        BY <2>1, <2>2, <2>3, OnceQuiet, ZenonT(30)
<1>16. CASE Signal(t)
      BY <1>15, <1>16, Zenon DEF Signal
<1>17. CASE Broadcast(t)
      BY <1>15, <1>17, EveryoneIs, Zenon DEF Broadcast
<1> QED
      BY <1>1, <1>2, <1>3, <1>4, <1>6, <1>7, <1>8, <1>9, <1>10, <1>11, <1>12, <1>13, <1>14, <1>16,
         <1>17, ZenonT(30) DEF Step, Start

-----------------------------------------------------------------------------
(* The sequence number *)

\* Nobody enters pthread_cond_wait, and no sequence number goes back.
LEMMA SequenceMove ==
    ASSUME Typed, Typed', Sequence, NEW t \in Threads, Frame(t), UNCHANGED <<seq, ticket>>,
           \A u \in Threads : Word(u, "cond")' >= Word(u, "cond"),
           pc'[t] # "release", Released(t)' => Released(t)
    PROVE  Sequence'
<1>1. \A u \in Threads : u # t => (Released(u)' <=> Released(u)) /\ pc'[u] = pc[u]
      BY Zenon DEF Frame, Released
<1>2. ASSUME NEW u \in Threads
      PROVE  /\ Word(u, "cond") \in Nat /\ Word(u, "cond")' \in Nat
             /\ seq[u] \in Nat /\ ticket[u] \in Nat
  <2>1. SpaceOf[u] \in Spaces /\ "cond" \in Addrs
        BY Zenon DEF Addrs
  <2>2. word \in [Spaces -> [Addrs -> Nat]] /\ word' \in [Spaces -> [Addrs -> Nat]]
        BY Zenon DEF Typed
  <2>3. seq[u] \in Nat /\ ticket[u] \in Nat
        BY Zenon DEF Typed
  <2> QED
        BY <2>1, <2>2, <2>3, Zenon DEF Word
<1>3. ASSUME NEW u \in Threads PROVE pc'[u] = "release" => seq'[u] <= Word(u, "cond")'
  <2>1. pc'[u] = "release" => pc[u] = "release" /\ seq[u] <= Word(u, "cond")
        BY <1>1, Zenon DEF Sequence
  <2> QED
        BY <1>2, <2>1
<1>4. ASSUME NEW u \in Threads, Released(u)'
      PROVE  seq'[u] <= ticket'[u] /\ ticket'[u] <= Word(u, "cond")'
  <2>1. seq[u] <= ticket[u] /\ ticket[u] <= Word(u, "cond")
        BY <1>1, <1>4, Zenon DEF Sequence
  <2> QED
        BY <1>2, <2>1
<1> QED
      BY <1>3, <1>4, Zenon DEF Sequence

\* A store elsewhere leaves the sequence number alone.
LEMMA CondElsewhere ==
    ASSUME Typed, NEW t \in Threads, NEW a \in {"mutex", "once"}, Elsewhere(t, a) \/ word' = word
    PROVE  \A u \in Threads : /\ Word(u, "cond")' = Word(u, "cond")
                              /\ Word(u, "cond")' >= Word(u, "cond")
<1>1. \A u \in Threads : SpaceOf[u] \in Spaces /\ Word(u, "cond") \in Nat
      BY DEF Typed, Word, Addrs
<1>2. \A s \in Spaces : word'[s]["cond"] = word[s]["cond"]
      BY Zenon DEF Elsewhere, Addrs
<1> QED
      BY <1>1, <1>2 DEF Word

\* Each step keeps ticket and sequence number in order.
LEMMA SequenceKept ==
    ASSUME Typed, Typed', InCall, Sequence, NEW t \in Threads, Step(t) \/ Start(t)
    PROVE  Sequence'
<1>1. CASE FutexWait(t)
  <2>1. /\ Frame(t) /\ UNCHANGED <<word, seq, ticket, then>> /\ pc[t] \in {"wait", "asleep"}
        /\ pc'[t] = "asleep" \/ pc'[t] = then[t]
        BY <1>1, FutexWaitIs, Zenon
  <2>2. WaitsFor(t)
        BY <2>1, Zenon DEF InCall
  <2>3. pc'[t] # "release" /\ (Released(t)' => Released(t))
        BY <2>1, <2>2, Zenon DEF WaitsFor, Released
  <2> QED
        BY <2>1, <2>3, CondElsewhere, SequenceMove, ZenonT(30)
<1>2. CASE FutexWake(t)
  <2>1. Frame(t) /\ UNCHANGED <<word, seq, ticket, then>> /\ pc[t] = "wake" /\ pc'[t] = then[t]
        BY <1>2, FutexWakeIs, ZenonT(30)
  <2>2. WakesUp(t)
        BY <2>1, Zenon DEF InCall
  <2>3. pc'[t] # "release" /\ (Released(t)' => Released(t))
        BY <2>1, <2>2, Zenon DEF WakesUp, Released, Idle
  <2> QED
        BY <2>1, <2>3, CondElsewhere, SequenceMove, ZenonT(30)
<1>3. CASE FastLock(t) \/ Swap(t)
  <2>1. /\ Frame(t) /\ Elsewhere(t, "mutex") /\ UNCHANGED <<seq, ticket>>
        /\ pc'[t] \in {"owner", "swap"} \/ (pc'[t] = "wait" /\ then'[t] = "swap")
        BY <1>3, FastLockIs, SwapIs, ZenonT(30)
  <2> QED
        BY <2>1, CondElsewhere, SequenceMove, ZenonT(30) DEF Released
<1>4. CASE TryLock(t)
  <2>1. /\ Frame(t) /\ Elsewhere(t, "mutex") /\ UNCHANGED <<seq, ticket>>
        /\ pc'[t] = "owner" \/ (pc[t] \in Idle /\ pc' = pc)
        BY <1>4, TryLockIs, Zenon
  <2> QED
        BY <2>1, CondElsewhere, SequenceMove, ZenonT(30) DEF Released, Idle
<1>5. CASE Unlock(t)
  <2>1. Release(t, "idle") /\ "idle" \in Labels /\ UNCHANGED <<seq, ticket>>
        BY <1>5, UnlockIs, Zenon
  <2>2. /\ Frame(t) /\ Elsewhere(t, "mutex")
        /\ pc'[t] = "idle" \/ (pc'[t] = "wake" /\ then'[t] = "idle")
        BY <2>1, ReleaseIs, ZenonT(30)
  <2> QED
        BY <2>1, <2>2, CondElsewhere, SequenceMove, ZenonT(30) DEF Released
<1>6. CASE CondRelease(t)
  <2>1. /\ Release(t, "condwait") /\ "condwait" \in Labels /\ seq' = seq /\ pc[t] = "release"
        /\ ticket'[t] = Word(t, "cond") /\ \A u \in Threads : u # t => ticket'[u] = ticket[u]
        BY <1>6, CondReleaseIs, Zenon
  <2>2. /\ Frame(t) /\ Elsewhere(t, "mutex")
        /\ pc'[t] = "condwait" \/ (pc'[t] = "wake" /\ then'[t] = "condwait")
        BY <2>1, ReleaseIs, Zenon
  <2>3. \A u \in Threads : Word(u, "cond")' = Word(u, "cond")
        BY <2>2, CondElsewhere, Zenon
  <2>4. \A u \in Threads : u # t => (Released(u)' <=> Released(u)) /\ pc'[u] = pc[u]
        BY <2>2, Zenon DEF Frame, Released
  <2>5. Word(t, "cond") \in Nat /\ seq[t] \in Nat
        BY SMTT(30) DEF Typed, Word, Addrs
  <2> QED
        BY <2>1, <2>2, <2>3, <2>4, <2>5, SMTT(30) DEF Sequence
<1>7. CASE CondSleep(t)
      BY <1>7, CondSleepIs, CondElsewhere, SequenceMove, Zenon DEF Released
<1>8. CASE CondCheck(t)
      BY <1>8, CondCheckIs, CondElsewhere, SequenceMove, ZenonT(30) DEF Released
<1>9. CASE OnceLook(t)
      BY <1>9, OnceLookIs, CondElsewhere, SequenceMove, ZenonT(30) DEF Released
<1>10. CASE OnceClaim(t) \/ OnceDone(t)
  <2>1. /\ Frame(t) /\ Elsewhere(t, "once") /\ UNCHANGED <<seq, ticket>>
        /\ pc'[t] \in {"once", "init"} \/ (pc'[t] = "wake" /\ then'[t] = "initialized")
        BY <1>10, OnceClaimIs, OnceDoneIs, ZenonT(30)
  <2> QED
        BY <2>1, CondElsewhere, SequenceMove, ZenonT(30) DEF Released
<1>11. CASE Lock(t) \/ Once(t)
      BY <1>11, EntryIs, CondElsewhere, SequenceMove, ZenonT(30) DEF Released
<1>12. CASE CondWait(t)
  <2>1. /\ Frame(t) /\ word' = word /\ seq'[t] = Word(t, "cond") /\ Word(t, "cond") \in Nat
        /\ pc'[t] = "release"
        BY <1>12, CondWaitIs, ZenonT(30)
  <2>2. \A u \in Threads : u # t => (Released(u)' <=> Released(u)) /\ pc'[u] = pc[u]
                                    /\ seq'[u] = seq[u] /\ ticket'[u] = ticket[u]
        BY <2>1, Zenon DEF Frame, Released
  <2>3. \A u \in Threads : Word(u, "cond")' = Word(u, "cond")
        BY <2>1, Zenon DEF Word
  <2>4. ~Released(t)'
        BY <2>1, Zenon DEF Released
  <2> QED
        BY <2>1, <2>2, <2>3, <2>4, SMTT(30) DEF Sequence
<1>13. ASSUME NEW op \in {"Signal", "Broadcast"}, NEW n \in Nat, Notify(t, op, n)
       PROVE  Sequence'
  <2>1. /\ pc[t] \in {"idle", "initialized", "owner"} /\ pc'[t] = "wake" /\ then'[t] = pc[t]
        /\ Frame(t) /\ Elsewhere(t, "cond") /\ Word(t, "cond")' = Word(t, "cond") + 1
        BY <1>13, NotifyIs, ZenonT(30)
  <2>2. UNCHANGED <<seq, ticket>>
        BY <1>13, Zenon DEF Notify
  <2>3. ASSUME NEW u \in Threads PROVE Word(u, "cond")' >= Word(u, "cond")
    <3>1. Word(u, "cond") \in Nat /\ SpaceOf[u] \in Spaces /\ "cond" \in Addrs
          BY DEF Word, Typed, Addrs
    <3>2. CASE SpaceOf[u] = SpaceOf[t]
          BY <2>1, <3>1, <3>2, SMTT(30) DEF Word
    <3>3. CASE SpaceOf[u] # SpaceOf[t]
          BY <2>1, <3>1, <3>3, SMTT(30) DEF Word, Elsewhere
    <3> QED
          BY <3>2, <3>3, Zenon
  <2>4. ~Released(t)'
        BY <2>1, Zenon DEF Released
  <2> QED
        BY <2>1, <2>2, <2>3, <2>4, SequenceMove, ZenonT(30)
<1>14. CASE Signal(t)
      BY <1>13, <1>14, ZenonT(30) DEF Signal
<1>15. CASE Broadcast(t)
      BY <1>13, <1>15, EveryoneIs, ZenonT(30) DEF Broadcast
<1> QED
      BY <1>1, <1>2, <1>3, <1>4, <1>5, <1>6, <1>7, <1>8, <1>9, <1>10, <1>11, <1>12, <1>14, <1>15,
         ZenonT(30) DEF Step, Start

-----------------------------------------------------------------------------
(* The queues *)

\* Each step keeps the queues to sleepers.
LEMMA QueuedKept ==
    ASSUME Typed, InCall, Queued, NEW t \in Threads, Step(t) \/ Start(t)
    PROVE  Queued'
<1>0. \A c \in Addrs : table[c] \in Seq(Threads) /\ Len(table[c]) \in Nat
      BY DEF Typed
<1>10. SUFFICES ASSUME NEW b \in Addrs, b \notin mixed'
                PROVE  /\ \A i \in 1 .. Len(table'[b]) : table'[b][i] \in Asleep(b)'
                       /\ \A i, j \in 1 .. Len(table'[b]) : table'[b][i] = table'[b][j] => i = j
      BY Zenon DEF Queued
<1>11. b \notin mixed =>
          /\ \A i \in 1 .. Len(table[b]) : table[b][i] \in Asleep(b)
          /\ \A i, j \in 1 .. Len(table[b]) : table[b][i] = table[b][j] => i = j
      BY Zenon DEF Queued
<1>1. CASE FutexWait(t)
  <2>1. PICK a \in Addrs : arg[t].addr = a
        BY Zenon DEF Typed
  <2>2. b \notin mixed
        BY <1>1, <1>10, FutexWaitIs, Zenon
  <2>3. \A i \in 1 .. Len(table[b]) : table[b][i] # t /\ table[b][i] \in Asleep(b)'
    <3>1. ASSUME NEW u \in Asleep(b) PROVE u # t /\ u \in Asleep(b)'
          BY <1>1, <3>1, Polled, ZenonT(30) DEF Asleep
    <3> QED
          BY <1>11, <2>2, <3>1, Zenon
  <2>4. CASE table'[b] = table[b]
        BY <1>11, <2>2, <2>3, <2>4, ZenonT(30)
  <2>5. CASE table'[b] # table[b]
    <3>1. table' = FutexRegister(table, a, t, Room) /\ pc'[t] = "asleep"
          BY <1>1, <2>1, <2>5, FutexWaitIs, ZenonT(30)
    <3>2. b = a /\ table'[b] = Append(table[b], t)
          BY <2>1, <2>5, <3>1, RegisterIs, ZenonT(30)
    <3>3. t \in Asleep(b)'
          BY <1>1, <2>1, <3>1, <3>2, Polled, ZenonT(30) DEF Asleep
    <3>4. /\ Len(table'[b]) = Len(table[b]) + 1 /\ table'[b][Len(table[b]) + 1] = t
          /\ \A i \in 1 .. Len(table[b]) : table'[b][i] = table[b][i]
          BY <1>0, <3>2
    <3>5. Len(table[b]) \in Nat
          BY <1>0, Zenon
    <3>6. \A i \in 1 .. Len(table'[b]) : i \in 1 .. Len(table[b]) \/ i = Len(table[b]) + 1
          BY <3>4, <3>5
    <3>7. \A i \in 1 .. Len(table[b]) : table'[b][i] # t /\ table'[b][i] \in Asleep(b)'
          BY <2>3, <3>4, ZenonT(30)
    <3>8. \A i, j \in 1 .. Len(table[b]) : table'[b][i] = table'[b][j] => i = j
          BY <1>11, <2>2, <3>4, ZenonT(30)
    <3>9. \A i \in 1 .. Len(table'[b]) : table'[b][i] \in Asleep(b)'
          BY <3>3, <3>4, <3>6, <3>7, ZenonT(30)
    <3> QED
          BY <3>4, <3>6, <3>7, <3>8, <3>9, ZenonT(30)
  <2> QED
        BY <2>4, <2>5, Zenon
<1>2. CASE FutexWake(t)
  <2>1. PICK a \in Addrs : arg[t].addr = a
        BY Zenon DEF Typed
  <2>2. PICK k \in Nat : Wakes(a, k) /\ Spends(t, a, k)
        BY <1>2, <2>1, Woken, ZenonT(30)
  <2>3. /\ b # a => table'[b] = table[b]
        /\ k \in 0 .. Len(table[a]) /\ Len(table'[a]) = Len(table[a]) - k
        /\ \A i \in 1 .. Len(table'[a]) : table'[a][i] = table[a][i + k]
        BY <2>2, Zenon DEF Wakes
  <2>4. b \notin mixed
        BY <1>10, <2>2, Zenon DEF Spends
  <2>5. \A u \in Asleep(b) : (b # a \/ ~Taken(u, a, k)) => u \in Asleep(b)'
        BY <2>2, Zenon DEF Asleep, Wakes
  <2>6. CASE b # a
        BY <1>11, <2>3, <2>4, <2>5, <2>6, ZenonT(30)
  <2>7. CASE b = a
    <3>1. k \in Nat /\ Len(table[a]) \in Nat /\ k <= Len(table[a])
          BY <1>0, <2>3
    <3>2. \A i \in 1 .. Len(table'[a]) : i + k \in 1 .. Len(table[a]) /\ i + k \in k + 1 .. Len(table[a])
          BY <2>3, <3>1, SMTT(30)
    <3>3. ASSUME NEW i \in 1 .. Len(table'[a]) PROVE table'[a][i] \in Asleep(a)'
      <4>1. table'[a][i] = table[a][i + k] /\ i + k \in k + 1 .. Len(table[a])
            BY <2>3, <3>2, Zenon
      <4>2. ~Taken(table[a][i + k], a, k)
            BY <4>1, Zenon DEF Taken
      <4>3. table[a][i + k] \in Asleep(a)
            BY <1>11, <2>4, <2>7, <3>2, Zenon
      <4> QED
            BY <2>5, <2>7, <4>1, <4>2, <4>3, Zenon
    <3>4. ASSUME NEW i \in 1 .. Len(table'[a]), NEW j \in 1 .. Len(table'[a]), table'[a][i] = table'[a][j]
          PROVE  i = j
      <4>1. table[a][i + k] = table[a][j + k]
            BY <2>3, <3>4, ZenonT(30)
      <4>2. i + k \in 1 .. Len(table[a]) /\ j + k \in 1 .. Len(table[a])
            BY <3>2, Zenon
      <4>3. i + k = j + k
            BY <1>11, <2>4, <2>7, <4>1, <4>2, ZenonT(30)
      <4>4. i \in Nat /\ j \in Nat
            BY <2>3, <3>1
      <4> QED
            BY <3>1, <4>3, <4>4, SMTT(30)
    <3> QED
          BY <2>7, <3>3, <3>4, ZenonT(30)
  <2> QED
        BY <2>6, <2>7, Zenon
<1>3. CASE ~FutexWait(t) /\ ~FutexWake(t)
  <2>1. /\ table' = table /\ mixed' = mixed
        /\ \A u \in Threads, c \in Addrs : SleepsOn(u, c)' <=> SleepsOn(u, c)
        BY <1>3, Awake, Zenon
  <2>2. Asleep(b)' = Asleep(b)
        BY <2>1, Zenon DEF Asleep
  <2> QED
        BY <1>10, <1>11, <2>1, <2>2
<1> QED
      BY <1>1, <1>2, <1>3, ZenonT(30)

-----------------------------------------------------------------------------
(* Sleepers are found *)

\* Each step keeps every sleeper in its queue, or says that it was refused.
LEMMA FoundKept ==
    ASSUME Typed, InCall, Found, NEW t \in Threads, Step(t) \/ Start(t)
    PROVE  Found'
<1>0. \A b \in Addrs : table[b] \in Seq(Threads) /\ Len(table[b]) \in Nat
      BY DEF Typed
<1>1. arg[t].addr \in Addrs
      BY Zenon DEF Typed
<1>2. SUFFICES ASSUME NEW u \in Threads, NEW b \in Addrs, SleepsOn(u, b)', b \notin refused'
               PROVE  \E i \in 1 .. Len(table'[b]) : table'[b][i] = u
      BY Zenon DEF Found
<1>3. SleepsOn(u, b) /\ b \notin refused => \E i \in 1 .. Len(table[b]) : table[b][i] = u
      BY Zenon DEF Found
<1>4. CASE FutexWait(t)
  <2>1. CASE u = t
    <3>1. b = arg[t].addr /\ pc'[t] = "asleep"
          BY <1>2, <1>4, <2>1, Polled, ZenonT(30)
    <3>2. \/ /\ table' = FutexRegister(table, b, t, Room)
             /\ refused' = refused \cup { a \in {b} : FutexFull(table, a, Room) }
          \/ pc'[t] = then[t]
          BY <1>4, <3>1, FutexWaitIs, ZenonT(30)
    <3>3. WaitsFor(t)
          BY <1>4, FutexWaitIs, Zenon DEF InCall
    <3>4. /\ table' = FutexRegister(table, b, t, Room)
          /\ refused' = refused \cup { a \in {b} : FutexFull(table, a, Room) }
          BY <3>1, <3>2, <3>3, ZenonT(30) DEF WaitsFor
    <3>5. ~FutexFull(table, b, Room)
          BY <1>2, <3>4, Zenon
    <3>6. table'[b] = Append(table[b], t)
          BY <3>4, <3>5, RegisterIs, ZenonT(30)
    <3>7. Len(table[b]) + 1 \in 1 .. Len(table'[b]) /\ table'[b][Len(table[b]) + 1] = t
          BY <1>0, <3>6
    <3> QED
          BY <2>1, <3>7, ZenonT(30)
  <2>2. CASE u # t
    <3>1. SleepsOn(u, b) /\ b \notin refused
      <4>1. refused' = refused \/ refused' = refused \cup { a \in {arg[t].addr} : FutexFull(table, a, Room) }
            BY <1>4, FutexWaitIs, ZenonT(30)
      <4>2. b \notin refused
            BY <1>2, <4>1, Zenon
      <4> QED
            BY <1>2, <1>4, <2>2, <4>2, Polled, ZenonT(30)
    <3>2. PICK i \in 1 .. Len(table[b]) : table[b][i] = u
          BY <1>3, <3>1, Zenon
    <3>3. table'[b] = table[b] \/ table'[b] = Append(table[b], t)
      <4>1. table' = table \/ table' = FutexRegister(table, arg[t].addr, t, Room)
            BY <1>4, FutexWaitIs, ZenonT(30)
      <4> QED
            BY <1>1, <4>1, RegisterIs, ZenonT(30)
    <3>4. i \in 1 .. Len(table'[b]) /\ table'[b][i] = table[b][i]
          BY <1>0, <3>3
    <3> QED
          BY <3>2, <3>4, ZenonT(30)
  <2> QED
        BY <2>1, <2>2, Zenon
<1>5. CASE FutexWake(t)
  <2>1. PICK a \in Addrs : arg[t].addr = a
        BY <1>1, Zenon
  <2>2. PICK k \in Nat : Wakes(a, k)
        BY <1>5, <2>1, Woken, ZenonT(30)
  <2>3. /\ \A c \in Addrs : c # a => table'[c] = table[c]
        /\ k \in 0 .. Len(table[a])
        /\ \A j \in 1 .. Len(table'[a]) : table'[a][j] = table[a][j + k]
        /\ \A j \in 1 .. Len(table[a]) : j <= k <=> \A m \in 1 .. Len(table'[a]) : j # m + k
        /\ SleepsOn(u, b) /\ ~(b = a /\ Taken(u, a, k))
        BY <1>2, <2>2, ZenonT(30) DEF Wakes
  <2>9. b \notin refused
        BY <1>2, <1>5, FutexWakeIs, Zenon
  <2>4. PICK i \in 1 .. Len(table[b]) : table[b][i] = u
        BY <1>3, <2>3, <2>9, Zenon
  <2>5. CASE b # a
        BY <2>3, <2>4, <2>5, ZenonT(30)
  <2>6. CASE b = a
    <3>1. PICK n \in 1 .. Len(table[a]) : table[a][n] = u /\ ~(n <= k)
      <4>1. Len(table[a]) \in Nat /\ k \in Nat
            BY <1>0, Zenon
      <4>2. CASE \E m \in k + 1 .. Len(table[a]) : table[a][m] = u
            BY <4>1, <4>2
      <4>3. CASE ~\E m \in 1 .. k : table[a][m] = u
        <5>1. i \notin 1 .. k
              BY <2>4, <2>6, <4>3, Zenon
        <5>2. ~(i <= k)
              BY <2>4, <2>6, <4>1, <5>1
        <5> QED
              BY <2>4, <2>6, <5>2, Zenon
      <4> QED
            BY <2>3, <2>6, <4>2, <4>3, Zenon DEF Taken
    <3>2. PICK j \in 1 .. Len(table'[a]) : n = j + k
          BY <2>3, <3>1, ZenonT(30)
    <3> QED
          BY <2>3, <2>6, <3>1, <3>2, ZenonT(30)
  <2> QED
        BY <2>5, <2>6, ZenonT(30)
<1>6. CASE ~FutexWait(t) /\ ~FutexWake(t)
  <2>1. table' = table /\ SleepsOn(u, b) /\ b \notin refused
        BY <1>2, <1>6, Awake, ZenonT(30)
  <2> QED
        BY <1>3, <2>1, Zenon
<1> QED
      BY <1>4, <1>5, <1>6, ZenonT(30)

\* Who takes all entries out, or wakes everyone, leaves nobody asleep.
LEMMA NobodyLeft ==
    ASSUME Typed, Found, NEW a \in Addrs, a \notin refused, Wakes(a, Len(table[a])), NEW u \in Threads
    PROVE  /\ SleepsOn(u, a) => Taken(u, a, Len(table[a])) /\ u \in ready'
           /\ ~SleepsOn(u, a)'
<1>1. Len(table[a]) \in Nat
      BY DEF Typed
<1>2. SleepsOn(u, a) => \E i \in 1 .. Len(table[a]) : table[a][i] = u
      BY Zenon DEF Found
<1>3. \A i : i \notin Len(table[a]) + 1 .. Len(table[a])
      BY <1>1
<1>4. SleepsOn(u, a) => Taken(u, a, Len(table[a]))
      BY <1>2, <1>3, Zenon DEF Taken
<1> QED
      BY <1>4, Zenon DEF Wakes

\* Each step keeps the promise to waiters of the condition variable.
LEMMA BroadcastsKept ==
    ASSUME Typed, InCall, Queued, Found, Broadcasts, NEW t \in Threads, Step(t) \/ Start(t)
    PROVE  Broadcasts'
<1>1. SUFFICES ASSUME "Signal" \notin calls'.ops, "cond" \notin refused', NEW u \in Threads, SleepsOn(u, "cond")',
                      ~\E v \in Threads : pc'[v] = "wake" /\ arg'[v].addr = "cond"
               PROVE  Word(u, "cond")' = seq'[u]
      BY Zenon DEF Broadcasts
<1>0. "cond" \in Addrs
      BY Zenon DEF Addrs
<1>2. CASE FutexWait(t)
  <2>1. /\ UNCHANGED <<word, arg, seq>> /\ calls' = calls /\ Frame(t) /\ WaitsFor(t)
        /\ pc[t] \in {"wait", "asleep"}
        /\ Word(t, arg[t].addr) = arg[t].val \/ pc'[t] = then[t]
        /\ refused' = refused \/ refused' = refused \cup { a \in {arg[t].addr} : FutexFull(table, a, Room) }
        BY <1>2, FutexWaitIs, ZenonT(30) DEF InCall
  <2>4. "cond" \notin refused
        BY <1>1, <2>1, Zenon
  <2>2. CASE u = t
    <3>1. arg[t].addr = "cond" /\ pc'[t] = "asleep"
          BY <1>0, <1>1, <1>2, <2>2, Polled, ZenonT(30)
    <3>2. Word(t, "cond") = seq[t]
          BY <2>1, <3>1, ZenonT(30) DEF WaitsFor
    <3> QED
          BY <2>1, <2>2, <3>2, ZenonT(30) DEF Word
  <2>3. CASE u # t
    <3>1. SleepsOn(u, "cond")
          BY <1>0, <1>1, <1>2, <2>3, Polled, ZenonT(30)
    <3>2. ~\E v \in Threads : pc[v] = "wake" /\ arg[v].addr = "cond"
          BY <1>1, <2>1, ZenonT(30) DEF Frame
    <3> QED
          BY <1>1, <2>1, <2>4, <3>1, <3>2, ZenonT(30) DEF Broadcasts, Word
  <2> QED
        BY <2>2, <2>3, ZenonT(30)
<1>3. CASE FutexWake(t)
  <2>1. /\ UNCHANGED <<word, arg, seq>> /\ calls' = calls /\ Frame(t) /\ WakesUp(t) /\ pc[t] = "wake"
        /\ refused' = refused
        BY <1>3, FutexWakeIs, Zenon DEF InCall
  <2>2. arg[t].addr # "cond"
    <3>1. SUFFICES ASSUME arg[t].addr = "cond" PROVE FALSE
          BY Zenon
    <3>2. arg[t].val = Everyone
          BY <1>1, <2>1, <3>1, ZenonT(30) DEF WakesUp
    <3>3. Wakes("cond", Len(table["cond"]))
          BY <1>0, <1>3, <3>1, <3>2, Woken, ZenonT(30)
    <3> QED
          BY <1>0, <1>1, <2>1, <3>3, NobodyLeft, ZenonT(30)
  <2>3. SleepsOn(u, "cond")
    <3>1. PICK a \in Addrs : arg[t].addr = a
          BY Zenon DEF Typed
    <3>2. PICK k \in Nat : Wakes(a, k)
          BY <1>3, <3>1, Woken, ZenonT(30)
    <3> QED
          BY <1>0, <1>1, <3>2, ZenonT(30) DEF Wakes
  <2>4. ~\E v \in Threads : pc[v] = "wake" /\ arg[v].addr = "cond"
        BY <1>1, <2>1, <2>2, ZenonT(30) DEF Frame
  <2> QED
        BY <1>1, <2>1, <2>3, <2>4, ZenonT(30) DEF Broadcasts, Word
<1>4. CASE ~FutexWait(t) /\ ~FutexWake(t)
  <2>1. /\ Frame(t) /\ calls'.ops = calls.ops /\ pc[t] # "wake" /\ pc[t] # "asleep"
        /\ SleepsOn(u, "cond") /\ refused' = refused
        BY <1>0, <1>1, <1>4, Awake, ZenonT(30)
  <2>2. ~\E v \in Threads : pc[v] = "wake" /\ arg[v].addr = "cond"
        BY <1>1, <2>1, SMTT(30) DEF Frame
  <2>3. Word(u, "cond") = seq[u]
        BY <1>1, <2>1, <2>2, ZenonT(30) DEF Broadcasts
  <2>4. u # t /\ seq'[u] = seq[u]
        BY <2>1, Zenon DEF Frame, SleepsOn
  <2>5. Word(u, "cond")' = Word(u, "cond")
    <3>1. CASE FastLock(t) \/ Swap(t) \/ TryLock(t)
      <4>1. Elsewhere(t, "mutex")
            BY <3>1, FastLockIs, SwapIs, TryLockIs, ZenonT(30)
      <4> QED
            BY <4>1, CondElsewhere, ZenonT(30)
    <3>2. CASE Unlock(t)
      <4>1. Elsewhere(t, "mutex")
            BY <3>2, UnlockIs, ReleaseIs, ZenonT(30)
      <4> QED
            BY <4>1, CondElsewhere, Zenon
    <3>3. CASE CondRelease(t)
      <4>1. Elsewhere(t, "mutex")
            BY <3>3, CondReleaseIs, ReleaseIs, ZenonT(30)
      <4> QED
            BY <4>1, CondElsewhere, Zenon
    <3>4. CASE OnceClaim(t) \/ OnceDone(t)
      <4>1. Elsewhere(t, "once")
            BY <3>4, OnceClaimIs, OnceDoneIs, ZenonT(30)
      <4> QED
            BY <4>1, CondElsewhere, ZenonT(30)
    <3>5. CASE CondSleep(t) \/ CondCheck(t) \/ OnceLook(t) \/ Lock(t) \/ Once(t) \/ CondWait(t)
      <4>1. word' = word
            BY <3>5, Zenon DEF CondSleep, CondCheck, OnceLook, Lock, Once, CondWait
      <4> QED
            BY <4>1, Zenon DEF Word
    <3>6. ASSUME NEW op \in {"Signal", "Broadcast"}, NEW n \in Nat, Notify(t, op, n) PROVE FALSE
      <4>1. pc'[t] = "wake" /\ arg'[t].addr = "cond"
            BY <3>6, NotifyIs, ZenonT(30)
      <4> QED
            BY <1>1, <4>1, Zenon
    <3>7. ~Signal(t) /\ ~Broadcast(t)
          BY <3>6, EveryoneIs, Zenon DEF Signal, Broadcast
    <3> QED
          BY <1>4, <3>1, <3>2, <3>3, <3>4, <3>5, <3>7, ZenonT(30) DEF Step, Start
  <2> QED
        BY <2>3, <2>4, <2>5, ZenonT(30)
<1> QED
      BY <1>2, <1>3, <1>4, ZenonT(30)

\* The slow path does nothing but swap.
LEMMA NotAtSwap ==
    ASSUME Typed, NEW t \in Threads, Start(t)
    PROVE  pc[t] # "swap"
<1>1. PICK op \in Operations, from \in {Idle, {"owner"}, Idle \cup {"owner"}} : Call(t, op, from)
      BY Zenon DEF Start, Lock, TryLock, CondWait, Signal, Broadcast, Notify, Once, Operations
<1> QED
      BY <1>1, CallIs, ZenonT(30) DEF Idle

\* Whoever does not unlock leaves a word with waiters as it is.
LEMMA WordKept ==
    ASSUME Typed, NEW t \in Threads, Step(t) \/ Start(t), ~FutexWait(t), ~FutexWake(t),
           ~Unlock(t), ~CondRelease(t), Word(t, "mutex") = LOCKED_WAITERS
    PROVE  Word(t, "mutex")' = Word(t, "mutex")
<1>1. LOCKED_WAITERS # UNLOCKED
      BY SMTT(30) DEF LOCKED_WAITERS, UNLOCKED
<1>2. CASE FastLock(t) \/ TryLock(t)
      BY <1>1, <1>2, FastLockIs, TryLockIs, ZenonT(30) DEF Word
<1>3. CASE Swap(t)
      BY <1>3, SwapIs, ZenonT(30)
<1>4. CASE CondSleep(t) \/ CondCheck(t) \/ OnceLook(t) \/ Lock(t) \/ Once(t) \/ CondWait(t)
  <2>1. word' = word
        BY <1>4, Zenon DEF CondSleep, CondCheck, OnceLook, Lock, Once, CondWait
  <2> QED
        BY <2>1, Zenon DEF Word
<1>5. ASSUME NEW a \in {"cond", "once"}, Elsewhere(t, a) PROVE Word(t, "mutex")' = Word(t, "mutex")
      BY <1>5, Zenon DEF Elsewhere, Word, Addrs
<1>6. CASE OnceClaim(t) \/ OnceDone(t)
      BY <1>5, <1>6, OnceClaimIs, OnceDoneIs, ZenonT(30)
<1>7. ASSUME NEW op \in {"Signal", "Broadcast"}, NEW n \in Nat, Notify(t, op, n)
      PROVE  Elsewhere(t, "cond")
      BY <1>7, NotifyIs, Zenon
<1>8. CASE Signal(t) \/ Broadcast(t)
      BY <1>5, <1>7, <1>8, EveryoneIs, ZenonT(30) DEF Signal, Broadcast
<1> QED
      BY <1>2, <1>3, <1>4, <1>6, <1>8, ZenonT(30) DEF Step, Start

\* A step writes words of its own space only.
LEMMA SpaceKept ==
    ASSUME Typed, NEW t \in Threads, Step(t) \/ Start(t), NEW u \in Threads, SpaceOf[u] # SpaceOf[t]
    PROVE  Word(u, "mutex")' = Word(u, "mutex")
<1>1. ASSUME NEW a \in Addrs, Elsewhere(t, a) PROVE Word(u, "mutex")' = Word(u, "mutex")
      BY <1>1, Zenon DEF Elsewhere, Word, Addrs
<1>2. ASSUME word' = word PROVE Word(u, "mutex")' = Word(u, "mutex")
      BY <1>2, Zenon DEF Word
<1>0. {"mutex", "cond", "once"} \subseteq Addrs
      BY Zenon DEF Addrs
<1>3. CASE FutexWait(t) \/ FutexWake(t) \/ CondSleep(t) \/ CondCheck(t) \/ OnceLook(t)
  <2>1. word' = word
        BY <1>3, Zenon DEF FutexWait, FutexWake, CondSleep, CondCheck, OnceLook
  <2> QED
        BY <1>2, <2>1, Zenon
<1>4. CASE FastLock(t) \/ Swap(t) \/ TryLock(t)
  <2>1. Elsewhere(t, "mutex")
        BY <1>4, FastLockIs, SwapIs, TryLockIs, ZenonT(30)
  <2> QED
        BY <1>0, <1>1, <2>1, Zenon
<1>5. CASE Unlock(t)
  <2>1. Elsewhere(t, "mutex")
        BY <1>5, UnlockIs, ReleaseIs, ZenonT(30)
  <2> QED
        BY <1>0, <1>1, <2>1, Zenon
<1>6. CASE CondRelease(t)
  <2>1. Elsewhere(t, "mutex")
        BY <1>6, CondReleaseIs, ReleaseIs, ZenonT(30)
  <2> QED
        BY <1>0, <1>1, <2>1, Zenon
<1>7. CASE OnceClaim(t) \/ OnceDone(t)
  <2>1. Elsewhere(t, "once")
        BY <1>7, OnceClaimIs, OnceDoneIs, ZenonT(30)
  <2> QED
        BY <1>0, <1>1, <2>1, Zenon
<1>8. CASE Lock(t) \/ Once(t) \/ CondWait(t)
  <2>1. word' = word
        BY <1>8, Zenon DEF Lock, Once, CondWait
  <2> QED
        BY <1>2, <2>1, Zenon
<1>9. ASSUME NEW op \in {"Signal", "Broadcast"}, NEW n \in Nat, Notify(t, op, n)
      PROVE  Elsewhere(t, "cond")
      BY <1>9, NotifyIs, Zenon
<1>10. CASE Signal(t) \/ Broadcast(t)
  <2>1. Elsewhere(t, "cond")
        BY <1>9, <1>10, EveryoneIs, ZenonT(30) DEF Signal, Broadcast
  <2> QED
        BY <1>0, <1>1, <2>1, Zenon
<1> QED
      BY <1>3, <1>4, <1>5, <1>6, <1>7, <1>8, <1>10, ZenonT(30) DEF Step, Start

\* Each step keeps the promise to waiters of the mutex.
LEMMA UnlockKept ==
    ASSUME Typed, InCall, Exclusive, Queued, Found, NoLostUnlock,
           NEW t \in Threads, Step(t) \/ Start(t)
    PROVE  NoLostUnlock'
<1>0. "mutex" \in Addrs
      BY Zenon DEF Addrs
<1>1. SUFFICES ASSUME NEW u \in Threads, SleepsOn(u, "mutex")', Word(u, "mutex")' # LOCKED_WAITERS,
                      "mutex" \notin mixed', "mutex" \notin refused'
               PROVE  \E v \in Threads : SpaceOf[v] = SpaceOf[u] /\ Hurrying(v)'
      BY Zenon DEF NoLostUnlock
<1>2. ASSUME SleepsOn(u, "mutex"), Word(u, "mutex") # LOCKED_WAITERS,
             "mutex" \notin mixed, "mutex" \notin refused
      PROVE  \E w \in Threads : SpaceOf[w] = SpaceOf[u] /\ Hurrying(w)
      BY <1>2, Zenon DEF NoLostUnlock
<1>3. CASE FutexWait(t)
  <2>1. /\ UNCHANGED <<word, arg, then>> /\ Frame(t) /\ WaitsFor(t) /\ pc[t] \in {"wait", "asleep"}
        /\ Word(t, arg[t].addr) = arg[t].val \/ pc'[t] = then[t]
        /\ mixed' = mixed
        /\ refused' = refused \/ refused' = refused \cup { a \in {arg[t].addr} : FutexFull(table, a, Room) }
        BY <1>3, FutexWaitIs, Zenon DEF InCall
  <2>2. Word(u, "mutex") # LOCKED_WAITERS /\ "mutex" \notin mixed /\ "mutex" \notin refused
        BY <1>1, <2>1, Zenon DEF Word
  <2>3. CASE arg[t].addr = "mutex" /\ SpaceOf[t] = SpaceOf[u]
    <3>1. Word(t, "mutex") # LOCKED_WAITERS
          BY <2>2, <2>3, Zenon DEF Word
    <3>2. pc'[t] = "swap"
          BY <2>1, <2>3, <3>1, ZenonT(30) DEF WaitsFor
    <3> QED
          BY <2>3, <3>2, Zenon DEF Hurrying
  <2>4. CASE arg[t].addr # "mutex" \/ SpaceOf[t] # SpaceOf[u]
    <3>1. u # t /\ SleepsOn(u, "mutex")
          BY <1>0, <1>1, <1>3, <2>4, Polled, ZenonT(30)
    <3>2. PICK w \in Threads : SpaceOf[w] = SpaceOf[u] /\ Hurrying(w)
          BY <1>2, <2>2, <3>1, ZenonT(30)
    <3>3. w # t
          BY <2>1, <2>4, <3>2, ZenonT(30) DEF Hurrying, WaitsFor
    <3>4. /\ SleepsOn(w, "mutex")' <=> SleepsOn(w, "mutex")
          /\ pc'[w] = pc[w] /\ then'[w] = then[w] /\ arg'[w] = arg[w]
          BY <1>0, <1>3, <2>1, <3>3, Polled, ZenonT(30) DEF Frame
    <3> QED
          BY <3>2, <3>4, ZenonT(30) DEF Hurrying
  <2> QED
        BY <2>3, <2>4, Zenon
<1>4. CASE FutexWake(t)
  <2>1. UNCHANGED <<word, arg, then, refused>> /\ Frame(t) /\ WakesUp(t) /\ pc[t] = "wake"
        BY <1>4, FutexWakeIs, Zenon DEF InCall
  <2>2. PICK a \in Addrs : arg[t].addr = a
        BY Zenon DEF Typed
  <2>3. PICK k \in Nat : /\ Wakes(a, k) /\ Spends(t, a, k)
                         /\ k = Len(table[a]) \/ (k = arg[t].val /\ arg[t].val # Everyone)
        BY <1>4, <2>2, Woken, ZenonT(30)
  <2>4. \A v \in Threads : SleepsOn(v, "mutex")' => SleepsOn(v, "mutex")
        BY <1>0, <2>3, ZenonT(30) DEF Wakes
  <2>5. /\ SleepsOn(u, "mutex") /\ Word(u, "mutex") # LOCKED_WAITERS
        /\ "mutex" \notin mixed /\ "mutex" \notin refused
    <3>1. "mutex" \notin mixed
          BY <1>0, <1>1, <2>3, Zenon DEF Spends
    <3> QED
          BY <1>1, <2>1, <2>4, <3>1, ZenonT(30) DEF Word
  <2>6. PICK w \in Threads : SpaceOf[w] = SpaceOf[u] /\ Hurrying(w)
        BY <1>2, <2>5, ZenonT(30)
  <2>7. CASE w # t
    <3>1. pc'[w] = pc[w] /\ then'[w] = then[w] /\ arg'[w] = arg[w]
          BY <2>1, <2>7, ZenonT(30) DEF Frame
    <3> QED
          BY <2>4, <2>6, <3>1, ZenonT(30) DEF Hurrying
  <2>8. CASE w = t
    <3>1. arg[t].addr = "mutex" /\ arg[t].val = 1 /\ a = "mutex"
      <4>1. arg[t].addr = "mutex"
            BY <2>1, <2>6, <2>8, ZenonT(30) DEF Hurrying
      <4> QED
            BY <2>1, <2>2, <4>1, ZenonT(30) DEF WakesUp
    <3>2. PICK i \in 1 .. Len(table[a]) : table[a][i] = u
          BY <2>5, <3>1, ZenonT(30) DEF Found
    <3>3. table[a] \in Seq(Threads) /\ Len(table[a]) \in Nat
          BY DEF Typed
    <3>4. 1 \in 1 .. k /\ 1 \in 1 .. Len(table[a])
          BY <2>3, <3>1, <3>2, <3>3, SMTT(30)
    <3>5. PICK first \in Threads : first = table[a][1]
          BY <3>3, <3>4, SMTT(30)
    <3>6. /\ \A j \in 1 .. Len(table[a]) : table[a][j] \in Asleep(a)
          /\ \A j, m \in 1 .. Len(table[a]) : table[a][j] = table[a][m] => j = m
          BY <2>5, <3>1, ZenonT(30) DEF Queued
    <3>7. first \in Asleep(a) /\ pc[first] = "asleep" /\ arg[first].addr = "mutex"
          BY <3>1, <3>4, <3>5, <3>6, ZenonT(30) DEF Asleep, SleepsOn
    <3>8. SpaceOf[first] = SpaceOf[u]
      <4>1. SpaceOf[table[a][1]] = SpaceOf[t]
            BY <1>1, <2>3, <3>1, <3>4, ZenonT(30) DEF Spends
      <4> QED
            BY <2>6, <2>8, <3>5, <4>1, ZenonT(30)
    <3>9. Taken(first, a, k)
      <4>1. \A j \in k + 1 .. Len(table[a]) : j \in 1 .. Len(table[a]) /\ j # 1
            BY <3>3, <3>4, SMTT(30)
      <4> QED
            BY <3>4, <3>5, <3>6, <4>1, ZenonT(30) DEF Taken
    <3>10. first \in ready'
          BY <2>3, <3>7, <3>9, ZenonT(30) DEF Wakes, Asleep
    <3>11. then[first] = "swap"
      <4>1. WaitsFor(first)
            BY <3>7, Zenon DEF InCall
      <4> QED
            BY <3>7, <4>1, ZenonT(30) DEF WaitsFor
    <3>12. first # t /\ pc'[first] = "asleep" /\ then'[first] = "swap"
          BY <2>1, <3>7, <3>11, ZenonT(30) DEF Frame
    <3>13. Hurrying(first)'
          BY <3>10, <3>12, ZenonT(30) DEF Hurrying, SleepsOn
    <3> QED
          BY <3>8, <3>13, Zenon
  <2> QED
        BY <2>7, <2>8, ZenonT(30)
<1>5. CASE ~FutexWait(t) /\ ~FutexWake(t)
  <2>1. /\ Frame(t) /\ pc[t] \notin {"wait", "asleep", "wake"} /\ SleepsOn(u, "mutex")
        /\ \A v \in Threads : SleepsOn(v, "mutex")' <=> SleepsOn(v, "mutex")
        /\ "mutex" \notin mixed /\ "mutex" \notin refused
        BY <1>0, <1>1, <1>5, Awake, ZenonT(30)
  <2>2. ASSUME Word(u, "mutex") # LOCKED_WAITERS, pc[t] # "swap" \/ SpaceOf[t] # SpaceOf[u]
        PROVE  \E v \in Threads : SpaceOf[v] = SpaceOf[u] /\ Hurrying(v)'
    <3>1. PICK w \in Threads : SpaceOf[w] = SpaceOf[u] /\ Hurrying(w)
          BY <1>2, <2>1, <2>2, ZenonT(30)
    <3>2. w # t
          BY <2>1, <2>2, <3>1, ZenonT(30) DEF Hurrying
    <3>3. pc'[w] = pc[w] /\ then'[w] = then[w] /\ arg'[w] = arg[w]
          BY <2>1, <3>2, ZenonT(30) DEF Frame
    <3>4. Hurrying(w)'
          BY <2>1, <3>1, <3>3, ZenonT(30) DEF Hurrying
    <3> QED
          BY <3>1, <3>4, Zenon
  <2>3. CASE SpaceOf[t] # SpaceOf[u]
    <3>1. Word(u, "mutex") # LOCKED_WAITERS
          BY <1>1, <2>3, SpaceKept, ZenonT(30)
    <3> QED
          BY <2>2, <2>3, <3>1, Zenon
  <2>4. CASE SpaceOf[t] = SpaceOf[u]
    <3>0. Word(t, "mutex") = Word(u, "mutex") /\ Word(t, "mutex")' = Word(u, "mutex")'
          BY <2>4, Zenon DEF Word
    <3>1. CASE Word(u, "mutex") # LOCKED_WAITERS /\ pc[t] # "swap"
          BY <2>2, <3>1, Zenon
    <3>2. CASE pc[t] = "swap"
      <4>1. Swap(t)
            BY <1>5, <3>2, FastLockIs, UnlockIs, CondReleaseIs, CondSleepIs, CondCheckIs, OnceLookIs,
               OnceClaimIs, OnceDoneIs, NotAtSwap, ZenonT(30) DEF Step
      <4> QED
            BY <1>1, <3>0, <4>1, SwapIs, ZenonT(30)
    <3>3. CASE Word(t, "mutex") = LOCKED_WAITERS /\ pc[t] # "swap"
      <4>1. ASSUME NEW l \in Labels, Release(t, l), seq' = seq,
                   \A v \in Threads : v # t => ticket'[v] = ticket[v]
            PROVE  Hurrying(t)'
        <5>1. pc'[t] = "wake" /\ arg'[t].addr = "mutex"
              BY <3>3, <4>1, ReleaseIs, ZenonT(30)
        <5> QED
              BY <5>1, Zenon DEF Hurrying
      <4>2. CASE Unlock(t)
            BY <2>4, <4>1, <4>2, UnlockIs, ZenonT(30)
      <4>3. CASE CondRelease(t)
            BY <2>4, <4>1, <4>3, CondReleaseIs, ZenonT(30)
      <4>4. CASE ~Unlock(t) /\ ~CondRelease(t)
        <5>1. Word(t, "mutex")' = Word(t, "mutex")
              BY <1>5, <3>3, <4>4, WordKept, ZenonT(30)
        <5> QED
              BY <1>1, <3>0, <3>3, <5>1, ZenonT(30)
      <4> QED
            BY <4>2, <4>3, <4>4, Zenon
    <3> QED
          BY <3>0, <3>1, <3>2, <3>3, ZenonT(30)
  <2> QED
        BY <2>3, <2>4, ZenonT(30)
<1> QED
      BY <1>3, <1>4, <1>5, ZenonT(30)

-----------------------------------------------------------------------------
(* Wakers of other queues *)

\* A stray wake makes its address mixed and changes nothing else but who sleeps.
LEMMA StrayKept ==
    ASSUME IInv, NEW t \in Threads, Stray(t)
    PROVE  IInv'
<1>0. /\ Typed /\ InCall /\ Exclusive /\ Initialized /\ Queued /\ Sequence
      /\ Found /\ Broadcasts /\ NoLostUnlock
      BY Zenon DEF IInv
<1>1. /\ pc[t] = "asleep" /\ ready' = ready \cup {t} /\ mixed' = mixed \cup {arg[t].addr}
      /\ UNCHANGED <<word, sleepers, table, pc, arg, then, seq, inits, ticket, refused>>
      BY Zenon DEF Stray
<1>2. calls' \in Load /\ calls'.ops = calls.ops
  <2>1. calls \in Load /\ calls.strays > 0 /\ calls' = [calls EXCEPT !.strays = calls.strays - 1]
        BY <1>0, Zenon DEF Stray, Typed
  <2>2. calls.strays \in Nat
        BY <2>1, Zenon DEF Load
  <2>3. calls.strays - 1 \in Nat
        BY <2>1, <2>2
  <2> QED
        BY <2>1, <2>3 DEF Load
<1>3. \A u \in Threads, a \in Addrs : SleepsOn(u, a)' <=> SleepsOn(u, a) /\ u # t
      BY <1>1, Zenon DEF SleepsOn
<1>4. Typed'
      BY <1>0, <1>1, <1>2, ZenonT(30) DEF Typed
<1>5. InCall'
      BY <1>0, <1>1, <1>2, SMTT(30) DEF InCall, WaitsFor, WakesUp
<1>6. Exclusive'
      BY <1>0, <1>1, SMTT(30) DEF Exclusive, Owns, Word
<1>7. Initialized'
      BY <1>0, <1>1, ZenonT(30) DEF Initialized, Returned, Word
<1>8. Sequence'
      BY <1>0, <1>1, ZenonT(30) DEF Sequence, Released, Word
<1>9. Found'
      BY <1>0, <1>1, <1>3, ZenonT(30) DEF Found
<1>10. Queued'
  <2>1. SUFFICES ASSUME NEW b \in Addrs, b \notin mixed'
                 PROVE  /\ \A i \in 1 .. Len(table[b]) : table[b][i] \in Asleep(b)'
                        /\ \A i, j \in 1 .. Len(table[b]) : table[b][i] = table[b][j] => i = j
        BY <1>1, Zenon DEF Queued
  <2>2. b \notin mixed /\ b # arg[t].addr
        BY <1>1, <2>1, Zenon
  <2>3. \A u \in Asleep(b) : u \in Asleep(b)'
        BY <1>3, <2>2, Zenon DEF Asleep, SleepsOn
  <2> QED
        BY <1>0, <2>2, <2>3, ZenonT(30) DEF Queued
<1>11. Broadcasts'
  <2>1. "cond" \in Addrs
        BY Zenon DEF Addrs
  <2> QED
        BY <1>0, <1>1, <1>2, <1>3, <2>1, ZenonT(30) DEF Broadcasts, Word
<1>12. NoLostUnlock'
  <2>1. "mutex" \in Addrs
        BY Zenon DEF Addrs
  <2>2. SUFFICES ASSUME NEW u \in Threads, SleepsOn(u, "mutex")', Word(u, "mutex")' # LOCKED_WAITERS,
                        "mutex" \notin mixed', "mutex" \notin refused'
                 PROVE  \E v \in Threads : SpaceOf[v] = SpaceOf[u] /\ Hurrying(v)'
        BY Zenon DEF NoLostUnlock
  <2>3. SleepsOn(u, "mutex") /\ Word(u, "mutex") # LOCKED_WAITERS /\ "mutex" \notin mixed \cup refused
        BY <1>1, <1>3, <2>1, <2>2, Zenon DEF Word
  <2>4. PICK w \in Threads : SpaceOf[w] = SpaceOf[u] /\ Hurrying(w)
        BY <1>0, <2>3, Zenon DEF NoLostUnlock
  <2>5. Hurrying(w)'
        BY <1>1, <1>3, <2>1, <2>4, ZenonT(30) DEF Hurrying
  <2> QED
        BY <2>4, <2>5, Zenon
<1> QED
      BY <1>4, <1>5, <1>6, <1>7, <1>8, <1>9, <1>10, <1>11, <1>12, Zenon DEF IInv

-----------------------------------------------------------------------------
(* The theorems *)

\* The invariant holds at first.
LEMMA InitHolds == Init => IInv
<1> SUFFICES ASSUME Init PROVE IInv
    BY Zenon
<1>0. Addrs = {"mutex", "cond", "once"} /\ \A t \in Threads : SpaceOf[t] \in Spaces
      BY Zenon DEF Addrs
<1>1. /\ word = [s \in Spaces |-> [a \in Addrs |-> 0]]
      /\ table = [a \in Addrs |-> << >>] /\ pc = [t \in Threads |-> "idle"]
      /\ arg = [t \in Threads |-> [addr |-> "mutex", val |-> 0]] /\ then = [t \in Threads |-> "idle"]
      /\ seq = [t \in Threads |-> 0] /\ ready = {} /\ calls \in Workloads
      /\ ticket = [t \in Threads |-> 0] /\ inits = [s \in Spaces |-> 0]
      BY Zenon DEF Init
<1>2. calls \in Load
      BY <1>1, Zenon
<1>3. Typed
  <2>1. "idle" \in Labels /\ "mutex" \in Addrs /\ << >> \in Seq(Threads)
        BY <1>0 DEF Labels
  <2>2. table \in [Addrs -> Seq(Threads)] /\ pc \in [Threads -> Labels] /\ then \in [Threads -> Labels]
        BY <1>1, <2>1, Zenon
  <2>3. arg \in [Threads -> [addr : Addrs, val : Nat]]
        BY <1>1, <2>1, Zenon
  <2>4. word \in [Spaces -> [Addrs -> Nat]]
        BY <1>1, Zenon
  <2>5. /\ seq \in [Threads -> Nat] /\ ready \subseteq Threads /\ ticket \in [Threads -> Nat]
        /\ inits \in [Spaces -> Nat]
        BY <1>1, Zenon
  <2> QED
        BY <1>2, <2>2, <2>3, <2>4, <2>5, ZenonT(30) DEF Typed
<1>4. \A t \in Threads : pc[t] = "idle"
      BY <1>1, Zenon
<1>5. \A s \in Spaces : word[s]["mutex"] = 0 /\ word[s]["once"] = 0 /\ inits[s] = 0
      BY <1>0, <1>1, Zenon
<1>6. InCall
      BY <1>4, Zenon DEF InCall
<1>7. Exclusive
      BY <1>4, <1>5, ZenonT(30) DEF Exclusive, Owns, UNLOCKED
<1>8. Initialized
      BY <1>4, <1>5 DEF Initialized, Returned
<1>9. Queued
      BY <1>1 DEF Queued
<1>10. Sequence
      BY <1>4, Zenon DEF Sequence, Released
<1>11. Found /\ Broadcasts /\ NoLostUnlock
      BY <1>4, Zenon DEF Found, Broadcasts, NoLostUnlock, SleepsOn
<1> QED
      BY <1>3, <1>6, <1>7, <1>8, <1>9, <1>10, <1>11, ZenonT(30) DEF IInv

\* Every step keeps the invariant.
LEMMA NextKeeps == IInv /\ [Next]_vars => IInv'
<1> SUFFICES ASSUME IInv, [Next]_vars PROVE IInv'
    BY Zenon
<1>0. /\ Typed /\ InCall /\ Exclusive /\ Initialized /\ Queued /\ Sequence
      /\ Found /\ Broadcasts /\ NoLostUnlock
      BY Zenon DEF IInv
<1>1. ASSUME NEW t \in Threads, Step(t) \/ Start(t) PROVE IInv'
  <2>1. Step(t) \/ Start(t)
        BY <1>1, Zenon
  <2>2. Typed'
        BY <1>0, <2>1, TypedKept, ZenonT(30)
  <2>3. InCall' /\ Exclusive' /\ Initialized' /\ Queued'
        BY <1>0, <2>1, InCallKept, ExclusiveKept, InitializedKept, QueuedKept, ZenonT(30)
  <2>4. Sequence'
        BY <1>0, <2>1, <2>2, SequenceKept, ZenonT(30)
  <2>5. Found' /\ Broadcasts' /\ NoLostUnlock'
        BY <1>0, <2>1, FoundKept, BroadcastsKept, UnlockKept, ZenonT(30)
  <2> QED
        BY <2>2, <2>3, <2>4, <2>5, ZenonT(30) DEF IInv
<1>2. CASE UNCHANGED vars
  <2> USE <1>2 DEF vars, marks
  <2>1. Typed'
        BY <1>0, ZenonT(30) DEF Typed
  <2>2. InCall'
        BY <1>0, SMTT(30) DEF InCall, WaitsFor, WakesUp
  <2>3. Exclusive'
        BY <1>0, SMTT(30) DEF Exclusive, Owns, Word
  <2>4. Initialized'
        BY <1>0, ZenonT(30) DEF Initialized, Returned, Word
  <2>5. Queued' /\ (Found => Found')
        BY <1>0 DEF Queued, Found, Asleep, SleepsOn
  <2>6. Sequence'
        BY <1>0, Zenon DEF Sequence, Released, Word
  <2>7. Broadcasts => Broadcasts'
        BY ZenonT(30) DEF Broadcasts, SleepsOn, Word
  <2>8. NoLostUnlock => NoLostUnlock'
        BY DEF NoLostUnlock, SleepsOn, Word, Hurrying
  <2> QED
        BY <1>0, <2>1, <2>2, <2>3, <2>4, <2>5, <2>6, <2>7, <2>8, ZenonT(30) DEF IInv
<1> QED
      BY <1>1, <1>2, StrayKept, Zenon DEF Next

\* The inductive invariant: types, the arguments of every futex call, one owner
\* of the mutex, the once control, the sequence number of the condition variable,
\* and the table, which holds every sleeper unless it was full and, where only
\* wakes of the own space were at work, each sleeper once.
THEOREM PthreadsSound == Spec => []IInv
  BY InitHolds, NextKeeps, PTL DEF Spec

\* pthread_mutex_lock, trylock, cond_wait and unlock: at most one thread of a
\* space owns the mutex, and the word is unlocked exactly when none does, for any
\* threads, spaces and calls, whatever the futex table does.
THEOREM MutexExcludes == Spec => []MutexWord
<1>1. IInv => MutexWord
  <2> SUFFICES ASSUME Exclusive, NEW s \in Spaces
               PROVE  LET owners == { t \in Threads : SpaceOf[t] = s /\ Owns(t) } IN
                      /\ Cardinality(owners) <= 1
                      /\ word[s]["mutex"] = UNLOCKED <=> owners = {}
      BY Zenon DEF IInv, MutexWord
  <2> DEFINE owners == { t \in Threads : SpaceOf[t] = s /\ Owns(t) }
  <2>1. \A t : t \in owners <=> t \in Threads /\ SpaceOf[t] = s /\ Owns(t)
        BY Zenon
  <2>2. word[s]["mutex"] = UNLOCKED <=> owners = {}
        BY DEF Exclusive, Word
  <2>3. Cardinality(owners) <= 1
    <3> HIDE DEF owners
    <3>1. CASE owners = {}
          BY <3>1, FS_EmptySet
    <3>2. CASE owners # {}
      <4>1. PICK t : t \in owners
            BY <3>2, Zenon
      <4>2. \A u \in owners : u = t
            BY <2>1, <4>1, ZenonT(30) DEF Exclusive
      <4>3. owners = {t}
            BY <4>1, <4>2, Zenon
      <4>4. Cardinality({t}) = 1
            BY FS_Singleton, ZenonT(30)
      <4> QED
            BY <4>3, <4>4
    <3> QED
          BY <3>1, <3>2, ZenonT(30)
  <2> QED
        BY <2>2, <2>3, Zenon
<1> QED
      BY <1>1, PthreadsSound, PTL, ZenonT(30)

\* pthread_once: the init routine runs at most once in each space, and is over
\* when any call returns, for any threads, spaces and calls.
THEOREM InitRunsOnce == Spec => []OnceOnly
<1>1. IInv => OnceOnly
      BY DEF IInv, Initialized, OnceOnly, Returned, IN_PROGRESS, DONE, Word
<1> QED
      BY <1>1, PthreadsSound, PTL

\* No unlock is lost: a thread sleeps on the mutex only while the owner will see
\* that it has waiters, or while somebody is on the way who will see to it; for any
\* threads, spaces and calls and a table of any size, as long as no registration
\* failed at the mutex and its sleepers are polled because of wakes of their own
\* space only.
THEOREM NoUnlockLost == Spec => []NoLostUnlock
<1>1. IInv => NoLostUnlock
      BY Zenon DEF IInv
<1> QED
      BY <1>1, PthreadsSound, PTL

\* No broadcast is missed, however often sleepers are polled and whoever shares
\* the address: a waiter of the condition variable that still sleeps though its
\* sequence number has passed is about to be woken, unless a registration failed
\* there.
THEOREM NoBroadcastMissed == Spec => []NoMissedBroadcast
<1>1. IInv => NoMissedBroadcast
  <2> SUFFICES ASSUME IInv, Broadcasts, "Signal" \notin calls.ops, "cond" \notin refused, NEW t \in Threads, SleepsOn(t, "cond"),
                      ~\E u \in Threads : pc[u] = "wake" /\ arg[u].addr = "cond"
               PROVE  ticket[t] = Word(t, "cond")
      BY Zenon DEF IInv, NoMissedBroadcast
  <2>1. Word(t, "cond") = seq[t]
        BY Zenon DEF Broadcasts
  <2>2. Released(t)
    <3>1. WaitsFor(t) /\ pc[t] = "asleep" /\ arg[t].addr = "cond"
          BY Zenon DEF IInv, InCall, SleepsOn
    <3> QED
          BY <3>1, Zenon DEF WaitsFor, Released
  <2>3. seq[t] <= ticket[t] /\ ticket[t] <= Word(t, "cond")
        BY <2>2, Zenon DEF IInv, Sequence
  <2>4. seq[t] \in Nat /\ ticket[t] \in Nat
        BY Zenon DEF IInv, Typed
  <2> QED
        BY <2>1, <2>3, <2>4, SMTT(30)
<1> QED
      BY <1>1, PthreadsSound, PTL

\* FUTEX_WAKE of everyone wakes every sleeper of its space at the address, unless a
\* registration failed there; FUTEX_WAKE of some wakes as many as it was asked to,
\* or all, unless the address is mixed; for any threads, spaces, calls and tables.
THEOREM WakesEnough == Spec => WakeCounts
<1> DEFINE Enough(t) ==
             LET asleep == { u \in Threads : SpaceOf[u] = SpaceOf[t] /\ SleepsOn(u, arg[t].addr) } IN
             \/ asleep \subseteq ready'
             \/ /\ arg[t].val # Everyone
                /\ arg[t].addr \in mixed' \/ Cardinality(asleep \cap ready') >= arg[t].val
<1>1. ASSUME IInv, NEW t \in Threads, FutexWake(t), arg[t].addr \notin refused
      PROVE  Enough(t)
  <2> DEFINE asleep == { u \in Threads : SpaceOf[u] = SpaceOf[t] /\ SleepsOn(u, arg[t].addr) }
  <2>1. Typed /\ InCall /\ Queued /\ Found
        BY <1>1, Zenon DEF IInv
  <2>2. PICK a \in Addrs : arg[t].addr = a
        BY <2>1, Zenon DEF Typed
  <2>3. PICK k \in Nat : /\ Wakes(a, k) /\ Spends(t, a, k)
                         /\ k = Len(table[a]) \/ (k = arg[t].val /\ arg[t].val # Everyone)
        BY <1>1, <2>1, <2>2, Woken, ZenonT(30)
  <2>4. k \in 0 .. Len(table[a]) /\ \A u \in Asleep(a) : Taken(u, a, k) => u \in ready'
        BY <2>3, ZenonT(30) DEF Wakes, Asleep
  <2>5. table[a] \in Seq(Threads) /\ Len(table[a]) \in Nat
        BY <2>1 DEF Typed
  <2>6. \A u : u \in asleep <=> u \in Asleep(a) /\ SpaceOf[u] = SpaceOf[t]
        BY <2>2, Zenon DEF Asleep
  <2>7. CASE k = Len(table[a])
    <3>1. ASSUME NEW u \in Threads, SleepsOn(u, a) PROVE u \in ready'
          BY <1>1, <2>1, <2>2, <2>3, <2>7, <3>1, NobodyLeft, ZenonT(30)
    <3>2. asleep \subseteq ready'
          BY <2>6, <3>1, Zenon DEF Asleep
    <3> QED
          BY <3>2, Zenon
  <2>8. CASE k = arg[t].val /\ arg[t].val # Everyone /\ a \notin mixed'
    <3> HIDE DEF asleep
    <3> DEFINE f == [i \in 1 .. k |-> table[a][i]]
    <3>1. /\ 1 .. k \subseteq 1 .. Len(table[a])
          /\ \A i \in 1 .. k, j \in k + 1 .. Len(table[a]) : j \in 1 .. Len(table[a]) /\ i # j
          BY <2>4, <2>5, SMTT(30)
    <3>2. /\ \A i \in 1 .. Len(table[a]) : table[a][i] \in Asleep(a)
          /\ \A i, j \in 1 .. Len(table[a]) : table[a][i] = table[a][j] => i = j
          /\ \A i \in 1 .. k : SpaceOf[table[a][i]] = SpaceOf[t]
          BY <2>1, <2>3, <2>8, ZenonT(30) DEF Queued, Spends
    <3>3. ASSUME NEW i \in 1 .. k PROVE table[a][i] \in asleep \cap ready'
      <4>1. Taken(table[a][i], a, k)
            BY <3>1, <3>2, ZenonT(30) DEF Taken
      <4>2. table[a][i] \in Asleep(a) /\ SpaceOf[table[a][i]] = SpaceOf[t]
            BY <3>1, <3>2, Zenon
      <4> QED
            BY <2>4, <2>6, <4>1, <4>2, Zenon
    <3>4. f \in Injection(1 .. k, asleep \cap ready')
      <4>1. \A i, j \in 1 .. k : table[a][i] = table[a][j] => i = j
            BY <3>1, <3>2, Zenon
      <4> QED
            BY <3>3, <4>1, ZenonT(30) DEF Injection, IsInjective
    <3>5. IsFiniteSet(asleep \cap ready')
      <4>1. asleep \cap ready' \in SUBSET Threads
            BY <2>6, Zenon DEF Asleep
      <4> QED
            BY <4>1, FS_Subset, ZenonT(30)
    <3>6. Cardinality(1 .. k) <= Cardinality(asleep \cap ready')
          BY <3>4, <3>5, FS_Injection, ZenonT(30)
    <3>7. Cardinality(1 .. k) = k
          BY FS_Interval
    <3>8. Cardinality(asleep \cap ready') \in Nat
          BY <3>5, FS_CardinalityType, ZenonT(30)
    <3>9. Cardinality(asleep \cap ready') >= arg[t].val
          BY <2>8, <3>6, <3>7, <3>8, ZenonT(30)
    <3> QED
          BY <2>8, <3>9, Zenon DEF asleep
  <2>9. CASE arg[t].val # Everyone /\ a \in mixed'
        BY <2>2, <2>9, Zenon
  <2> QED
        BY <2>3, <2>7, <2>8, <2>9, ZenonT(30)
<1>2. IInv => [\A t \in Threads : FutexWake(t) /\ arg[t].addr \notin refused => Enough(t)]_vars
      BY <1>1, Zenon
<1> QED
      BY <1>2, PthreadsSound, PTL, ZenonT(30) DEF WakeCounts

=============================================================================
