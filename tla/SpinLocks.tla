------------------------------ MODULE SpinLocks ------------------------------
(***************************************************************************)
(* The primitives of kernel/core/src/sync whose users never sleep: the       *)
(* sequence lock, and the spin locks with the interrupts they shut out.      *)
(***************************************************************************)
EXTENDS Integers, Sequences, FiniteSets

-----------------------------------------------------------------------------
(***************************************************************************)
(* The sequence lock (kernel/core/src/sync/seqlock.rs).  The protected value  *)
(* has two words, copied and written one at a time; the sequence number is    *)
(* a machine integer of SeqBits bits (32 in the code) that wraps.             *)
(***************************************************************************)
CONSTANTS
    SqReaders,    \* CPUs that read
    SqWriters,    \* CPUs that write
    SeqBits,      \* width of the sequence number
    SqWrites,     \* bound: writes in all
    SqReads       \* bound: reads per reader

ASSUME SeqLockAssumption ==
    /\ SqReaders \cap SqWriters = {}
    /\ SeqBits \in Nat \ {0}
    /\ 2^SeqBits \in Nat \ {0} /\ 2^SeqBits % 2 = 0
    /\ SqWrites \in Nat /\ SqReads \in Nat

VARIABLES
    seq,          \* AtomicU32 seq
    words,        \* the two words of data, named by the write they are from
    sqPc,         \* where each CPU is
    sqSeen,       \* s1 of a reader, s of a writer
    sqCopy,       \* the words a reader has copied
    sqVersion,    \* the number of the write under way or last made
    sqFloor,      \* history: the last write complete when a read began
    sqLeft        \* reads each reader may still start

sqVars == <<seq, words, sqPc, sqSeen, sqCopy, sqVersion, sqFloor, sqLeft>>

CPUs == SqReaders \cup SqWriters
Wrap(n) == n % 2^SeqBits
Odd(n) == n % 2 = 1

SqInit ==
    /\ seq = 0
    /\ words = <<0, 0>>
    /\ sqPc = [c \in CPUs |-> "idle"]
    /\ sqSeen = [c \in CPUs |-> 0]
    /\ sqCopy = [c \in SqReaders |-> <<0, 0>>]
    /\ sqVersion = 0
    /\ sqFloor = [c \in SqReaders |-> 0]
    /\ sqLeft = [c \in SqReaders |-> SqReads]

SqGoto(c, label) == sqPc' = [sqPc EXCEPT ![c] = label]

\* The last write whose guard has been dropped.
Complete == IF Odd(seq) THEN sqVersion - 1 ELSE sqVersion

-----------------------------------------------------------------------------
(* read() *)

BeginRead(c) ==
    /\ sqPc[c] = "idle" /\ sqLeft[c] > 0
    /\ sqLeft' = [sqLeft EXCEPT ![c] = @ - 1]
    /\ sqFloor' = [sqFloor EXCEPT ![c] = Complete]
    /\ SqGoto(c, "load")
    /\ UNCHANGED <<seq, words, sqSeen, sqCopy, sqVersion>>

\* s1 = seq.load, until it is even.
LoadSeq(c) ==
    /\ sqPc[c] = "load" /\ ~Odd(seq)
    /\ sqSeen' = [sqSeen EXCEPT ![c] = seq]
    /\ SqGoto(c, "copy1")
    /\ UNCHANGED <<seq, words, sqCopy, sqVersion, sqFloor, sqLeft>>

\* The copy of the data, a word at a time.
CopyWord(c, i) ==
    /\ sqPc[c] = <<"copy1", "copy2">>[i]
    /\ sqCopy' = [sqCopy EXCEPT ![c][i] = words[i]]
    /\ SqGoto(c, <<"copy2", "check">>[i])
    /\ UNCHANGED <<seq, words, sqSeen, sqVersion, sqFloor, sqLeft>>

\* (mutant) the second load is not compared with the first
CheckNothing(c) ==
    /\ sqPc[c] = "check"
    /\ SqGoto(c, "got")
    /\ UNCHANGED <<seq, words, sqSeen, sqCopy, sqVersion, sqFloor, sqLeft>>

\* s2 = seq.load: equal to s1, the copy is returned; otherwise all over again.
CheckSeq(c) ==
    /\ sqPc[c] = "check"
    /\ SqGoto(c, IF seq = sqSeen[c] THEN "got" ELSE "load")
    /\ UNCHANGED <<seq, words, sqSeen, sqCopy, sqVersion, sqFloor, sqLeft>>

\* The caller has used the value.
EndRead(c) ==
    /\ sqPc[c] = "got"
    /\ SqGoto(c, "idle")
    /\ sqCopy' = [sqCopy EXCEPT ![c] = <<0, 0>>]
    /\ sqSeen' = [sqSeen EXCEPT ![c] = 0]
    /\ sqFloor' = [sqFloor EXCEPT ![c] = 0]
    /\ UNCHANGED <<seq, words, sqVersion, sqLeft>>

-----------------------------------------------------------------------------
(* write() and the guard *)

\* s = seq.load, until it is even.
LoadEven(c) ==
    /\ sqPc[c] = "idle" /\ sqVersion < SqWrites /\ ~Odd(seq)
    /\ sqSeen' = [sqSeen EXCEPT ![c] = seq]
    /\ SqGoto(c, "cas")
    /\ UNCHANGED <<seq, words, sqCopy, sqVersion, sqFloor, sqLeft>>

\* (mutant) the number is stored, not compared and exchanged
TakeSeqBlindly(c) ==
    /\ sqPc[c] = "cas"
    /\ seq' = Wrap(sqSeen[c] + 1) /\ sqVersion' = sqVersion + 1 /\ SqGoto(c, "put1")
    /\ sqSeen' = [sqSeen EXCEPT ![c] = 0]
    /\ UNCHANGED <<words, sqCopy, sqFloor, sqLeft>>

\* compare_exchange_weak(s, s + 1), or all over again.
TakeSeq(c) ==
    /\ sqPc[c] = "cas"
    /\ IF seq = sqSeen[c]
         THEN seq' = Wrap(seq + 1) /\ sqVersion' = sqVersion + 1 /\ SqGoto(c, "put1")
         ELSE SqGoto(c, "idle") /\ UNCHANGED <<seq, sqVersion>>
    /\ sqSeen' = [sqSeen EXCEPT ![c] = 0]
    /\ UNCHANGED <<words, sqCopy, sqFloor, sqLeft>>

\* The guard's owner writes the data, a word at a time.
PutWord(c, i) ==
    /\ sqPc[c] = <<"put1", "put2">>[i]
    /\ words' = [words EXCEPT ![i] = sqVersion]
    /\ SqGoto(c, <<"put2", "drop">>[i])
    /\ UNCHANGED <<seq, sqSeen, sqCopy, sqVersion, sqFloor, sqLeft>>

\* The guard's drop: seq.fetch_add(1).
SqDropGuard(c) ==
    /\ sqPc[c] = "drop"
    /\ seq' = Wrap(seq + 1)
    /\ SqGoto(c, "idle")
    /\ UNCHANGED <<words, sqSeen, sqCopy, sqVersion, sqFloor, sqLeft>>

SqNext ==
    \/ \E c \in SqReaders :
         \/ BeginRead(c) \/ LoadSeq(c) \/ CheckSeq(c) \/ EndRead(c)
         \/ \E i \in 1 .. 2 : CopyWord(c, i)
    \/ \E c \in SqWriters :
         \/ LoadEven(c) \/ TakeSeq(c) \/ SqDropGuard(c)
         \/ \E i \in 1 .. 2 : PutWord(c, i)

SqSpec == SqInit /\ [][SqNext]_sqVars

-----------------------------------------------------------------------------

\* Two writers never write at once: the load of an even number and the
\* compare-exchange from it admit one.
OneWriter ==
    \A c, d \in SqWriters :
        sqPc[c] \in {"put1", "put2", "drop"} /\ sqPc[d] \in {"put1", "put2", "drop"} => c = d

\* What read() returns is the value of one write, never words of two, and that
\* write is not older than the last one finished before the read began: as long
\* as fewer than 2^(SeqBits-1) writes fall into one copy, which would bring the
\* sequence number round to s1 again.  Writers exclude each other.
ReadsAreSnapshots ==
    /\ OneWriter
    /\ \A c \in SqReaders : sqPc[c] = "got" =>
          sqCopy[c][1] = sqCopy[c][2] /\ sqCopy[c][1] >= sqFloor[c]

-----------------------------------------------------------------------------
(***************************************************************************)
(* IrqSpinLock and SpinLock (kernel/core/src/sync/irq_spinlock.rs,            *)
(* spinlock.rs) with the interrupts they are meant to shut out: on every CPU  *)
(* base code and, when the interrupt flag is set, a handler on top of it take *)
(* the same locks.  Guards nest as scopes do; locks are taken in ascending    *)
(* order.                                                                     *)
(***************************************************************************)
CONSTANTS
    IqCpus,
    IqLocks,      \* IrqSpinLocks: a set of numbers, their order
    PlainLocks,   \* SpinLocks, used by base code only: numbers too
    IqRounds      \* bound: lock calls of each context

ASSUME IrqLockAssumption ==
    /\ IqLocks \subseteq Nat \ {0} /\ PlainLocks \subseteq Nat \ {0}
    /\ IqLocks \cap PlainLocks = {}
    /\ IqRounds \in Nat

VARIABLES
    iqOwner,      \* which context set "locked", for each lock
    iqGuards,     \* the guards each context holds, innermost last
    iqWant,       \* the lock a context spins on, with the saved flags
    iqFlag,       \* the interrupt flag of each CPU
    iqIn,         \* CPUs that run an interrupt handler
    iqDepth,      \* IRQ_LOCK_DEPTH of each CPU
    iqDrop,       \* contexts in drop(), between the store and the flags
    iqLeft        \* lock calls each context may still make

iqVars == <<iqOwner, iqGuards, iqWant, iqFlag, iqIn, iqDepth, iqDrop, iqLeft>>

AllLocks == IqLocks \cup PlainLocks
Contexts == IqCpus \X {"base", "irq"}
Cpu(x) == x[1]
None == [lock |-> 0, saved |-> FALSE]
IqFree == <<0, "none">>   \* the owner of a free lock

IqInit ==
    /\ iqOwner = [l \in AllLocks |-> IqFree]
    /\ iqGuards = [x \in Contexts |-> << >>]
    /\ iqWant = [x \in Contexts |-> None]
    /\ iqFlag = [c \in IqCpus |-> TRUE]
    /\ iqIn = {}
    /\ iqDepth = [c \in IqCpus |-> 0]
    /\ iqDrop = [x \in Contexts |-> None]
    /\ iqLeft = [x \in Contexts |-> IqRounds]

\* The context its CPU is executing.
Runs(x) == x[2] = (IF Cpu(x) \in iqIn THEN "irq" ELSE "base")

\* It is between two calls, and may take lock l.
MayTake(x, l) ==
    /\ Runs(x) /\ iqWant[x] = None /\ iqDrop[x] = None /\ iqLeft[x] > 0
    /\ \A i \in 1 .. Len(iqGuards[x]) : iqGuards[x][i].lock < l

\* (mutant) lock() saves the flags and leaves interrupts enabled
IrqLockUnmasked(x, l) ==
    /\ MayTake(x, l) /\ l \in IqLocks
    /\ iqWant' = [iqWant EXCEPT ![x] = [lock |-> l, saved |-> iqFlag[Cpu(x)]]]
    /\ iqLeft' = [iqLeft EXCEPT ![x] = @ - 1]
    /\ UNCHANGED <<iqOwner, iqGuards, iqFlag, iqIn, iqDepth, iqDrop>>

\* IrqSpinLock::lock: save_flags_and_cli, then the spin.
IrqLock(x, l) ==
    /\ MayTake(x, l) /\ l \in IqLocks
    /\ iqWant' = [iqWant EXCEPT ![x] = [lock |-> l, saved |-> iqFlag[Cpu(x)]]]
    /\ iqFlag' = [iqFlag EXCEPT ![Cpu(x)] = FALSE]
    /\ iqLeft' = [iqLeft EXCEPT ![x] = @ - 1]
    /\ UNCHANGED <<iqOwner, iqGuards, iqIn, iqDepth, iqDrop>>

\* SpinLock::lock: refused (a panic of the debug build) inside an IrqSpinLock.
LockPlain(x, l) ==
    /\ MayTake(x, l) /\ l \in PlainLocks
    /\ x[2] = "base" /\ iqDepth[Cpu(x)] = 0
    /\ iqWant' = [iqWant EXCEPT ![x] = [lock |-> l, saved |-> FALSE]]
    /\ iqLeft' = [iqLeft EXCEPT ![x] = @ - 1]
    /\ UNCHANGED <<iqOwner, iqGuards, iqFlag, iqIn, iqDepth, iqDrop>>

\* The compare-exchange that succeeds; the guard keeps the flags.
Acquire(x) ==
    /\ Runs(x) /\ iqWant[x] # None
    /\ iqOwner[iqWant[x].lock] = IqFree
    /\ iqOwner' = [iqOwner EXCEPT ![iqWant[x].lock] = x]
    /\ iqGuards' = [iqGuards EXCEPT ![x] = Append(@, iqWant[x])]
    /\ iqWant' = [iqWant EXCEPT ![x] = None]
    /\ iqDepth' = [iqDepth EXCEPT ![Cpu(x)] = IF iqWant[x].lock \in IqLocks THEN @ + 1 ELSE @]
    /\ UNCHANGED <<iqFlag, iqIn, iqDrop, iqLeft>>

\* (mutant) a failed try_lock returns with interrupts masked
IrqTryLockMasked(x, l) ==
    /\ MayTake(x, l) /\ l \in IqLocks
    /\ iqLeft' = [iqLeft EXCEPT ![x] = @ - 1]
    /\ iqFlag' = [iqFlag EXCEPT ![Cpu(x)] = FALSE]
    /\ IF iqOwner[l] = IqFree
         THEN /\ iqOwner' = [iqOwner EXCEPT ![l] = x]
              /\ iqGuards' = [iqGuards EXCEPT
                                ![x] = Append(@, [lock |-> l, saved |-> iqFlag[Cpu(x)]])]
              /\ iqDepth' = [iqDepth EXCEPT ![Cpu(x)] = @ + 1]
         ELSE UNCHANGED <<iqOwner, iqGuards, iqDepth>>
    /\ UNCHANGED <<iqWant, iqIn, iqDrop>>

\* IrqSpinLock::try_lock: on failure the flags are as before the call.
IrqTryLock(x, l) ==
    /\ MayTake(x, l) /\ l \in IqLocks
    /\ iqLeft' = [iqLeft EXCEPT ![x] = @ - 1]
    /\ IF iqOwner[l] = IqFree
         THEN /\ iqOwner' = [iqOwner EXCEPT ![l] = x]
              /\ iqGuards' = [iqGuards EXCEPT
                                ![x] = Append(@, [lock |-> l, saved |-> iqFlag[Cpu(x)]])]
              /\ iqFlag' = [iqFlag EXCEPT ![Cpu(x)] = FALSE]
              /\ iqDepth' = [iqDepth EXCEPT ![Cpu(x)] = @ + 1]
         ELSE UNCHANGED <<iqOwner, iqGuards, iqFlag, iqDepth>>
    /\ UNCHANGED <<iqWant, iqIn, iqDrop>>

\* A guard's drop: locked.store(false) ...
IrqUnlock(x) ==
    /\ Runs(x) /\ iqGuards[x] # << >> /\ iqWant[x] = None /\ iqDrop[x] = None
    /\ LET g == iqGuards[x][Len(iqGuards[x])] IN
         /\ iqOwner' = [iqOwner EXCEPT ![g.lock] = IqFree]
         /\ iqDrop' = [iqDrop EXCEPT ![x] = g]
    /\ iqGuards' = [iqGuards EXCEPT ![x] = SubSeq(@, 1, Len(@) - 1)]
    /\ UNCHANGED <<iqWant, iqFlag, iqIn, iqDepth, iqLeft>>

\* ... the debug depth, and restore_flags: sti if the saved flags had interrupts enabled.
RestoreFlags(x) ==
    /\ Runs(x) /\ iqDrop[x] # None
    /\ iqDepth' = [iqDepth EXCEPT ![Cpu(x)] = IF iqDrop[x].lock \in IqLocks THEN @ - 1 ELSE @]
    /\ iqFlag' = [iqFlag EXCEPT ![Cpu(x)] = @ \/ iqDrop[x].saved]
    /\ iqDrop' = [iqDrop EXCEPT ![x] = None]
    /\ UNCHANGED <<iqOwner, iqGuards, iqWant, iqIn, iqLeft>>

\* An interrupt is taken through an interrupt gate, which clears the flag.
Interrupt(c) ==
    /\ iqFlag[c] /\ c \notin iqIn /\ iqLeft[<<c, "irq">>] > 0
    /\ iqIn' = iqIn \cup {c}
    /\ iqFlag' = [iqFlag EXCEPT ![c] = FALSE]
    /\ UNCHANGED <<iqOwner, iqGuards, iqWant, iqDepth, iqDrop, iqLeft>>

\* iretq, when the handler has dropped its guards, restores the flag.
Iret(c) ==
    LET x == <<c, "irq">> IN
    /\ c \in iqIn
    /\ iqGuards[x] = << >> /\ iqWant[x] = None /\ iqDrop[x] = None
    /\ iqIn' = iqIn \ {c}
    /\ iqFlag' = [iqFlag EXCEPT ![c] = TRUE]
    /\ UNCHANGED <<iqOwner, iqGuards, iqWant, iqDepth, iqDrop, iqLeft>>

IqNext ==
    \/ \E x \in Contexts, l \in AllLocks : IrqLock(x, l) \/ LockPlain(x, l) \/ IrqTryLock(x, l)
    \/ \E x \in Contexts : Acquire(x) \/ IrqUnlock(x) \/ RestoreFlags(x)
    \/ \E c \in IqCpus : Interrupt(c) \/ Iret(c)

IqSpec == IqInit /\ [][IqNext]_iqVars

-----------------------------------------------------------------------------

\* A handler never spins on a lock of the code it interrupted, which could not
\* run to release it: whatever the nesting of guards and handlers.
NoSelfDeadlock ==
    \A c \in IqCpus, l \in IqLocks :
        iqWant[<<c, "irq">>].lock = l => iqOwner[l] # <<c, "base">>

\* A CPU whose code has left every lock call and dropped every guard accepts
\* interrupts again, and its debug depth is back at zero: whichever way the calls
\* ended, a failed try_lock and drops of nested guards included.
FlagsRestored ==
    \A c \in IqCpus :
        (/\ c \notin iqIn
         /\ iqGuards[<<c, "base">>] = << >>
         /\ iqWant[<<c, "base">>] = None /\ iqDrop[<<c, "base">>] = None)
        => iqFlag[c] /\ iqDepth[c] = 0

\* Interrupts meet the spin locks safely: no handler spins on a lock of the code it
\* interrupted, and flags come back as they were.
InterruptsSafe == NoSelfDeadlock /\ FlagsRestored
=============================================================================
