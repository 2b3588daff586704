------------------------------- MODULE MCSync -------------------------------
(***************************************************************************)
(* Small instances of the kernel's synchronisation primitives for TLC.  The  *)
(* primitives do not interact, so a behaviour exercises one of them, chosen  *)
(* in the initial state; the others rest.                                    *)
(***************************************************************************)
EXTENDS Locks, SpinLocks

CONSTANTS
    t1, t2, t3,
    LdCpus, PlainKeys, IrqKeys, MAX_CLASSES, MAX_HELD, LdRounds

VARIABLES
    part,         \* the primitive this behaviour is about
    ldClasses, ldEdges, ldReports, ldUsage, ldHeld, ldIn, ldGraph, ldOwner,
    ldGuards, ldPc, ldIrq, ldLeft

ldVars == <<ldClasses, ldEdges, ldReports, ldUsage, ldHeld, ldIn, ldGraph, ldOwner,
            ldGuards, ldPc, ldIrq, ldLeft>>

\* Lockdep watches all locks; where it is not the primitive chosen it is absent.
LdOff ==
    /\ ldClasses = 0 /\ ldEdges = 0 /\ ldReports = 0 /\ ldUsage = 0 /\ ldHeld = 0
    /\ ldIn = 0 /\ ldGraph = 0 /\ ldOwner = 0 /\ ldGuards = 0 /\ ldPc = 0 /\ ldIrq = 0
    /\ ldLeft = 0

Ld == INSTANCE Lockdep

\* Every task on a CPU of its own.
OwnCpu == [t \in Tasks |-> t]

\* Both CPUs take two locks in base code; the first one is interrupted.
LdContexts == [x \in LdCpus \X {"base", "irq"} |->
                 IF x[2] = "base" THEN 2 ELSE IF x[1] = 1 THEN 1 ELSE 0]

Parts == {"mutex", "semaphore", "rwlock", "seqlock", "condvar", "lazy", "irq", "lockdep",
          "starvation"}

\* Everything but the chosen primitive rests.
Rest ==
    /\ part' = part
    /\ IF part = "mutex" THEN TRUE ELSE UNCHANGED vars
    /\ IF part = "semaphore" THEN TRUE ELSE UNCHANGED semVars
    /\ IF part = "rwlock" THEN TRUE ELSE UNCHANGED rwVars
    /\ IF part = "seqlock" THEN TRUE ELSE UNCHANGED sqVars
    /\ IF part = "condvar" THEN TRUE ELSE UNCHANGED cvVars
    /\ IF part = "lazy" THEN TRUE ELSE UNCHANGED lzVars
    /\ IF part = "irq" THEN TRUE ELSE UNCHANGED iqVars
    /\ IF part = "lockdep" THEN TRUE ELSE UNCHANGED ldVars
    /\ IF part = "starvation" THEN TRUE ELSE UNCHANGED stVars

SyncInit ==
    /\ part \in Parts
    /\ Init /\ SemInit /\ RwInit /\ SqInit /\ CvInit /\ LzInit /\ IqInit /\ StInit
    /\ IF part = "lockdep" THEN Ld!Init ELSE LdOff

SyncNext ==
    \/ part = "mutex" /\ Next /\ Rest
    \/ part = "semaphore" /\ SemNext /\ Rest
    \/ part = "rwlock" /\ RwNext /\ Rest
    \/ part = "seqlock" /\ SqNext /\ Rest
    \/ part = "condvar" /\ CvNext /\ Rest
    \/ part = "lazy" /\ LzNext /\ Rest
    \/ part = "irq" /\ IqNext /\ Rest
    \/ part = "lockdep" /\ Ld!Next /\ Rest
    \/ part = "starvation" /\ StNext /\ Rest

SyncVars ==
    <<part, vars, semVars, rwVars, sqVars, cvVars, lzVars, iqVars,
      ldVars, stVars>>

SyncSpec == SyncInit /\ [][SyncNext]_SyncVars

CondvarSpec == part = "condvar" /\ SyncInit /\ [][SyncNext]_SyncVars

-----------------------------------------------------------------------------

\* Lockdep keeps count of the locks held and of their order: its stack of held locks
\* is right whatever a handler does inside a hook, a handler never adds edges inside
\* another's hook, and every order inversion that its graph comes to hold is reported.
InversionsReported ==
    part = "lockdep" => Ld!HeldStackFaithful /\ Ld!EdgesNotReentered /\ Ld!InversionsReported
=============================================================================
