----------------------------- MODULE WaitQueues -----------------------------
(***************************************************************************)
(* The two queues of wakers every blocking primitive of the kernel is       *)
(* built on, as operators on a sequence of wakers.                          *)
(*                                                                          *)
(*  - WaitQueue (kernel/core/src/sync/waitqueue.rs): a fixed array of       *)
(*    MAX_WAITERS wakers.  Registration can fail, duplicates are kept, and  *)
(*    wake_one removes the first entry by moving the LAST one in its place. *)
(*  - HeapWaitQueue (kernel/core/src/sync/heap_waitqueue.rs): an unbounded  *)
(*    deque.  register_waker keeps one entry per waker, wake_one pops the   *)
(*    front.                                                                *)
(*                                                                          *)
(* Every method of the two queues holds the queue's IrqSpinLock from its    *)
(* first read to its last write, so each is one step of a model; the call   *)
(* of Waker::wake happens after the lock is dropped and is a later step.    *)
(***************************************************************************)
EXTENDS Naturals, Sequences

-----------------------------------------------------------------------------
(* WaitQueue *)

\* WaitQueueInner::register_waker returns FALSE when the array is full.
WQHasRoom(q, cap) == Len(q) < cap

\* (mutant) no capacity check
WQRegisterAlways(q, w, cap) == Append(q, w)

WQRegister(q, w, cap) == IF WQHasRoom(q, cap) THEN Append(q, w) ELSE q

\* ArrayVec::swap_remove(0): the last waker takes the slot of the first.
SwapRemoveFirst(q) ==
    [i \in 1 .. Len(q) - 1 |-> IF i = 1 THEN q[Len(q)] ELSE q[i]]

\* The queue wake_one leaves; the waker it takes is q[1].
WQAfterWakeOne(q) == IF q = << >> THEN q ELSE SwapRemoveFirst(q)

-----------------------------------------------------------------------------
(* HeapWaitQueue *)

\* Some queued waker "will_wake" the same task on the same CPU.
HQHolds(q, w) == \E i \in 1 .. Len(q) : q[i] = w

HQRegister(q, w) == IF HQHolds(q, w) THEN q ELSE Append(q, w)

\* The queue wake_one leaves; the waker it takes is q[1].
HQAfterWakeOne(q) == IF q = << >> THEN q ELSE Tail(q)

\* The wakers wake_all drains from a queue of either kind.
WakersIn(q) == { q[i] : i \in 1 .. Len(q) }
=============================================================================
