-------------------------------- MODULE Pipe --------------------------------
(***************************************************************************)
(* Pipes (kernel/ipc/src/pipe.rs) as the tasks of several CPUs use them.     *)
(*                                                                          *)
(* The two ends run the same loop: register a waker, look at the buffer,     *)
(* and either sleep or do the transfer and wake one task of the other end.   *)
(* Each lock region is a step.  A task keeps its CPU from the start of a     *)
(* poll to its end, so tasks of one CPU interleave only between polls.       *)
(*                                                                          *)
(* A system call first polls the transfer once with a waker that does        *)
(* nothing (try_poll_immediate); only if that would block does process_task  *)
(* await it with a real one.  A real waker is <<task, CPU of the poll that   *)
(* made it>>: the executor drops a wake-up whose CPU no longer owns the task *)
(* (see Executor), and a task that is not being polled may be stolen.        *)
(***************************************************************************)
EXTENDS Integers, Sequences, WaitQueues

-----------------------------------------------------------------------------
(***************************************************************************)
(* CircularBuffer (kernel/ipc/src/circular_buffer.rs), the ring of bytes     *)
(* behind pipes and PTYs.  A value is a record                               *)
(*     [data: 0 .. cap-1 -> byte, read_pos, write_pos, count].               *)
(***************************************************************************)

CBLeast(a, b) == IF a < b THEN a ELSE b

CBNew(cap, zero) ==
    [data |-> [i \in 0 .. cap - 1 |-> zero], read_pos |-> 0, write_pos |-> 0, count |-> 0]

CBIsEmpty(b) == b.count = 0

CBIsFull(b, cap) == b.count = cap

\* (mutant) the second copy is forgotten: a read stops at the end of the array
CBBytesNoWrap(b, cap, n) ==
    [i \in 1 .. CBLeast(CBLeast(n, b.count), cap - b.read_pos) |-> b.data[b.read_pos + i - 1]]

\* The bytes read() copies into a buffer of n bytes: up to the end of the
\* array, then from its start.
CBBytes(b, cap, n) ==
    LET k     == CBLeast(n, b.count)
        first == CBLeast(cap - b.read_pos, k)
    IN  [i \in 1 .. first |-> b.data[b.read_pos + i - 1]]
        \o [i \in 1 .. k - first |-> b.data[i - 1]]

CBAfterRead(b, cap, n) ==
    LET k == CBLeast(n, b.count)
    IN  IF k = 0 THEN b
        ELSE [b EXCEPT !.read_pos = (@ + k) % cap, !.count = @ - k]

\* How much of s write() takes.
CBTaken(b, cap, s) == CBLeast(Len(s), cap - b.count)

\* (mutant) write() does not look at the room that is left
CBAfterWriteUnbounded(b, cap, s) ==
    [data |-> [i \in 0 .. cap - 1 |->
                 IF \E j \in 1 .. Len(s) : (b.write_pos + j - 1) % cap = i
                   THEN s[CHOOSE j \in 1 .. Len(s) : (b.write_pos + j - 1) % cap = i]
                   ELSE b.data[i]],
     read_pos |-> b.read_pos, write_pos |-> (b.write_pos + Len(s)) % cap,
     count |-> b.count + Len(s)]

CBAfterWrite(b, cap, s) ==
    LET k     == CBTaken(b, cap, s)
        first == CBLeast(cap - b.write_pos, k)
        w     == b.write_pos
    IN  IF k = 0 THEN b
        ELSE [data |-> [i \in 0 .. cap - 1 |->
                          IF w <= i /\ i < w + first THEN s[i - w + 1]
                          ELSE IF i < k - first THEN s[first + i + 1]
                          ELSE b.data[i]],
              read_pos |-> b.read_pos, write_pos |-> (w + k) % cap, count |-> b.count + k]

\* The bytes in the buffer, oldest first.
CBContents(b, cap) == [i \in 1 .. b.count |-> b.data[(b.read_pos + i - 1) % cap]]

-----------------------------------------------------------------------------
(* The pipe *)

CONSTANTS
    Readers, Writers,   \* tasks that use the read end, the write end
    Cpus, Home,         \* the CPUs, and the one each task starts on
    Stealable,          \* tasks that work stealing may move
    Capacity,           \* PIPE_BUF_SIZE
    Noop,               \* the CPU of the waker that wakes nobody
    Byte, Zero,         \* byte values, and the one the buffer starts with
    Chunks, MaxRead,    \* bounds: what a call writes, and how much it reads
    Calls               \* bound: calls each task makes

Tasks == Readers \cup Writers

ASSUME PipeAssumption ==
    /\ Home \in [Tasks -> Cpus] /\ Noop \notin Cpus
    /\ Readers \cap Writers = {} /\ Readers # {} /\ Stealable \subseteq Tasks
    /\ Capacity \in Nat \ {0} /\ Zero \in Byte /\ Chunks \subseteq Seq(Byte) \ {<< >>}
    /\ MaxRead \in Nat \ {0}
    /\ Calls \in [Tasks -> Nat]

VARIABLES
    buffer,     \* PipeInner.buffer
    wq,         \* read_wq and write_wq
    open,       \* readers, writers: 1 (TRUE) until the last handle is dropped
    closing,    \* ends whose drop has not called wake_all yet
    pc,         \* where each task is
    trapped,    \* tasks whose call process_task awaits
    cpu,        \* the CPU whose executor owns each task
    ready,      \* tasks queued on their own CPU
    calls,      \* calls each task has still to make
    out,        \* history: what the last successful read returned
    ended,      \* history: a read has returned Ok(0)
    broken      \* history: a write has returned BrokenPipe

vars == <<buffer, wq, open, closing, pc, trapped, cpu, ready, calls, out, ended, broken>>

Ends == {"read", "write"}
EndOf(t) == IF t \in Readers THEN "read" ELSE "write"
Peer(e) == IF e = "read" THEN "write" ELSE "read"
Waker(t) == <<t, cpu[t]>>

\* fs::noop_waker(): all of them are alike.
NoopWaker == <<CHOOSE t \in Tasks : TRUE, Noop>>

Init ==
    /\ buffer = CBNew(Capacity, Zero)
    /\ wq = [e \in Ends |-> << >>]
    /\ open = [e \in Ends |-> TRUE]
    /\ closing = {}
    /\ pc = [t \in Tasks |-> "idle"] /\ trapped = {}
    /\ cpu = Home
    /\ ready = {}
    /\ calls = Calls
    /\ out = << >> /\ ended = FALSE /\ broken = FALSE

\* The condition of the poll_fn of read and of write, and of poll_readiness.
MayProceed(e) ==
    IF e = "read" THEN ~CBIsEmpty(buffer) \/ ~open["write"]
                  ELSE ~open["read"] \/ ~CBIsFull(buffer, Capacity)

Polling(t) == pc[t] \in {"register", "check", "transfer", "wake"}
CpuFree(t) == \A u \in Tasks : Polling(u) => cpu[u] # cpu[t]
Goto(t, label) == pc' = [pc EXCEPT ![t] = label]

\* Waker::wake: only the CPU that owns the task can find it.
Woken(ws) == { t \in Tasks : Waker(t) \in ws }

-----------------------------------------------------------------------------

\* sys_vnode_read or sys_vnode_write: try_poll_immediate.  The handle the call
\* uses keeps the end open.
Call(t) ==
    /\ pc[t] = "idle" /\ open[EndOf(t)] /\ calls[t] > 0 /\ CpuFree(t)
    /\ calls' = [calls EXCEPT ![t] = @ - 1]
    /\ trapped' = trapped \ {t}
    /\ Goto(t, "register")
    /\ UNCHANGED <<buffer, wq, open, closing, cpu, ready, out, ended, broken>>

\* (mutant) the waker is not registered
RegisterNot(t) ==
    /\ pc[t] = "register"
    /\ Goto(t, "check")
    /\ UNCHANGED <<buffer, wq, open, closing, trapped, cpu, ready, calls, out, ended, broken>>

\* register_waker(cx.waker())
Register(t) ==
    /\ pc[t] = "register"
    /\ wq' = [wq EXCEPT ![EndOf(t)] =
                HQRegister(@, IF t \in trapped THEN Waker(t) ELSE NoopWaker)]
    /\ Goto(t, "check")
    /\ UNCHANGED <<buffer, open, closing, trapped, cpu, ready, calls, out, ended, broken>>

\* The look at the buffer, under its lock.  Pending ends the first attempt with
\* TRAP_IO, which starts again in process_task, and the second with a sleep.
Check(t) ==
    /\ pc[t] = "check"
    /\ Goto(t, IF MayProceed(EndOf(t)) THEN "transfer"
               ELSE IF t \in trapped THEN "asleep" ELSE "register")
    /\ trapped' = IF MayProceed(EndOf(t)) THEN trapped ELSE trapped \cup {t}
    /\ UNCHANGED <<buffer, wq, open, closing, cpu, ready, calls, out, ended, broken>>

\* poll_readiness, for a task in TRAP_POLL: its waker goes to the same queue.
PollReadiness(t) ==
    /\ pc[t] = "idle" /\ open[EndOf(t)] /\ calls[t] > 0 /\ CpuFree(t)
    /\ calls' = [calls EXCEPT ![t] = @ - 1]
    /\ wq' = [wq EXCEPT ![EndOf(t)] = HQRegister(@, Waker(t))]
    /\ UNCHANGED <<buffer, open, closing, pc, trapped, cpu, ready, out, ended, broken>>

Read(t) ==
    /\ pc[t] = "transfer" /\ t \in Readers /\ ~CBIsEmpty(buffer)
    /\ \E n \in 1 .. MaxRead :
          /\ out' = CBBytes(buffer, Capacity, n)
          /\ buffer' = CBAfterRead(buffer, Capacity, n)
    /\ Goto(t, "wake")
    /\ UNCHANGED <<wq, open, closing, trapped, cpu, ready, calls, ended, broken>>

ReadEof(t) ==
    /\ pc[t] = "transfer" /\ t \in Readers /\ CBIsEmpty(buffer) /\ ~open["write"]
    /\ ended' = TRUE
    /\ Goto(t, "idle")
    /\ UNCHANGED <<buffer, wq, open, closing, trapped, cpu, ready, calls, out, broken>>

Write(t) ==
    /\ pc[t] = "transfer" /\ t \in Writers /\ open["read"] /\ ~CBIsFull(buffer, Capacity)
    /\ \E s \in Chunks : buffer' = CBAfterWrite(buffer, Capacity, s)
    /\ Goto(t, "wake")
    /\ UNCHANGED <<wq, open, closing, trapped, cpu, ready, calls, out, ended, broken>>

WriteBroken(t) ==
    /\ pc[t] = "transfer" /\ t \in Writers /\ ~open["read"]
    /\ broken' = TRUE
    /\ Goto(t, "idle")
    /\ UNCHANGED <<buffer, wq, open, closing, trapped, cpu, ready, calls, out, ended>>

\* Another task of this end was faster: "spurious wake - retry".
Retry(t) ==
    /\ pc[t] = "transfer"
    /\ IF t \in Readers THEN CBIsEmpty(buffer) /\ open["write"]
                        ELSE CBIsFull(buffer, Capacity) /\ open["read"]
    /\ Goto(t, "register")
    /\ UNCHANGED <<buffer, wq, open, closing, trapped, cpu, ready, calls, out, ended, broken>>

\* wake_one of the other end's queue.  The wake-up itself follows the removal
\* with nothing in between on this CPU.
Wake(t) ==
    /\ pc[t] = "wake"
    /\ LET q == wq[Peer(EndOf(t))] IN
         /\ wq' = [wq EXCEPT ![Peer(EndOf(t))] = HQAfterWakeOne(q)]
         /\ ready' = IF q = << >> THEN ready ELSE ready \cup Woken({q[1]})
    /\ Goto(t, "idle")
    /\ UNCHANGED <<buffer, open, closing, trapped, cpu, calls, out, ended, broken>>

-----------------------------------------------------------------------------

\* The last handle of an end is dropped: fetch_sub, then wake_all.  A call in
\* progress holds a handle.
DropEnd(e) ==
    /\ open[e] /\ \A t \in Tasks : EndOf(t) = e => pc[t] = "idle"
    /\ open' = [open EXCEPT ![e] = FALSE]
    /\ closing' = closing \cup {e}
    /\ UNCHANGED <<buffer, wq, pc, trapped, cpu, ready, calls, out, ended, broken>>

WakeAll(e) ==
    /\ e \in closing
    /\ closing' = closing \ {e}
    /\ ready' = ready \cup Woken(WakersIn(wq[Peer(e)]))
    /\ wq' = [wq EXCEPT ![Peer(e)] = << >>]
    /\ UNCHANGED <<buffer, open, pc, trapped, cpu, calls, out, ended, broken>>

\* The executor polls a woken task: the loop starts again.
Repoll(t) ==
    /\ pc[t] = "asleep" /\ t \in ready /\ CpuFree(t)
    /\ ready' = ready \ {t}
    /\ Goto(t, "register")
    /\ UNCHANGED <<buffer, wq, open, closing, trapped, cpu, calls, out, ended, broken>>

\* A woken task that is not waiting for the pipe is polled for something else.
IdlePoll(t) ==
    /\ pc[t] = "idle" /\ t \in ready /\ CpuFree(t)
    /\ ready' = ready \ {t}
    /\ UNCHANGED <<buffer, wq, open, closing, pc, trapped, cpu, calls, out, ended, broken>>

\* A sleeping task is queued for another reason, a stale waker say.
Spurious(t) ==
    /\ pc[t] = "asleep" /\ t \notin ready
    /\ ready' = ready \cup {t}
    /\ UNCHANGED <<buffer, wq, open, closing, pc, trapped, cpu, calls, out, ended, broken>>

\* Another CPU steals the task while its id is queued.  An idle task may be
\* queued for reasons of its own.
Migrate(t) ==
    /\ t \in Stealable /\ ~Polling(t) /\ (pc[t] = "idle" \/ t \in ready)
    /\ \E d \in Cpus \ {cpu[t]} : cpu' = [cpu EXCEPT ![t] = d]
    /\ UNCHANGED <<buffer, wq, open, closing, pc, trapped, ready, calls, out, ended, broken>>

\* What a task does of itself once it is polled.
Step(t) ==
    \/ Repoll(t) \/ IdlePoll(t) \/ Register(t) \/ Check(t)
    \/ Read(t) \/ ReadEof(t) \/ Write(t) \/ WriteBroken(t) \/ Retry(t)
    \/ Wake(t)

Next ==
    \/ \E t \in Tasks :
          Step(t) \/ Call(t) \/ PollReadiness(t) \/ Spurious(t) \/ Migrate(t)
    \/ \E e \in Ends : DropEnd(e) \/ WakeAll(e)

Spec == Init /\ [][Next]_vars

\* Every CPU polls its ready tasks in FIFO order, and a drop runs to its end.
FairSpec ==
    /\ Spec
    /\ \A t \in Tasks : SF_vars(Step(t))
    /\ \A e \in Ends : WF_vars(WakeAll(e))

-----------------------------------------------------------------------------
(* Properties *)

\* The pipe is a byte stream: every read returns the oldest bytes, once, across
\* the wrap-around of the ring and any interleaving of readers and writers, and
\* end-of-file comes only after the last byte.
Stream == INSTANCE BoundedStream WITH Item <- Byte,
    stream <- CBContents(buffer, Capacity),
    wopen <- open["write"], ropen <- open["read"]

IsByteStream == Stream!Spec

\* A wake-up for end e is on its way.
WakeComing(e) ==
    Peer(e) \in closing \/ \E u \in Tasks : pc[u] = "wake" /\ EndOf(u) = Peer(e)

\* No lost wake-up: a task never sleeps, with nothing on its way to wake it,
\* while the pipe would let it proceed.
NoLostWakeup ==
    \A t \in Tasks : pc[t] = "asleep" /\ MayProceed(EndOf(t)) =>
        t \in ready \/ WakeComing(EndOf(t))

\* A task that sleeps on a pipe whose other end is gone returns: end-of-file
\* and broken pipe reach every sleeper, stolen or not.
HangupServed ==
    \A t \in Tasks :
        (pc[t] = "asleep" /\ ~open[Peer(EndOf(t))]) ~> (pc[t] = "idle")
=============================================================================
