------------------------------ MODULE Channel ------------------------------
(***************************************************************************)
(* Message channels (kernel/ipc/src/channel.rs) and their system calls       *)
(* (kernel/kernel/src/syscall/channel.rs).                                   *)
(*                                                                          *)
(* A channel has two sides.  A task of either side sends to the other side's *)
(* queue and receives from its own.  channel_send and channel_recv run the   *)
(* register, look, transfer, wake loop of pipes, first with a no-op waker,   *)
(* then, after TRAP_IO, with a real one.  channel_send_fd and channel_recv_fd *)
(* try once, and fall back to the same TRAP_IO.                              *)
(***************************************************************************)
EXTENDS Naturals, Sequences, WaitQueues

CONSTANTS
    TasksA, TasksB,     \* the tasks that use each endpoint
    Cpus, CpuOf,        \* the CPUs, and the one each task runs on
    Noop,               \* stands for the waker that wakes nobody
    MaxBuffered,        \* MAX_BUFFERED_MESSAGES
    Ops,                \* bound: the calls each task makes
    Calls               \* bound: how many

Tasks == TasksA \cup TasksB

ASSUME ChannelAssumption ==
    /\ TasksA \cap TasksB = {} /\ CpuOf \in [Tasks -> Cpus] /\ Noop \notin Tasks
    /\ MaxBuffered \in Nat \ {0} /\ Calls \in [Tasks -> Nat]
    /\ Ops \in [Tasks -> SUBSET {"send", "send_fd", "recv", "recv_fd"}]

VARIABLES
    queue,      \* a_to_b and b_to_a: the messages each side has sent
    wq,         \* the four wait queues, by side and direction
    open,       \* a_endpoints, b_endpoints: 1 (TRUE) until the handle is dropped
    closing,    \* <<side, direction>> queues a drop has still to wake
    pc,         \* where each task is
    op,         \* the call it is in
    trapped,    \* tasks whose call process_task awaits
    ready,      \* tasks queued on their CPU
    calls,      \* calls each task has still to make
    out,        \* history: the last message that came out of each queue
    ended,      \* history: the queue has been reported ended to its receiver
    broken,     \* history: the queue has been reported broken to its sender
    lostFd      \* history: a receiver that asked for the fd of a message that
                \* was sent with one did not get it

vars == <<queue, wq, open, closing, pc, op, trapped, ready, calls, out, ended,
          broken, lostFd>>

Sides == {"a", "b"}
Peer(s) == IF s = "a" THEN "b" ELSE "a"
SideOf(t) == IF t \in TasksA THEN "a" ELSE "b"

\* A message, told by its sender, whether that attached an fd, and whether the fd
\* is still there.
Message == [from : Tasks, sentFd : BOOLEAN, attached : BOOLEAN]

Sending(t) == op[t] \in {"send", "send_fd"}

\* The queue of messages and the wait queue of the call t is in.
Dir(t) == IF Sending(t) THEN "send" ELSE "recv"
QueueOf(t) == IF Sending(t) THEN SideOf(t) ELSE Peer(SideOf(t))

Init ==
    /\ queue = [s \in Sides |-> << >>]
    /\ wq = [w \in Sides \X {"send", "recv"} |-> << >>]
    /\ open = [s \in Sides |-> TRUE]
    /\ closing = {}
    /\ pc = [t \in Tasks |-> "idle"]
    /\ op = [t \in Tasks |-> "recv"]
    /\ trapped = {} /\ ready = {}
    /\ calls = Calls
    /\ out = [s \in Sides |-> << >>]
    /\ ended = [s \in Sides |-> FALSE] /\ broken = [s \in Sides |-> FALSE]
    /\ lostFd = FALSE

\* The condition under which the poll_fn of write, or of read, is Ready.
MayProceed(t) ==
    \/ ~open[Peer(SideOf(t))]
    \/ IF Sending(t) THEN Len(queue[QueueOf(t)]) < MaxBuffered
                     ELSE queue[QueueOf(t)] # << >>

Full(t) == Len(queue[QueueOf(t)]) >= MaxBuffered
Polling(t) ==
    pc[t] \in {"once", "push_once", "register", "check", "transfer", "push", "wake"}
CpuFree(t) == \A u \in Tasks : Polling(u) => CpuOf[u] # CpuOf[t]
Goto(t, label) == pc' = [pc EXCEPT ![t] = label]

-----------------------------------------------------------------------------
(* Calls *)

\* The four system calls; the fd variants begin with a single attempt.  A message
\* longer than MAX_MESSAGE_SIZE is refused at once.
Call(t) ==
    /\ pc[t] = "idle" /\ open[SideOf(t)] /\ calls[t] > 0 /\ CpuFree(t)
    /\ calls' = [calls EXCEPT ![t] = @ - 1]
    /\ \E o \in Ops[t], tooLong \in BOOLEAN :
          /\ op' = [op EXCEPT ![t] = o]
          /\ Goto(t, IF tooLong /\ o \in {"send", "send_fd"} THEN "idle"
                     ELSE IF o \in {"send_fd", "recv_fd"} THEN "once" ELSE "register")
    /\ trapped' = trapped \ {t}
    /\ UNCHANGED <<queue, wq, open, closing, ready, out, ended, broken, lostFd>>

\* send_with_attachment and recv_with_attachment return None: TRAP_IO, which
\* knows nothing of the fd, takes over.
FallBack(t) ==
    /\ \/ pc[t] = "once" /\ ~Sending(t) /\ ~MayProceed(t)
       \/ pc[t] = "push_once" /\ Full(t)
    /\ trapped' = trapped \cup {t}
    /\ Goto(t, "register")
    /\ UNCHANGED <<queue, wq, open, closing, op, ready, calls, out, ended, broken, lostFd>>

\* (mutant) the waker is not registered
RegisterNot(t) ==
    /\ pc[t] = "register"
    /\ Goto(t, "check")
    /\ UNCHANGED <<queue, wq, open, closing, op, trapped, ready, calls, out, ended,
                   broken, lostFd>>

\* register_waker(cx.waker())
Register(t) ==
    /\ pc[t] = "register"
    /\ wq' = [wq EXCEPT ![<<SideOf(t), Dir(t)>>] =
                HQRegister(@, IF t \in trapped THEN t ELSE Noop)]
    /\ Goto(t, "check")
    /\ UNCHANGED <<queue, open, closing, op, trapped, ready, calls, out, ended, broken,
                   lostFd>>

\* The look, under the queue's lock.
Check(t) ==
    /\ pc[t] = "check"
    /\ Goto(t, IF MayProceed(t) THEN "transfer"
               ELSE IF t \in trapped THEN "asleep" ELSE "register")
    /\ trapped' = IF MayProceed(t) THEN trapped ELSE trapped \cup {t}
    /\ UNCHANGED <<queue, wq, open, closing, op, ready, calls, out, ended, broken, lostFd>>

\* The sender looks at the peer's count before it takes the queue's lock: the peer
\* may go away in between, and the message then stays in the queue.
PeerAlive(t) ==
    /\ pc[t] \in {"once", "transfer"} /\ Sending(t) /\ open[Peer(SideOf(t))]
    /\ Goto(t, IF pc[t] = "once" THEN "push_once" ELSE "push")
    /\ UNCHANGED <<queue, wq, open, closing, op, trapped, ready, calls, out, ended, broken,
                   lostFd>>

\* (mutant) the length is not looked at again under the lock
SendUnchecked(t) ==
    /\ pc[t] \in {"push_once", "push"} /\ Sending(t)
    /\ queue' = [queue EXCEPT ![QueueOf(t)] =
                   Append(@, [from |-> t, sentFd |-> op[t] = "send_fd",
                              attached |-> pc[t] = "push_once"])]
    /\ Goto(t, "wake")
    /\ UNCHANGED <<wq, open, closing, op, trapped, ready, calls, out, ended, broken, lostFd>>

\* push_back under the queue's lock.  Only the single attempt attaches the fd.
Send(t) ==
    /\ pc[t] \in {"push_once", "push"} /\ Sending(t) /\ ~Full(t)
    /\ queue' = [queue EXCEPT ![QueueOf(t)] =
                   Append(@, [from |-> t, sentFd |-> op[t] = "send_fd",
                              attached |-> pc[t] = "push_once"])]
    /\ Goto(t, "wake")
    /\ UNCHANGED <<wq, open, closing, op, trapped, ready, calls, out, ended, broken, lostFd>>

SendBroken(t) ==
    /\ pc[t] \in {"once", "transfer"} /\ Sending(t) /\ ~open[Peer(SideOf(t))]
    /\ broken' = [broken EXCEPT ![QueueOf(t)] = TRUE]
    /\ Goto(t, "idle")
    /\ UNCHANGED <<queue, wq, open, closing, op, trapped, ready, calls, out, ended, lostFd>>

\* pop_front under the queue's lock.  Only the single attempt hands out the fd.
Recv(t) ==
    /\ pc[t] \in {"once", "transfer"} /\ ~Sending(t) /\ queue[QueueOf(t)] # << >>
    /\ LET msg == Head(queue[QueueOf(t)]) IN
         /\ queue' = [queue EXCEPT ![QueueOf(t)] = Tail(@)]
         /\ out' = [out EXCEPT ![QueueOf(t)] = <<msg>>]
         /\ lostFd' = (lostFd \/ (op[t] = "recv_fd" /\ msg.sentFd
                                    /\ ~(msg.attached /\ pc[t] = "once")))
    /\ Goto(t, "wake")
    /\ UNCHANGED <<wq, open, closing, op, trapped, ready, calls, ended, broken>>

\* (mutant) a dead peer is reported before the queue is drained
RecvEofEarly(t) ==
    /\ pc[t] \in {"once", "transfer"} /\ ~Sending(t)
    /\ ~open[Peer(SideOf(t))]
    /\ ended' = [ended EXCEPT ![QueueOf(t)] = TRUE]
    /\ Goto(t, "idle")
    /\ UNCHANGED <<queue, wq, open, closing, op, trapped, ready, calls, out, broken, lostFd>>

RecvEof(t) ==
    /\ pc[t] \in {"once", "transfer"} /\ ~Sending(t)
    /\ queue[QueueOf(t)] = << >> /\ ~open[Peer(SideOf(t))]
    /\ ended' = [ended EXCEPT ![QueueOf(t)] = TRUE]
    /\ Goto(t, "idle")
    /\ UNCHANGED <<queue, wq, open, closing, op, trapped, ready, calls, out, broken, lostFd>>

\* Another task of this side was faster.
Retry(t) ==
    /\ \/ pc[t] = "transfer" /\ ~Sending(t) /\ ~MayProceed(t)
       \/ pc[t] = "push" /\ Full(t)
    /\ Goto(t, "register")
    /\ UNCHANGED <<queue, wq, open, closing, op, trapped, ready, calls, out, ended, broken,
                   lostFd>>

\* wake_one of the peer's queue for the other direction.
Wake(t) ==
    /\ pc[t] = "wake"
    /\ LET w == <<Peer(SideOf(t)), IF Sending(t) THEN "recv" ELSE "send">> IN
         /\ wq' = [wq EXCEPT ![w] = HQAfterWakeOne(@)]
         /\ ready' = IF wq[w] = << >> THEN ready ELSE ready \cup ({wq[w][1]} \ {Noop})
    /\ Goto(t, "idle")
    /\ UNCHANGED <<queue, open, closing, op, trapped, calls, out, ended, broken, lostFd>>

\* poll_readiness registers the task's waker for both directions.
PollReadiness(t) ==
    /\ pc[t] = "idle" /\ open[SideOf(t)] /\ calls[t] > 0 /\ CpuFree(t)
    /\ calls' = [calls EXCEPT ![t] = @ - 1]
    /\ wq' = [w \in DOMAIN wq |-> IF w[1] = SideOf(t) THEN HQRegister(wq[w], t) ELSE wq[w]]
    /\ UNCHANGED <<queue, open, closing, pc, op, trapped, ready, out, ended, broken, lostFd>>

-----------------------------------------------------------------------------

\* The last handle of a side is dropped: fetch_sub, then wake_all of the
\* peer's receivers, then of its senders.
DropEndpoint(s) ==
    /\ open[s] /\ \A t \in Tasks : SideOf(t) = s => pc[t] = "idle"
    /\ open' = [open EXCEPT ![s] = FALSE]
    /\ closing' = closing \cup {<<Peer(s), "recv">>, <<Peer(s), "send">>}
    /\ UNCHANGED <<queue, wq, pc, op, trapped, ready, calls, out, ended, broken, lostFd>>

WakeAll(w) ==
    /\ w \in closing
    /\ w[2] = "send" => <<w[1], "recv">> \notin closing
    /\ closing' = closing \ {w}
    /\ ready' = ready \cup (WakersIn(wq[w]) \ {Noop})
    /\ wq' = [wq EXCEPT ![w] = << >>]
    /\ UNCHANGED <<queue, open, pc, op, trapped, calls, out, ended, broken, lostFd>>

\* The executor polls a woken task.
Repoll(t) ==
    /\ t \in ready /\ ~Polling(t) /\ CpuFree(t)
    /\ ready' = ready \ {t}
    /\ Goto(t, IF pc[t] = "asleep" THEN "register" ELSE "idle")
    /\ UNCHANGED <<queue, wq, open, closing, op, trapped, calls, out, ended, broken, lostFd>>

Step(t) ==
    \/ FallBack(t) \/ Register(t) \/ Check(t) \/ PeerAlive(t) \/ Send(t) \/ SendBroken(t)
    \/ Recv(t) \/ RecvEof(t) \/ Retry(t) \/ Wake(t) \/ Repoll(t)

Next ==
    \/ \E t \in Tasks : Step(t) \/ Call(t) \/ PollReadiness(t)
    \/ \E s \in Sides : DropEndpoint(s)
    \/ \E w \in closing : WakeAll(w)

Spec == Init /\ [][Next]_vars

-----------------------------------------------------------------------------
(* Properties *)

\* Each direction is a bounded stream: messages are received once, in order,
\* never more than MAX_BUFFERED_MESSAGES wait, and a receiver is told that the
\* peer is gone only after its last message, whatever the interleaving.
AtoB == INSTANCE BoundedStream WITH
    Item <- Message, Capacity <- MaxBuffered,
    stream <- queue["a"], out <- out["a"], wopen <- open["a"], ropen <- open["b"],
    ended <- ended["a"], broken <- broken["a"]

BtoA == INSTANCE BoundedStream WITH
    Item <- Message, Capacity <- MaxBuffered,
    stream <- queue["b"], out <- out["b"], wopen <- open["b"], ropen <- open["a"],
    ended <- ended["b"], broken <- broken["b"]

StreamsBothWays == AtoB!Spec /\ BtoA!Spec

\* A task that sleeps on a channel whose peer is gone is due to be polled, or the
\* peer's drop has still to wake its queue: wake_all finds the waker of everyone
\* who looked before the endpoint count fell.
HangupReachesSleepers ==
    \A t \in Tasks : pc[t] = "asleep" /\ ~open[Peer(SideOf(t))] =>
        t \in ready \/ <<SideOf(t), Dir(t)>> \in closing

\* An fd passed with channel_send_fd reaches a receiver that asks for it with
\* channel_recv_fd.
FdDelivered == ~lostFd
=============================================================================
