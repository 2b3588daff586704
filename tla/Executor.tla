------------------------------ MODULE Executor ------------------------------
(***************************************************************************)
(* The per-CPU async executors (kernel/sched/src/executor.rs), their wakers  *)
(* (kernel/sched/src/waker.rs), the wake-up IPI and work stealing            *)
(* (kernel/kernel/src/sched/smp.rs).                                         *)
(*                                                                          *)
(* Each CPU runs Executor::run.  Every lock region of the loop is one step,  *)
(* and the steps of different CPUs interleave freely.  What a future does    *)
(* in a poll is abstracted to what the executor can see of it: it spawns     *)
(* tasks, hands out its waker, calls wakers, and returns Ready or Pending.   *)
(*                                                                          *)
(* A CPU enters run() with interrupts enabled, and a poll whose process      *)
(* leaves user code through a blocking system call enables them again        *)
(* (syscall.rs:212 has the only sti on that path and no cli follows it);     *)
(* the return from hlt, a timer preemption and block_on disable them.        *)
(* "masked" keeps track of this: while they are enabled, IPIs and device     *)
(* handlers are taken between any two steps of the loop.                     *)
(***************************************************************************)
EXTENDS ReadyQueues

CONSTANTS
    Tasks,          \* task ids; NEXT_TASK_ID never reuses one
    Cpus,
    PriorityOf,     \* the priority each task is spawned with
    Boot,           \* the CPU whose boot code spawns the first task
    First,          \* that task
    NoTask,         \* stands for "no id in hand"
    Processes,      \* the tasks that run user code (process_task)
    Limit,          \* BACKGROUND_STARVATION_LIMIT
    MaxQueued,      \* bound: ids in one tier of one CPU
    MaxFires        \* bound: wakers called in a behaviour

ASSUME ExecutorAssumption ==
    /\ PriorityOf \in [Tasks -> Tiers]
    /\ Processes \subseteq Tasks
    /\ Boot \in Cpus /\ First \in Tasks /\ NoTask \notin Tasks
    /\ Limit \in Nat /\ MaxQueued \in Nat /\ MaxFires \in Nat

VARIABLES
    tasks,          \* Executor.tasks of each CPU: ids whose future is stored
    rq,             \* Executor.ready_queues of each CPU
    pc,             \* where each CPU is in Executor::run
    cur,            \* the id each CPU has popped, polls or carries
    spawned,        \* the id a poll has inserted and must still push
    wakers,         \* <<id, cpu>> wakers handed out
    sending,        \* CPUs a wake_by_ref has queued work on, IPI not yet sent
    irqSends,       \* the same for a wake_by_ref called by an interrupt handler
    ipi,            \* the wake-up interrupt is pending
    masked,         \* CPUs whose loop runs with interrupts disabled (IF = 0)
    handling,       \* CPUs in an interrupt handler, on top of the loop
    unborn,         \* ids not spawned yet
    finished,       \* ids whose future returned Ready
    lastCpu,        \* history: the CPU that last polled (or spawned) the task
    owed,           \* history: woken since its last poll, on the CPU of lastCpu
    late,           \* history: took, between has_ready and hlt, the interrupt that
                    \* announced work
    fires           \* wakers called so far

interrupts == <<masked, handling, irqSends, late>>

vars == <<tasks, rq, pc, cur, spawned, wakers, sending, ipi, unborn, finished,
          lastCpu, owed, fires, interrupts>>

PCs == {"pop", "take", "poll", "check", "steal", "insert", "push", "halted"}

\* CPUs that hold a task's entry outside every task map.
Holding(c) == pc[c] \in {"poll", "insert"}

\* The boot CPU has spawned the first task; every CPU enters run(), right after
\* it has enabled interrupts (boot.rs:721, arch/x86_64/smp.rs:302).
Init ==
    /\ tasks = [c \in Cpus |-> IF c = Boot THEN {First} ELSE {}]
    /\ rq = [c \in Cpus |-> IF c = Boot THEN Push(NewQueues, PriorityOf[First], First)
                                        ELSE NewQueues]
    /\ pc = [c \in Cpus |-> "pop"]
    /\ cur = [c \in Cpus |-> NoTask]
    /\ spawned = [c \in Cpus |-> {}]
    /\ wakers = {}
    /\ sending = [c \in Cpus |-> {}]
    /\ ipi = {}
    /\ unborn = Tasks \ {First}
    /\ finished = {}
    /\ lastCpu = [t \in Tasks |-> Boot]
    /\ owed = {}
    /\ fires = 0
    /\ masked = {}
    /\ handling = {}
    /\ irqSends = [c \in Cpus |-> {}]
    /\ late = {}

PutDown(c) == cur' = [cur EXCEPT ![c] = NoTask]

Goto(c, label) == pc' = [pc EXCEPT ![c] = label]

\* c is in hlt, and no handler runs on it.
Asleep(c) == pc[c] = "halted" /\ c \notin handling

\* No call of c is between the two halves of wake_by_ref or spawn_with_meta.
CallDone(c) == sending[c] = {} /\ spawned[c] = {}

-----------------------------------------------------------------------------
(* poll_ready_tasks *)

\* ready_queues.lock().pop()
Pop(c) ==
    /\ pc[c] = "pop"
    /\ rq' = [rq EXCEPT ![c] = AfterPop(@, Limit)]
    /\ IF HasReady(rq[c])
         THEN Goto(c, "take") /\ cur' = [cur EXCEPT ![c] = PopId(rq[c], Limit)]
         ELSE Goto(c, "check") /\ UNCHANGED cur
    /\ UNCHANGED <<tasks, spawned, wakers, sending, ipi, unborn, finished,
                   lastCpu, owed, fires, interrupts>>

\* tasks.lock().remove(&id): the poll starts.  Its cx.waker() packs the current
\* CPU, and the future may leave a clone of it anywhere; a future that does not
\* is one whose waker nobody calls.
Take(c) ==
    /\ pc[c] = "take" /\ cur[c] \in tasks[c]
    /\ tasks' = [tasks EXCEPT ![c] = @ \ {cur[c]}]
    /\ Goto(c, "poll")
    /\ lastCpu' = [lastCpu EXCEPT ![cur[c]] = c]
    /\ owed' = owed \ {cur[c]}
    /\ wakers' = wakers \cup {<<cur[c], c>>}
    /\ UNCHANGED <<rq, cur, spawned, sending, ipi, unborn, finished, fires, interrupts>>

\* The id was queued twice, stolen or finished: nothing to poll.  With
\* interrupts enabled a tick may have set preempt_pending.
TakeNothing(c) ==
    /\ pc[c] = "take" /\ cur[c] \notin tasks[c]
    /\ \E next \in {"pop", "check"} : (c \in masked => next = "pop") /\ Goto(c, next)
    /\ PutDown(c)
    /\ UNCHANGED <<tasks, rq, spawned, wakers, sending, ipi, unborn, finished,
                   lastCpu, owed, fires, interrupts>>

\* (mutant) the entry of a pending future is dropped
PollPendingDropped(c) ==
    /\ pc[c] = "poll" /\ CallDone(c)
    /\ \E next \in {"pop", "check"} : Goto(c, next)
    /\ PutDown(c)
    /\ UNCHANGED <<tasks, rq, spawned, wakers, sending, ipi, unborn, finished,
                   lastCpu, owed, fires, interrupts>>

\* Poll::Pending: the entry goes back.  preempt_pending, set by a timer tick
\* during this poll, sends the loop back to run().
PollPending(c) ==
    /\ pc[c] = "poll" /\ CallDone(c)
    /\ tasks' = [tasks EXCEPT ![c] = @ \cup {cur[c]}]
    /\ \E next \in {"pop", "check"} : Goto(c, next)
    /\ PutDown(c)
    /\ UNCHANGED <<rq, spawned, wakers, sending, ipi, unborn, finished,
                   lastCpu, owed, fires, interrupts>>

\* Poll::Ready: the entry is dropped.
PollReady(c) ==
    /\ pc[c] = "poll" /\ CallDone(c)
    /\ finished' = finished \cup {cur[c]}
    /\ owed' = owed \ {cur[c]}
    /\ \E next \in {"pop", "check"} : Goto(c, next)
    /\ PutDown(c)
    /\ UNCHANGED <<tasks, rq, spawned, wakers, sending, ipi, unborn, lastCpu, fires,
                   interrupts>>

-----------------------------------------------------------------------------
(* What a poll or an interrupt handler does *)

\* spawn_with_meta on the current executor: tasks.lock().insert
Spawn(c) ==
    /\ pc[c] = "poll" /\ CallDone(c)
    /\ \E t \in unborn :
          /\ unborn' = unborn \ {t}
          /\ tasks' = [tasks EXCEPT ![c] = @ \cup {t}]
          /\ spawned' = [spawned EXCEPT ![c] = {t}]
          /\ lastCpu' = [lastCpu EXCEPT ![t] = c]
    /\ UNCHANGED <<rq, pc, cur, wakers, sending, ipi, finished, owed, fires,
                   interrupts>>

\* spawn_with_meta: ready_queues.lock().push
SpawnPush(c) ==
    /\ \E t \in spawned[c] :
          /\ rq' = [rq EXCEPT ![c] = Push(@, PriorityOf[t], t)]
          /\ owed' = owed \cup {t}
    /\ spawned' = [spawned EXCEPT ![c] = {}]
    /\ UNCHANGED <<tasks, pc, cur, wakers, sending, ipi, unborn, finished, lastCpu, fires,
                   interrupts>>

\* wake_by_ref: push to the queue of the CPU packed in the waker.  The holder
\* may call the waker again.
Wake(w) ==
    LET t == w[1] d == w[2] IN
    /\ fires < MaxFires
    /\ Len(rq[d].ids[PriorityOf[t]]) < MaxQueued
    /\ rq' = [rq EXCEPT ![d] = Push(@, PriorityOf[t], t)]
    /\ owed' = IF t \notin finished /\ lastCpu[t] = d THEN owed \cup {t} ELSE owed
    /\ fires' = fires + 1
    /\ UNCHANGED wakers

\* A future calls a waker.
Fire(c) ==
    /\ pc[c] = "poll" /\ CallDone(c)
    /\ \E w \in wakers :
          /\ Wake(w)
          /\ sending' = [sending EXCEPT ![c] = {w[2]} \ {c}]
    /\ UNCHANGED <<tasks, pc, cur, spawned, ipi, unborn, finished, lastCpu, interrupts>>

\* wake_by_ref: WAKE_IPI_FN(target_cpu)
SendIpi(c) ==
    /\ sending[c] # {}
    /\ ipi' = ipi \cup sending[c]
    /\ sending' = [sending EXCEPT ![c] = {}]
    /\ UNCHANGED <<tasks, rq, pc, cur, spawned, wakers, unborn, finished, lastCpu, owed,
                   fires, interrupts>>

\* The poll of a process runs user code, a system call or block_on, and comes
\* back with interrupts enabled (a blocking system call) or disabled (a
\* preemption, a fault, block_on).
UserCode(c) ==
    /\ pc[c] = "poll" /\ CallDone(c) /\ cur[c] \in Processes
    /\ masked' \in {masked \cup {c}, masked \ {c}}
    /\ UNCHANGED <<tasks, rq, pc, cur, spawned, wakers, sending, ipi, unborn, finished,
                   lastCpu, owed, fires, handling, irqSends, late>>

-----------------------------------------------------------------------------
(* run(): re-check, steal, halt *)

\* (mutant) after a preempted batch the loop goes on to steal and halt
CheckNot(c) ==
    /\ pc[c] = "check"
    /\ Goto(c, "steal")
    /\ UNCHANGED <<tasks, rq, cur, spawned, wakers, sending, ipi, unborn, finished,
                   lastCpu, owed, fires, interrupts>>

\* ready_queues.lock().has_ready()
Check(c) ==
    /\ pc[c] = "check"
    /\ Goto(c, IF HasReady(rq[c]) THEN "pop" ELSE "steal")
    /\ late' = late \ {c}
    /\ UNCHANGED <<tasks, rq, cur, spawned, wakers, sending, ipi, unborn, finished,
                   lastCpu, owed, fires, masked, handling, irqSends>>

\* (mutant) steal_task takes the id and leaves the entry in the victim's map
StealKeepsEntry(c) ==
    /\ pc[c] = "steal"
    /\ \E v \in Cpus \ {c} :
          /\ CanSteal(rq[v])
          /\ StealId(rq[v]) \in tasks[v]
          /\ rq' = [rq EXCEPT ![v] = AfterSteal(@)]
          /\ cur' = [cur EXCEPT ![c] = StealId(rq[v])]
    /\ Goto(c, "insert")
    /\ UNCHANGED <<tasks, spawned, wakers, sending, ipi, unborn, finished,
                   lastCpu, owed, fires, interrupts>>

\* try_steal: steal_task of some other CPU holds both of its locks, takes the
\* id from the back of a queue and the entry from the map.  When the entry is
\* not there the id is pushed back where it was.
Steal(c) ==
    /\ pc[c] = "steal"
    /\ \E v \in Cpus \ {c} :
          /\ CanSteal(rq[v])
          /\ StealId(rq[v]) \in tasks[v]
          /\ rq' = [rq EXCEPT ![v] = AfterSteal(@)]
          /\ tasks' = [tasks EXCEPT ![v] = @ \ {StealId(rq[v])}]
          /\ cur' = [cur EXCEPT ![c] = StealId(rq[v])]
    /\ Goto(c, "insert")
    /\ UNCHANGED <<spawned, wakers, sending, ipi, unborn, finished, lastCpu, owed, fires, interrupts>>

\* Every try_lock failed, nothing was stealable, or the start offset skipped
\* the only CPU with work: sti; hlt.
Halt(c) ==
    /\ pc[c] = "steal"
    /\ Goto(c, "halted")
    /\ UNCHANGED <<tasks, rq, cur, spawned, wakers, sending, ipi, unborn, finished,
                   lastCpu, owed, fires, interrupts>>

\* tasks.lock().insert of the stolen entry
InsertStolen(c) ==
    /\ pc[c] = "insert"
    /\ tasks' = [tasks EXCEPT ![c] = @ \cup {cur[c]}]
    /\ Goto(c, "push")
    /\ UNCHANGED <<rq, cur, spawned, wakers, sending, ipi, unborn, finished,
                   lastCpu, owed, fires, interrupts>>

\* (mutant) the stolen id is not queued on the thief
PushStolenNot(c) ==
    /\ pc[c] = "push"
    /\ Goto(c, "pop")
    /\ PutDown(c)
    /\ UNCHANGED <<tasks, rq, spawned, wakers, sending, ipi, unborn, finished,
                   lastCpu, owed, fires, interrupts>>

\* ready_queues.lock().push of the stolen id
PushStolen(c) ==
    /\ pc[c] = "push"
    /\ rq' = [rq EXCEPT ![c] = Push(@, PriorityOf[cur[c]], cur[c])]
    /\ Goto(c, "pop")
    /\ PutDown(c)
    /\ UNCHANGED <<tasks, spawned, wakers, sending, ipi, unborn, finished,
                   lastCpu, owed, fires, interrupts>>

\* (mutant) the loop goes back to sleep without a look at its queue
WakeFromHaltDeaf(c) ==
    /\ pc[c] = "halted" /\ c \in ipi
    /\ Goto(c, "steal")
    /\ UNCHANGED <<tasks, rq, cur, spawned, wakers, sending, ipi, unborn, finished,
                   lastCpu, owed, fires, interrupts>>

\* hlt ends: the interrupt has been handled and interrupts are disabled.
Awake(c) ==
    /\ Goto(c, "pop")
    /\ masked' = masked \cup {c}
    /\ late' = late \ {c}

\* The wake-up IPI ends hlt; its handler is empty.
WakeFromHalt(c) ==
    /\ Asleep(c) /\ c \in ipi
    /\ ipi' = ipi \ {c}
    /\ Awake(c)
    /\ UNCHANGED <<tasks, rq, cur, spawned, wakers, sending, unborn, finished,
                   lastCpu, owed, fires, handling, irqSends>>

\* The periodic timer ends hlt, and wakes no task.
Tick(c) ==
    /\ Asleep(c)
    /\ Awake(c)
    /\ UNCHANGED <<tasks, rq, cur, spawned, wakers, sending, ipi, unborn, finished,
                   lastCpu, owed, fires, handling, irqSends>>

-----------------------------------------------------------------------------
(* Interrupts *)

\* The IPI is taken, without effect, by a loop that runs with interrupts enabled.
IpiTaken(c) ==
    /\ c \in ipi /\ pc[c] # "halted" /\ c \notin masked \cup handling
    /\ ipi' = ipi \ {c}
    /\ late' = IF pc[c] = "steal" THEN late \cup {c} ELSE late
    /\ UNCHANGED <<tasks, rq, pc, cur, spawned, wakers, sending, unborn, finished,
                   lastCpu, owed, fires, masked, handling, irqSends>>

\* A timer or device interrupt whose handler calls a waker; it comes during hlt,
\* or anywhere in a loop that runs with interrupts enabled.
IrqFire(c) ==
    /\ pc[c] = "halted" \/ c \notin masked
    /\ irqSends[c] = {}
    /\ handling' = handling \cup {c}
    /\ \E w \in wakers :
          /\ Wake(w)
          /\ irqSends' = [irqSends EXCEPT ![c] = {w[2]} \ {c}]
          /\ late' = IF pc[c] = "steal" /\ w[2] = c THEN late \cup {c} ELSE late
    /\ UNCHANGED <<tasks, pc, cur, spawned, sending, ipi, unborn, finished, lastCpu, masked>>

\* wake_by_ref of the handler: WAKE_IPI_FN(target_cpu)
IrqSendIpi(c) ==
    /\ irqSends[c] # {}
    /\ ipi' = ipi \cup irqSends[c]
    /\ irqSends' = [irqSends EXCEPT ![c] = {}]
    /\ UNCHANGED <<tasks, rq, pc, cur, spawned, wakers, sending, unborn, finished,
                   lastCpu, owed, fires, masked, handling, late>>

\* The handler returns to the loop where it was, or to the instruction after hlt.
InterruptReturn(c) ==
    /\ c \in handling /\ irqSends[c] = {}
    /\ handling' = handling \ {c}
    /\ IF pc[c] = "halted" THEN Awake(c) ELSE UNCHANGED <<pc, masked, late>>
    /\ UNCHANGED <<tasks, rq, cur, spawned, wakers, sending, ipi, unborn, finished,
                   lastCpu, owed, fires, irqSends>>

-----------------------------------------------------------------------------

\* The steps of the loop itself, which the CPU takes as long as it runs, and
\* those of a handler, which runs to its end before the loop goes on.
Loop(c) ==
    \/ /\ c \notin handling
       /\ \/ Pop(c) \/ Take(c) \/ TakeNothing(c) \/ PollPending(c) \/ PollReady(c)
          \/ SpawnPush(c) \/ SendIpi(c)
          \/ Check(c) \/ Steal(c) \/ Halt(c) \/ InsertStolen(c) \/ PushStolen(c)
          \/ WakeFromHalt(c)
    \/ IrqSendIpi(c) \/ InterruptReturn(c)

\* What the futures and the devices decide to do.
Environment(c) ==
    \/ c \notin handling /\ (Spawn(c) \/ Fire(c) \/ UserCode(c))
    \/ Tick(c) \/ IpiTaken(c) \/ IrqFire(c)

Next == \E c \in Cpus : Loop(c) \/ Environment(c)

Spec == Init /\ [][Next]_vars

\* Each CPU keeps executing its loop, and no poll or handler runs for ever.
\* The periodic timer is relied on for one thing only: to end the sleep of a
\* CPU that took the announcement of its work just before hlt.  Every other
\* halted CPU is woken by the IPI alone.
FairSpec ==
    /\ Spec
    /\ \A c \in Cpus : WF_vars(Loop(c) \/ (c \in late /\ Tick(c)))

-----------------------------------------------------------------------------
(* Properties *)

\* The types, and the starvation counter never passes its limit.
TypeOK ==
    /\ tasks \in [Cpus -> SUBSET Tasks]
    /\ rq \in [Cpus -> ReadyQueuesOf(Tasks)]
    /\ \A c \in Cpus : rq[c].streak <= Limit
    /\ pc \in [Cpus -> PCs]
    /\ cur \in [Cpus -> Tasks \cup {NoTask}]
    /\ spawned \in [Cpus -> SUBSET Tasks]
    /\ wakers \in SUBSET (Tasks \X Cpus)
    /\ sending \in [Cpus -> SUBSET Cpus]
    /\ irqSends \in [Cpus -> SUBSET Cpus]
    /\ ipi \in SUBSET Cpus
    /\ masked \in SUBSET Cpus
    /\ handling \in SUBSET Cpus
    /\ late \in SUBSET Cpus
    /\ unborn \in SUBSET Tasks
    /\ finished \in SUBSET Tasks
    /\ lastCpu \in [Tasks -> Cpus]
    /\ owed \in SUBSET Tasks
    /\ fires \in Nat

\* The task is stored by, or in the hands of, CPU c.
At(t, c) == t \in tasks[c] \/ (Holding(c) /\ cur[c] = t)

\* Stealing, duplicate wake-ups and polls never make two CPUs own one future:
\* a task is stored or held by one CPU only, and never both stored and held.
OneOwner ==
    \A t \in Tasks, c, d \in Cpus :
        /\ At(t, c) /\ At(t, d) => c = d
        /\ t \in tasks[c] => ~(Holding(d) /\ cur[d] = t)

\* A spawned task is owned by some CPU until its future returns Ready: no
\* steal, put-back or poll drops a future.
NoTaskLost ==
    \A t \in Tasks : t \in unborn \/ t \in finished \/ \E c \in Cpus : At(t, c)

\* A CPU does not sleep on work: if a halted CPU has a queued id, the interrupt
\* that will wake it is pending or the waker that queued the id is about to
\* send it.  One window is left, and named: a CPU that passes from has_ready to
\* sti;hlt with interrupts enabled may take that interrupt on the way, and then
\* sleeps on the work until its next timer tick.  With interrupts disabled, as
\* the comment of poll_ready_tasks assumes throughout, there is none.
NoSleepOnWork ==
    \A c \in Cpus : Asleep(c) /\ HasReady(rq[c]) =>
        \/ c \in ipi
        \/ \E d \in Cpus : c \in sending[d] \cup irqSends[d]
        \/ c \in late /\ c \notin masked

\* A wake-up through a waker of the task's last poll is never lost: until the
\* next poll its id is queued, popped or carried on the CPU that owns it, even
\* if the task is stolen between the wake-up and the poll.
WakeReaches ==
    \A t \in owed : \E c \in Cpus :
        /\ At(t, c)
        /\ \/ Has(rq[c], t)
           \/ pc[c] \in {"take", "insert", "push"} /\ cur[c] = t

\* A Critical task is never stolen, so its wakers always name its own CPU.
CriticalPinned ==
    \A w \in wakers :
        PriorityOf[w[1]] = "critical" /\ w[1] \notin finished => At(w[1], w[2])

\* Every task that is woken on the CPU of its last poll is polled again, with
\* nothing but the IPI to wake halted CPUs (and the tick, where the IPI was
\* taken just before hlt).
WokenIsPolled == \A t \in Tasks : t \in owed ~> t \notin owed
=============================================================================
