------------------------------- MODULE Process -------------------------------
(***************************************************************************)
(* Processes: the process table, task_spawn and task_clone, exit, task_wait  *)
(* and signals (kernel/kernel/src/proc/mod.rs, proc/signal.rs and            *)
(* syscall/process.rs).                                                      *)
(*                                                                          *)
(* A process is one async task, process_task_inner: it enters userspace,     *)
(* comes back with a trap reason, handles it, looks at the pending signals   *)
(* and enters userspace again.  Processes run on different CPUs, so every    *)
(* lock region of a handler is a step; the executor is the set ready of      *)
(* tasks that will be polled again.  All blocking traps but TRAP_WAIT are    *)
(* alike here: Block, and Complete when the awaited future is ready.         *)
(* Nobody but its parent unregisters a process, so handle_wait's lookups of  *)
(* its children always succeed.                                              *)
(***************************************************************************)
EXTENDS Integers, Sequences, FiniteSets, Functions

CONSTANTS
    MaxPid,     \* bound: processes ever created, numbered from 1 by NEXT_PID
    Signals,    \* signal numbers in use
    Codes,      \* statuses passed to task_exit
    Handlings,  \* (handler, SA_RESETHAND) pairs passed to task_sigaction
    Masks,      \* masks passed to task_sigprocmask
    Workloads   \* bound: [ops, left] records: the traps explored together, and
                \* how many each process takes

Pids == 1 .. MaxPid

SIGINT == 2
SIGKILL == 9
SIGCHLD == 17
SIGSTOP == 19
SIGPIPE == 13

\* usize::MAX as u64
FaultStatus == -1

ASSUME ProcessAssumption ==
    /\ MaxPid \in Nat \ {0}
    /\ Signals \subseteq 1 .. 63
    /\ Codes \subseteq Nat
    /\ Handlings \subseteq [to : {"default", "ignore", "handler"}, reset : BOOLEAN]
    /\ Masks \subseteq SUBSET Signals
    /\ \A w \in Workloads : w.left \in [Pids -> Nat]

VARIABLES
    next,       \* NEXT_PID
    table,      \* PROCESS_TABLE
    parent,     \* Process.parent_pid; 0 for init
    children,   \* Process.children
    pgid,       \* Process.pgid
    status,     \* Process.exit_status: << >> or <<code>>
    notify,     \* Process.exit_notify: the tasks whose wakers it holds
    pending, blocked, handlers,     \* Process.signals
    pc,         \* where each process's task is
    look,       \* handle_wait: phase, children, those still to look at, WNOHANG
    ready,      \* tasks the executor will poll
    calls,      \* the workload: the traps in use, how many each process may still take
    collected   \* history: <<parent, child, code>> of every reaped child

vars == <<next, table, parent, children, pgid, status, notify, pending, blocked,
          handlers, pc, look, ready, calls, collected>>
signalVars == <<pending, blocked, handlers>>
treeVars == <<next, table, parent, children, pgid>>

Unblockable == {SIGKILL, SIGSTOP}
Default == [to |-> "default", reset |-> FALSE]
NoLook == [phase |-> "none", of |-> << >>, rest |-> << >>, nohang |-> FALSE]
Exited(p) == status[p] # << >>
Goto(p, label) == pc' = [pc EXCEPT ![p] = label]

Init ==
    /\ next = 2 /\ table = {1}
    /\ parent = [p \in Pids |-> 0]
    /\ children = [p \in Pids |-> << >>]
    /\ pgid = [p \in Pids |-> p]
    /\ status = [p \in Pids |-> << >>]
    /\ notify = [p \in Pids |-> {}]
    /\ pending = [p \in Pids |-> {}]
    /\ blocked = [p \in Pids |-> {}]
    /\ handlers = [p \in Pids |-> [s \in Signals |-> Default]]
    /\ pc = [p \in Pids |-> IF p = 1 THEN "start" ELSE "unborn"]
    /\ look = [p \in Pids |-> NoLook]
    /\ ready = {1}
    /\ calls \in Workloads
    /\ collected = {}

\* The first poll of process_task enters userspace without a look at the signals.
Start(p) ==
    /\ pc[p] = "start" /\ p \in ready
    /\ ready' = ready \ {p}
    /\ Goto(p, "user")
    /\ UNCHANGED <<treeVars, status, notify, signalVars, look, calls, collected>>

Trap(p, op) ==
    /\ op \in calls.ops /\ pc[p] = "user" /\ calls.left[p] > 0
    /\ calls' = [calls EXCEPT !.left[p] = @ - 1]

-----------------------------------------------------------------------------
(* The process table *)

\* ProcessTable::register of a new process whose parent is p.
Register(p, g) ==
    /\ next \in Pids
    /\ next' = next + 1
    /\ parent' = [parent EXCEPT ![next] = p]
    /\ pgid' = [pgid EXCEPT ![next] = g]
    /\ children' = IF p \in table THEN [children EXCEPT ![p] = Append(@, next)] ELSE children
    /\ table' = table \cup {next}
    /\ ready' = ready \cup {next}
    /\ pc' = [pc EXCEPT ![next] = "start"]

\* task_spawn: a group of its own.
Spawn(p) ==
    /\ Trap(p, "Spawn") /\ Register(p, next)
    /\ UNCHANGED <<status, notify, signalVars, look, collected>>

\* task_clone: the group of its parent; fresh signal state whatever the flags.
Clone(p) ==
    /\ Trap(p, "Clone") /\ Register(p, pgid[p])
    /\ UNCHANGED <<status, notify, signalVars, look, collected>>

SetPgid(p) ==
    /\ Trap(p, "SetPgid")
    /\ \E t \in table, g \in table :
          /\ t = p \/ parent[t] = p
          /\ pgid' = [pgid EXCEPT ![t] = g]
    /\ UNCHANGED <<next, table, parent, children, status, notify, signalVars, pc, look,
                   ready, collected>>

\* Vec::retain(|&d| d != c): s without the entries that are c, in the same order.
Retain(s, c) ==
    LET kept[n \in 0 .. Len(s)] ==
            IF n = 0 THEN << >>
            ELSE IF s[n] = c THEN kept[n - 1] ELSE Append(kept[n - 1], s[n])
    IN  kept[Len(s)]

\* (mutant) the parent keeps the reaped child in its list
UnregisterKeepChild(c) ==
    /\ table' = table \ {c}
    /\ UNCHANGED <<next, parent, pgid, children>>

\* ProcessTable::unregister
Unregister(c) ==
    /\ table' = table \ {c}
    /\ children' = IF c \in table /\ parent[c] \in table
                   THEN [children EXCEPT ![parent[c]] = Retain(@, c)]
                   ELSE children
    /\ UNCHANGED <<next, parent, pgid>>

-----------------------------------------------------------------------------
(* Exit *)

SetStatus(p, code) ==
    /\ status' = [status EXCEPT ![p] = <<code>>]
    /\ Goto(p, "dying")

\* TRAP_EXIT, and TRAP_FAULT.
Exit(p) ==
    /\ pc[p] = "user"
    /\ \E code \in Codes \cup {FaultStatus} : SetStatus(p, code)
    /\ UNCHANGED <<treeVars, notify, signalVars, look, ready, calls, collected>>

\* exit_notify.wake_all(); the task returns.
NotifyExit(p) ==
    /\ pc[p] = "dying"
    /\ ready' = ready \cup notify[p]
    /\ notify' = [notify EXCEPT ![p] = {}]
    /\ Goto(p, "dead")
    /\ UNCHANGED <<treeVars, status, signalVars, look, calls, collected>>

-----------------------------------------------------------------------------
(* Signals *)

Post(t, s) == pending' = [pending EXCEPT ![t] = @ \cup {s}]

Kill(p) ==
    /\ Trap(p, "Kill")
    /\ \E t \in table, s \in Signals : Post(t, s)
    /\ UNCHANGED <<treeVars, status, notify, blocked, handlers, pc, look, ready, collected>>

\* signal_process_group, which the terminal calls on Ctrl+C.
SignalGroup(g) ==
    /\ "Terminal" \in calls.ops
    /\ pending' = [t \in Pids |-> IF t \in table /\ pgid[t] = g
                                 THEN pending[t] \cup ({SIGINT} \cap Signals) ELSE pending[t]]
    /\ UNCHANGED <<treeVars, status, notify, blocked, handlers, pc, look, ready, calls, collected>>

SigProcMask(p) ==
    /\ Trap(p, "SigProcMask")
    /\ \E m \in Masks : blocked' = [blocked EXCEPT ![p] = m \ Unblockable]
    /\ UNCHANGED <<treeVars, status, notify, pending, handlers, pc, look, ready, collected>>

SigAction(p) ==
    /\ Trap(p, "SigAction")
    /\ \E s \in Signals \ Unblockable, h \in Handlings :
          handlers' = [handlers EXCEPT ![p][s] = h]
    /\ UNCHANGED <<treeVars, status, notify, pending, blocked, pc, look, ready, collected>>

\* SignalState::dequeue: SIGKILL first, then the lowest number.
Deliverable(p) == { s \in pending[p] : s \notin blocked[p] \/ s \in Unblockable }

\* (mutant) lowest number first, whatever it is
DequeueLowest(D) == CHOOSE s \in D : \A r \in D : s <= r

Dequeue(D) ==
    IF SIGKILL \in D THEN SIGKILL ELSE CHOOSE s \in D : \A r \in D : s <= r

\* SignalState::disposition
Disposition(p, s) ==
    IF s \in Unblockable THEN Default ELSE handlers[p][s]

Terminates(p, s) == Disposition(p, s).to = "default" /\ s # SIGCHLD
Ignores(p, s) == Disposition(p, s).to = "ignore" \/ (Disposition(p, s).to = "default" /\ s = SIGCHLD)

\* check_signals finds nothing: back to userspace.
CheckDone(p) ==
    /\ pc[p] = "check" /\ Deliverable(p) = {}
    /\ Goto(p, "user")
    /\ UNCHANGED <<treeVars, status, notify, signalVars, look, ready, calls, collected>>

\* One round of the loop in check_signals.  Delivery to a handler fails when the
\* user stack is too small.
CheckSignal(p) ==
    /\ pc[p] = "check" /\ Deliverable(p) # {}
    /\ LET s == Dequeue(Deliverable(p)) IN
          /\ pending' = [pending EXCEPT ![p] = @ \ {s}]
          /\ handlers' = IF Disposition(p, s).reset /\ Disposition(p, s).to # "default"
                         THEN [handlers EXCEPT ![p][s] = Default] ELSE handlers
          /\ \/ Terminates(p, s) /\ SetStatus(p, 128 + s)
             \/ Ignores(p, s) /\ UNCHANGED <<status, pc>>
             \/ Disposition(p, s).to = "handler" /\ Goto(p, "user") /\ UNCHANGED status
             \/ Disposition(p, s).to = "handler" /\ SetStatus(p, 128 + s)
    /\ UNCHANGED <<treeVars, notify, blocked, look, ready, calls, collected>>

-----------------------------------------------------------------------------
(* Traps that yield or block *)

\* TRAP_PREEMPTED, and sigreturn, which comes back as a preemption.  The timer
\* preempts userspace for ever.
Preempt(p) ==
    /\ "Preempt" \in calls.ops /\ pc[p] = "user"
    /\ ready' = ready \cup {p}
    /\ Goto(p, "yielded")
    /\ UNCHANGED <<treeVars, status, notify, signalVars, look, calls, collected>>

Resume(p) ==
    /\ pc[p] = "yielded" /\ p \in ready
    /\ ready' = ready \ {p}
    /\ Goto(p, "check")
    /\ UNCHANGED <<treeVars, status, notify, signalVars, look, calls, collected>>

\* TRAP_IO, TRAP_ACCEPT, TRAP_SLEEP, TRAP_FUTEX and TRAP_POLL: the await.
Block(p) ==
    /\ Trap(p, "Block")
    /\ Goto(p, "blocked")
    /\ UNCHANGED <<treeVars, status, notify, signalVars, look, ready, collected>>

\* The awaited future is ready.  A write to a broken pipe posts SIGPIPE.
Complete(p) ==
    /\ pc[p] = "blocked"
    /\ Goto(p, "check")
    /\ \E S \in SUBSET ({SIGPIPE} \cap Signals) :
          pending' = [pending EXCEPT ![p] = @ \cup S]
    /\ ready' = ready \ {p}
    /\ UNCHANGED <<treeVars, status, notify, blocked, handlers, look, calls, collected>>

\* TRAP_EXEC does not await: success resets the handlers, failure changes
\* nothing, and neither looks at the signals.
Exec(p) ==
    /\ Trap(p, "Exec")
    /\ \/ handlers' = [handlers EXCEPT ![p] = [s \in Signals |-> Default]]
       \/ UNCHANGED handlers
    /\ UNCHANGED <<treeVars, status, notify, pending, blocked, pc, look, ready, collected>>

-----------------------------------------------------------------------------
(* task_wait *)

\* (mutant) any registered process will do
IsRegistered(p, c) == c \in table

\* "Verify it's actually our child."
IsOwnChild(p, c) == c \in table /\ parent[c] = p

\* sys_task_wait and the start of handle_wait.  Waiting for one child is waiting
\* for any of a list of one.  No such child is ECHILD.
Wait(p) ==
    /\ Trap(p, "Wait")
    /\ \E kids \in {children[p]} \cup { <<t>> : t \in Pids }, nohang \in BOOLEAN :
          LET own == Len(kids) > 0 /\ \A i \in 1 .. Len(kids) : IsOwnChild(p, kids[i]) IN
          /\ look' = [look EXCEPT ![p] = IF own THEN [phase |-> "once", of |-> kids,
                                                     rest |-> kids, nohang |-> nohang]
                                                ELSE NoLook]
          /\ Goto(p, IF own THEN "looking" ELSE "check")
    /\ UNCHANGED <<treeVars, status, notify, signalVars, ready, collected>>

\* (mutant) poll_fn returns Pending without the second look
AfterPassNoRecheck(phase) ==
    IF phase = "once" THEN "scan" ELSE IF phase = "scan" THEN "register" ELSE "asleep"

\* (mutant) after a registration the loop registers again instead of looking
AfterPassRegisters(phase) == IF phase = "once" THEN "scan" ELSE "register"

\* What handle_wait does when a pass over the children found no zombie.
AfterPass(phase) ==
    IF phase = "once" THEN "scan"
    ELSE IF phase = "scan" THEN "register"
    ELSE IF phase = "register" THEN "recheck" ELSE "asleep"

\* One child of a pass: exit_status, or register_waker on its exit_notify.
LookAtChild(p) ==
    /\ pc[p] = "looking" /\ look[p].rest # << >>
    /\ LET c == Head(look[p].rest) IN
          IF look[p].phase = "register"
          THEN /\ notify' = [notify EXCEPT ![c] = @ \cup {p}]
               /\ look' = [look EXCEPT ![p].rest = Tail(@)]
               /\ UNCHANGED pc
          ELSE /\ look' = [look EXCEPT ![p].rest = IF Exited(c) THEN <<c>> ELSE Tail(@)]
               /\ Goto(p, IF Exited(c) THEN "reap" ELSE "looking")
               /\ UNCHANGED notify
    /\ UNCHANGED <<treeVars, status, signalVars, ready, calls, collected>>

\* The end of a pass.  WNOHANG returns 0 after the first.
EndOfPass(p) ==
    /\ pc[p] = "looking" /\ look[p].rest = << >>
    /\ IF look[p].phase = "once" /\ look[p].nohang
       THEN Goto(p, "check") /\ look' = [look EXCEPT ![p] = NoLook]
       ELSE /\ Goto(p, IF AfterPass(look[p].phase) = "asleep" THEN "asleep" ELSE "looking")
            /\ look' = [look EXCEPT ![p].phase = AfterPass(@), ![p].rest = look[p].of]
    /\ UNCHANGED <<treeVars, status, notify, signalVars, ready, calls, collected>>

\* The executor polls the waiting task again.
Repoll(p) ==
    /\ pc[p] = "asleep" /\ p \in ready
    /\ ready' = ready \ {p}
    /\ look' = [look EXCEPT ![p].phase = "scan"]
    /\ Goto(p, "looking")
    /\ UNCHANGED <<treeVars, status, notify, signalVars, calls, collected>>

\* ProcessTable::unregister, and the status for the user.
Reap(p) ==
    /\ pc[p] = "reap"
    /\ LET c == Head(look[p].rest) IN
          /\ Unregister(c)
          /\ collected' = collected \cup {<<p, c, Head(status[c])>>}
    /\ look' = [look EXCEPT ![p] = NoLook]
    /\ Goto(p, "check")
    /\ UNCHANGED <<status, notify, signalVars, ready, calls>>

-----------------------------------------------------------------------------

Kernel(p) ==
    \/ Start(p) \/ Resume(p) \/ NotifyExit(p) \/ CheckDone(p) \/ CheckSignal(p)
    \/ LookAtChild(p) \/ EndOfPass(p) \/ Repoll(p) \/ Reap(p)

User(p) ==
    \/ Spawn(p) \/ Clone(p) \/ SetPgid(p) \/ Exit(p) \/ Kill(p) \/ SigProcMask(p)
    \/ SigAction(p) \/ Preempt(p) \/ Block(p) \/ Complete(p) \/ Exec(p) \/ Wait(p)

Next == (\E p \in Pids : Kernel(p) \/ User(p)) \/ (\E g \in Pids : SignalGroup(g))

\* The executor polls what is ready, and a poll runs to its end.
Spec ==
    /\ Init /\ [][Next]_vars
    /\ \A p \in Pids : WF_vars(Kernel(p))

-----------------------------------------------------------------------------
(* Properties *)

\* The children lists and the parent_pid fields describe the same tree: a list
\* names exactly the registered processes whose parent owns it.  register and
\* unregister each change both, and a parent may be gone before its child.
TreeConsistent ==
    \A p \in table : /\ Range(children[p]) = { c \in table : parent[c] = p }
                     /\ IsInjective(children[p])

\* Every process that ever existed is in the table, or was reaped exactly once,
\* by its own parent, which got the status it exited with (the comment on
\* PROCESS_TABLE: inserted on spawn, removed after exit and reaping).
ReapedByParent ==
    /\ \A x \in collected : x[1] = parent[x[2]] /\ status[x[2]] = <<x[3]>> /\ x[2] \notin table
    /\ \A p \in 1 .. next - 1 : p \in table \/ \E x \in collected : x[2] = p

\* handle_wait registers before it looks again "to avoid a lost wakeup race": a
\* parent that sleeps in task_wait while a child it waits for has exited and
\* notified is due to be polled.
NoLostExit ==
    \A p \in Pids : pc[p] = "asleep" =>
        \A c \in Range(look[p].of) : pc[c] = "dead" => p \in ready

\* SIGKILL has the highest priority and cannot be caught, ignored or blocked: a
\* process that looks at its signals with SIGKILL pending never returns to
\* userspace, whatever else is pending, and exits with status 128 + 9.
KillIsFinal ==
    [][\A p \in Pids : pc[p] = "check" /\ SIGKILL \in pending[p] =>
          \/ pc'[p] = "check" /\ SIGKILL \in pending'[p]
          \/ pc'[p] = "dying" /\ status'[p] = <<128 + SIGKILL>>]_vars

Waiting(p) == pc[p] \in {"looking", "asleep", "reap"}

\* A task_wait with an exited child among those it waits for returns.
WaitServed ==
    \A p \in Pids : (Waiting(p) /\ \E c \in Range(look[p].of) : Exited(c)) ~> ~Waiting(p)

=============================================================================
