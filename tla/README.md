# Verification of Hadron

TLA+ models of the Hadron kernel, of its C library, programs and build tools, TLC
configurations that check them on small instances, and TLAPS proofs of the central
safety properties for every instance. `PROJECT.json` lists components, runs, mutants,
the map from definitions to source lines, findings, hazards and theorems. Paths below
are relative to `src/`.

## 1. The system

Hadron is an x86-64 kernel in Rust. Everything above the interrupt handlers is an
async task; a process is a task (`process_task`) that enters userspace and awaits what
its system calls wait for. The parts with the hardest concurrency:

| Part | State | Operations | What is hard |
|---|---|---|---|
| Ready queues (`kernel/core/src/sched.rs`) | three tiers of task ids, a streak counter | push, pop, has_ready, steal_one | priorities against starvation; an id may be queued twice |
| Executors (`kernel/sched/src/`, `kernel/kernel/src/sched/smp.rs`) | per CPU: tasks, ready queues, halted or not; IPIs in flight | run, poll, spawn, wake, steal, halt | a wake-up between the last look at the queue and `hlt`; a steal between a poll and a wake-up |
| Synchronisation (`kernel/core/src/sync/`) | lock words, wait queues of wakers | mutex, semaphore, rwlock, seqlock, condvar, LazyLock, spin locks, lockdep | the retry after the registration races a release; interrupts in the middle of a spin lock |
| Pipes, channels (`kernel/ipc/src/`, `syscall/channel.rs`) | ring or message queues, wait queues, end counts | read, write, send, recv, poll, drop | two polls of one call, the first with a no-op waker; hang-up |
| Sockets, terminals (`kernel/kernel/src/net/unix.rs`, `kernel/kernel/src/tty/`) | path registry, pairs, line discipline, one waker slot | connect, accept, close; keyboard interrupt, read, VT switch | close against accept; keys drained by another CPU's system call |
| Processes and signals (`kernel/kernel/src/proc/`) | process table, tree, statuses, signal state | spawn, clone, exit, wait, kill, exec | a child exits while its parent registers; several signals pending |
| User context switch (`proc/mod.rs`, arch stubs) | per-CPU save areas, locals of process_task | entry stubs, every TrapReason, signal frames | areas are overwritten, and threads migrate, during every await |
| Memory (`kernel/mm/src/`, `syscall/memory.rs`) | frame bitmap, free ranges, heap, page tables, mappings | allocate, free, map, unmap, brk | the heap grows outside its lock; three locks per unmapping |
| Futexes and pthreads (`ipc/futex.rs`, `userspace/hadron-libc/core/src/pthread.rs`) | futex table, words in user memory | FUTEX_WAIT/WAKE; lock, unlock, cond_wait, signal, broadcast, once | every atomic access interleaves; sleepers against barging threads |

The others are mostly sequential, with a device, an interrupt or a second thread on the
other side: files and descriptors, drivers and the network task, console and input,
start-up, program loading, the parsers, the rest of the C library, the shell, terminal
and compositor, and the build tool. Section 2 says which module models which.

**Interactions.** The executor is what every blocking primitive stands on: they hand
out a waker, return Pending, and rely on a later poll. Two of its facts are therefore
inputs of the models above it: a task polled through its current waker will be polled
again (`WakeReaches`, `WokenIsPolled`), and a waker made on a CPU that no longer owns
the task does nothing. The modules above the executor replace it by the set `ready`
of tasks that will be polled; `Pipe` also models stealing, with wakers that carry
the CPU of the poll that made them. System calls that may block first poll their
future once with a no-op waker (`try_poll_immediate`, `kernel/fs/src/lib.rs`) and
only then trap to `process_task`, which awaits it with a real one.

## 2. Modules

| Module | Models |
|---|---|
| `WaitQueues` | register_waker and wake_one of WaitQueue and HeapWaitQueue |
| `Mutex` | the async mutex |
| `Locks` | semaphore, reader-writer lock, condition variable, LazyLock; one CPU's ready queue over time (starvation) |
| `SpinLocks` | sequence lock; SpinLock and IrqSpinLock with interrupts |
| `Lockdep` | the lock-order tracker |
| `ReadyQueues`, `Executor` | the ready queues; the executors of all CPUs |
| `BoundedStream` | abstract specification: a bounded stream with two ends |
| `Pipe` | the ring of bytes and the pipe above it; implements `BoundedStream` |
| `Channel` | message channels; each direction implements `BoundedStream` |
| `UnixSockets` | naming and connecting; the streams of a connected pair |
| `Terminals` | line discipline, virtual terminals, pseudo-terminals |
| `Process` | process table, wait, signals |
| `ContextSwitch` | registers, FPU and FS base across traps and awaits |
| `FreeRegions`, `RegionAlloc` | the functions of the free-range allocator; the allocator under any sequence of calls |
| `KernelHeap` | the heap while it grows |
| `KernelMemory` | frames and zones, windows of the Vmm, page tables, memory system calls and shared objects |
| `KernelStart` | ACPI tables and interrupt routing, PCI and drivers, SMP bring-up, sleep timers and poll, RTC, the boot stub, kernel_init |
| `Devices` | virtqueue and block driver, AHCI, e1000e, display drivers, the network task |
| `Console` | escape sequences, framebuffer console, mouse, i8042, input events |
| `FileSystem` | descriptor tables; path walks, mounts and the file systems in memory |
| `ProgramStart` | image loading; the stack and environment a program is handed |
| `Pthread` | the futex table; mutex, condition variable and once above it |
| `Parsers` | AML and resources, DWARF lines, symbols and back traces, device trees |
| `LibcText`, `LibcRuntime` | the C library: what computes, and what keeps state or calls the kernel |
| `Programs` | shell, terminal, compositor and its clients |
| `GluonBuild`, `GluonConfig` | the build tool and its test runner; its configuration and scripts |
| `MCSync`, `MCExecutor`, `MCPipe`, `MCIpc`, `MCProcess`, `MCKernel`, `MCPthread`, `MCUserland` | instances for TLC |
| `LockProofs`, `SpinProofs`, `ExecutorProofs`, `PipeProofs`, `ChannelProofs`, `ProcessProofs`, `KernelProofs`, `PthreadProofs` | theorems |

**Composite instances.** Components that do not interact share a run: the variable
`part` is chosen in the initial state and says which component a behaviour exercises.
The state space is the sum of theirs, not the product, and a property of the run says
of each part what it has to keep (a CASE over `part`). In `MCIpc`, `MCKernel` and
`MCUserland` the components are INSTANCEd over shared variables `v1`, `v2`, ..., since a
behaviour uses one of them.

* `MCSync`: mutex, semaphore, rwlock, seqlock, condvar, lazy, irq, lockdep, starvation.
* `MCIpc`: channel, socket, stream, tty, pty.
* `MCKernel`: context, regions, acpi, sleep, rtc, smp, gpu, fbcon, ansi, virtqueue, ahci,
  e1000e, pciscan, bars, probe, kinit, loader, image, launch, fdtable, vfs, mouse, i8042,
  input, heap, frames, vmm, paging, usermem, net.
* `MCUserland`: aml, resources, dwarf, backtrace, fdt, wayland, shell, terminal, build,
  menu, kconfig, vendor, model, modelcache, script, libcstr, libcconv, qsort, libcenv,
  stdio, printf, malloc, libcsys, libcsem, threads, tests.

**Granularity.** A step is one region of a lock, or one atomic access outside locks.
Memory is sequentially consistent: the acquire/release orderings are not weakened.
In `Mutex`, `Pipe` and `Channel` tasks of one CPU interleave only where a poll
returns (`CpuFree`), tasks of different CPUs everywhere. In `ContextSwitch` the code
from an entry to the next await is one step, because only that CPU's own thread
touches its areas in between. In `Pthread` threads are preempted anywhere. Sequential
code is one step per call, or per iteration where something may come in between.

**Data.** Messages are told apart by sender and by their descriptor, register files
are tokens `<<thread, version>>`, futures are the wakers they store and call. Pages have
a few cells and addresses are small integers; where a width matters (sequence numbers,
relocations, C integers) arithmetic wraps at a small power of two. Where a program reads
a format, the model encodes a value the way the format says, runs the code's reader on
the encoding and compares. Variables marked "history" record what a property speaks of
and guide no action.

**Correspondence.** Every action is named after the function it models, and `map`
gives its lines. Definitions marked `(mutant)` are used by no specification: each is a
plausible bug, and TLC reports the property paired with it in `PROJECT.json` when the
mutant replaces the definition below it.

## 3. Runs that pass

| Run | Instance | What it shows |
|---|---|---|
| `sync` | 3 tasks on 3 CPUs, wait queues of 2, one spins, one drops its future; 2 CPUs with interrupts for spin locks and lockdep; starvation with limit 6 and queues of 4 | `MutualExclusion`; `NoForgottenWaiter`: a sleeping lock attempt always has a waker queued or in flight, also when the queue overflows; `Excludes` and `SleepersReached` for the other locks; `ReadsAreSnapshots` of the seqlock; `InterruptsSafe`; `InversionsReported` by lockdep; `BypassBounded`: a Background task is bypassed at most Limit times, without Critical arrivals |
| `executor` | 2 CPUs, one task per tier of which one is a process, 2 external wake-ups; the loops start with interrupts enabled | `OneOwner`, `NoTaskLost`, `NoSleepOnWork`, `WakeReaches`, `CriticalPinned`, and under fairness `WokenIsPolled` |
| `pipe` | 2 readers on one CPU, 1 writer on another, ring of 2, stealing | `IsByteStream` (refinement of `BoundedStream`), `HangupServed` |
| `ipc` | channel: 3 tasks on 3 CPUs, queues of 2, all four calls, the look at the peer apart from the push; 2 sockets under one path; a pair with 3 tasks and a buffer of 3; 2 VTs with 5 typing scripts; 2 writers of a master and a slave for one PTY index, a stage of 2 bytes | `StreamsBothWays` (refinement), `DataIntact`, `NobodyStuck`, `PeersFindable` |
| `process` | 3 processes; three workloads (families, kills, groups) | `TreeConsistent`, `ReapedByParent`, `NoLostExit`, `KillIsFinal`, `WaitServed` |
| `kernel` | 30 parts, see section 2; context: 2 threads, 2 CPUs, every trap; regions: pages of 2 bytes, requests of 0 to 5 bytes, below the word | `RegistersKept`, `FpuKept`, `RangesDisjoint`; `OwnedOnce`: no block, frame, window or descriptor has two owners, and a command slot has two only after it was freed twice; `AnswersRight`: what a call answers is what a reference definition over the history says; `EventsServed`: sleepers are woken, processors come up, path walks end |
| `pthread` | 3 threads of one process and 2 of another that uses the same addresses; nine workloads: locks, signals, broadcasts and once, with sleepers that are polled for another reason, with a table that is full, with both processes | `MutexWord`, `NoLostUnlock`, `WakeCounts`, `NoMissedBroadcast`, `OnceOnly`, `Served` |
| `userland` | 26 parts, each over a small set of inputs, files, lines or crates | `ToolsRight`: each part against its own reference definition or invariant |

**Bounds.** Calls, wake-ups and register versions are counted down in the guards, and
each bound is a CONSTANT or a definition marked `bound:`. They suffice for the cases the
hazards name: three contenders make a waiter, a barging thread and an owner; a queue of 2
overflows, and a ring of 2 wraps, with them; two CPUs steal from each other; three pids
make grandparent, parent and child; two futex calls per thread give a waiter, a notifier
and a re-lock; a region of a few pages fills its array of free ranges. The mutants confirm
that the violations are within the bounds.

**Deadlock** is not checked where calls are bounded (the last state has nothing to
do), and where the code may really stop: a lost wake-up of the pipe, a waiter nobody
signals, all processes exited. That holds for every passing run, since each contains such
a part; `context_tls` checks it.

**Fairness.** `executor`: each CPU keeps executing its loop; of device interrupts only the
timer is assumed, and only where a wake-up came too early for `hlt` (`late`). `pipe`: strong
fairness of each task's own steps, because another task's poll on the same CPU disables them
again and again, and the FIFO ready queue serves every queued id in between; a drop runs to its
end. `process`: weak fairness of the kernel's own steps, none of userspace. `pthread`: threads
are scheduled (the executor's round robin), owners unlock, init routines end. `kernel`: the
timer ticks, its handler goes on and the sleeping tasks are polled (part sleep, which does not
assume that a call is made); the boot processor and each started processor go on (part smp). No
run assumes that anybody starts a call, closes an end or sends a signal. `sync`, `ipc` and
`userland` check safety only.

**What `FpuKept` leaves out.** sigreturn and a failing execve do not keep the FPU: they
load whatever the per-CPU area holds. On these two paths the history `userFpu` takes
that over, so the property is about preemption, the six blocking traps and migration.

**What `NoSleepOnWork` leaves out.** In a pass of the loop with interrupts enabled (the
first one, and the ones after a process has left user code through a blocking system call)
the IPI of a wake-up may be taken between `has_ready` and `hlt`. The history `late` marks such
a CPU, `NoSleepOnWork` excepts it, and `WokenIsPolled` shows that the next tick ends the sleep.

**What `NoLostUnlock`, `WakeCounts` and `Served` leave out.** A sleeper whose future is
polled for another reason than its wake-up registers again, or goes on with an entry left in
the table, and that entry, like one of another process, takes a later wake-up of one. Address
and word are then in the history `mixed`; `refused` has the addresses where the table was
full. Elsewhere no wake-up is lost, and a wake of everyone (`NoMissedBroadcast`) loses none
however mixed the address is.

**What `SleepersReached` and `NobodyStuck` leave out.** Each names the cases in which the code
does lose a wake-up: a mutex or semaphore future that is served with its waker still queued
(the histories `stale` and `semStale`), a notification between `wait_async`'s drop of the guard
and the first poll (run `condvar_lost`), and keys that another CPU's system call has drained
from the scancode buffer and not yet processed. Outside of these nobody is left asleep.

**What the other properties leave out**, by a history or a predicate that holds where the
code has done what section 4 describes:

* `PeersFindable`: a path that two sockets have bound (`unClash`), a socket with two connects
  under way (`unOverlap`). A registry that is locked for good (`unJammed`) serves nobody.
* `DataIntact`: lines of a pseudo-terminal whose writer was overtaken or filled the stage
  (`ptCut`).
* `OwnedOnce`: AHCI slots freed twice and commands of a port that outlive their error
  (`ahTwice`, `ahStale`), frames behind a segment that does not start on a page boundary
  (`Overrun`).
* `AnswersRight`: those frames again; the screen from a late write or overlapping switches
  until the next full redraw (`fcLate`, `fcCrossed`); a poll of no descriptors (`sqEmpty`).
* `RangesDisjoint` is for requests that do not wrap when they are rounded up to a page or
  added to the watermark, which `RegionAlloc` assumes (`NoOverflow`).
* `ToolsRight`, shell: standard input and output are the terminal the shell was started on
  or the console, and pipe ends may stay open after `pipe` has failed (`shLeaked`).

## 4. Runs that show a disagreement

| Run | Property | What happens |
|---|---|---|
| `condvar_lost` | `NoLostNotification` | wait_async says it registers before it releases the mutex, but its future registers at the first poll; a notification in between is lost |
| `pipe_lost` | `NoLostWakeup` | the no-op waker of the first poll stays in the queue; the next write's wake_one is spent on it and the reader sleeps on data |
| `channel_fd` | `FdDelivered` | the blocking fall-back of send_fd and recv_fd knows nothing of descriptors and drops them |
| `context_tls` | `TlsKept` | IA32_FS_BASE is written once, at a clone's first entry, and not switched |

`findings` quotes the doc or comment each contradicts. Smaller disagreements met while
modelling; no property claims the opposite of any of them:

* Wake-ups: the waker a dropped or served mutex future leaves in the queue takes a later
  wake-up; Critical pops reset the streak, so they take the bound of the bypass away; wakers
  of a task stolen since do nothing; a signal wakes no blocked process.
* Executor: `kernel/sched/src/executor.rs` says "Interrupts remain disabled (IF=0) throughout".
  They are enabled in the first pass, and after a blocking system call, which
  `arch/x86_64/syscall.rs:212` enters with `sti` and leaves by a jump.
* Futexes: the table is keyed by virtual address, so that a wake-up of one process may be
  spent on a waiter of another; it has 1024 entries, and a failed registration is ignored; a
  sleeper polled again has two entries (`ipc/futex.rs:85`), and the second takes a wake-up.
* Channels: the peer may close between the look at its count and the push
  (`kernel/ipc/src/channel.rs:163`), so a send succeeds that nobody can receive.
* Sockets: closing one of two sockets bound to a path unbinds the other's; `registry_unbind`
  (`net/unix.rs:71`) drops the entry it removes with the registry locked, and if that was the
  last reference to another named socket its drop waits for the same lock; of two connects of
  one socket at once the first pair loses its client.
* recvmsg: the IO_CMSG_* slots of the CPU are read after the await (`proc/mod.rs:1514`), when
  another thread may have replaced them; `UnixSockets` gives each call its own.
* Pseudo-terminals: a canonical write stages at most 512 bytes of complete lines and drops
  the rest, and two writers may queue their staged lines in the other order (`tty/pty.rs:218`).
* Memory: a request near the top of the word wraps when it is rounded up to a page
  (`kernel/mm/src/region.rs:160`, `syscall/memory.rs:48`); the frames of a shared object are
  freed with its last descriptor, mapped or not (`kernel/kernel/src/ipc/shm.rs:87` says
  otherwise); the PAT bit of a write-combining page is taken for part of its frame when it is
  translated back; the loader's identity map of the first 2 MiB is writable and executable.
* exec: the copy of a segment that does not start on a page boundary runs past the page,
  against the comment at `kernel/kernel/src/proc/exec.rs:193`.
* Drivers: the completion that ends a wait of the virtio block driver may be another request's
  (`kernel/drivers/src/virtio/block.rs:139`); an AHCI command that fails frees its slot in
  `port.rs:357` and its caller frees it again (`mod.rs:92`), when another task may have it, and
  the command stays in the port while its buffer is freed; only the first registered file
  system driver is asked about a disk, where the comment in `boot.rs` says each is until one
  succeeds.
* Console: `scroll_up` and `flush_dirty` read the active flag and draw by it after a switch on
  another CPU has cleared it (`drivers/fbcon/mod.rs:439`, `482`), and two switches at once may
  leave two consoles active; an erase beyond the cells panics.
* poll with no descriptors returns at once, whatever its time-out (`syscall/event.rs:33`).
* Programs: after a pipeline the shell's standard input and output are `/dev/console`, not what
  it was started on (`userspace/shell/src/main.rs:465`), and the pipes made before a `pipe`
  that fails stay open; an overlapping copy in the shell's normalize_path; pthread_join works
  only for the creating thread, the memory of a thread is never unmapped, and the tid in its
  control block stays 0.

## 5. What is proved

All proofs are for any sets of tasks, threads, CPUs and processes and any values of the
other constants that satisfy the ASSUMEs of the component's module, which TLC evaluates in
the component's run. A theorem that needs more says so in its own ASSUME.

**`LockProofs`.** *Mutex*: `TypeCorrect`, `Exclusion`, `LockWord`, `NobodyForgotten` from `IInv
== TypeOK /\ MutualExclusion /\ LockWordMatchesGuard /\ WakerKept`. `NoForgottenWaiter` speaks
of sleeping tasks and is not inductive: the waker of a task about to sleep can be consumed
between its registration and its retry, so `WakerKept` makes the claim from the registration
on. `UnlockReaches` is the stronger statement that when the lock is free and nobody is inside a
poll, every sleeper is ready to run, unless a waker was left behind by a task that no longer
waits (the history `stale`); `WakersWait` (every other waker is that of a task on its way to
the lock) and `LockPursued` (while the lock is free and somebody sleeps, somebody is about to
wake a sleeper or to try it) carry it. *Others*: `LocksExclude` and `WaitersReached`, one
invariant per lock. Those of the semaphore (`SemSafe`) and the condition variable (`CvSafe`)
count: permits that are free or on their way to a waiter against the waiters that are entitled
to one, notifications against the waiters they can have reached. *Ready queue*: `NoStarvation`,
when no Critical task arrives: the streak counter is an upper bound of the bypass count.

**`SpinProofs`.** `SeqExcludes`: writers of a sequence lock exclude each other, also when the
number wraps. `SnapshotsRead`: a read returns the words of one write, not older than the last
one complete when it began, if the number does not wrap (`2 * SqWrites < 2^SeqBits`, as a
theorem's assumption, since a wrap really breaks it); the invariant relates the number to the
count of writes and each reader's copies to the words of the write its number belongs to.
`InterruptsMeetLocks`: no CPU spins on a lock its own interrupted code holds; the invariant
says which guards each context has, that the outermost one saved the flag its lock found,
and that interrupts are masked exactly while such a guard lives.

**`ExecutorProofs`**: `TypeCorrect`, `OwnedOnce`, `NeverLost`, `NeverSleepsOnWork`,
`WakeNeverLost`, `CriticalStaysPut`. To the properties the invariant adds `InHand` (a CPU past
a pop or a steal holds an id), `BornOnly` (ids are queued only after spawn), `Calls` (half-done
spawns and wake-ups belong to a poll or handler), `SleepSafe` (`NoSleepOnWork` from the moment
has_ready returned false, not only from `hlt`, and for a CPU with interrupts disabled without
its exception), `WakeSafe` (a task that is owed a poll, or
whose owner is not its last CPU, has its id queued or in hand at its owner).
`CriticalStaysPut` has an invariant of its own, `Pinned`: an id is queued in its own tier.
Lemmas describe what push, pop and steal do to the set of queued ids.

**`PipeProofs`**: `PipeIsByteStream`, the refinement of `BoundedStream` by the pipe. Lemmas say
what the two copies of the ring's read and write do to the contents, across the wrap-around;
`PipeInv` adds that a task in a call keeps its end open, so end-of-file is not early.

**`ChannelProofs`**: `ChannelIsStreams`, the refinement in both directions, and `HangupsReach`: a
sleeper without a peer is due to be polled or its queue to be woken. `ChannelInv` adds that a
sleeper, or a task between registration and second look, has its waker in its queue.

**`ProcessProofs`**: `TreeStaysConsistent`, `ReapedOnce`, `NoExitLost`, `KillAlwaysFinal`. The
invariant follows handle_wait: what it has passed in the registering pass holds its waker
unless it exited before, what it has passed in the second look had not exited then (`Watch`),
and the children it looks at can be reaped by nobody else (`OwnChildren`).

**`KernelProofs`**: `RegistersSurvive`, `FpuSurvives` from `ContextSafe`, which says where the
registers of a thread are at each of its places. `RangesStayDisjoint`, `NoByteForgotten`,
`AlwaysCoalesced`, `ArrayNeverOverflows` of the free-range allocator from `RaInv`, for any
region, array length and sequence of calls whose sums stay below the word (`NoOverflow`, an
assumption on the requests), by one lemma per function.

**`PthreadProofs`**: `PthreadsSound` (the invariant), `MutexExcludes`, `InitRunsOnce`,
`NoBroadcastMissed`, `NoUnlockLost` and `WakesEnough`, for any threads, spaces, calls and size of
the table. The last three are the run's properties with their exceptions `mixed` and `refused`,
which are needed: see the futexes in section 4. The invariant says what every futex call was
asked (`InCall`), that every sleeper has an entry under its own address unless a registration
failed there, that an address not in `mixed` has no other entries than its sleepers', and where
the sequence number of a waiter stands.

## 6. Only model-checked

* Liveness (`WokenIsPolled`, `HangupServed`, `WaitServed`, `Served`, `EventsServed`), which the
  prover cannot handle.
* `InversionsReported`: lockdep's search for cycles is recursive, and its lemma an induction
  over paths.
* `DataIntact`, `NobodyStuck` (but for channels, `HangupsReach`) and `PeersFindable`.
* `OwnedOnce`, `AnswersRight` (but for the part regions, whose three conjuncts are theorems) and
  `ToolsRight`: most parts compare recursive readers with reference definitions over bounded
  inputs.

## 7. Not modelled

The definitions stand for about 35,000 source lines, some 30% of the repository's Rust. Not
modelled, besides the components with status `not_modelled` (disk image formats, logging and
profiling, bindings of the boot protocols): weak memory; allocation failure outside the memory
modules; interrupts that nest; sessions and working directories of processes; thread-specific
data of pthreads; the poll of a futex sleeper's old wakers in other queues (it is one more
poll, which `Stray` models whatever its reason); glyphs, fonts and drawing;
NVMe and virtio-net; floating-point formatting beyond its digits and the mathematics functions;
formatting and IDE output of the build tool. The notes in `PROJECT.json` give the details.

## 8. Plan

1. Proofs for `UnixSockets` (each direction is again a `BoundedStream`), the frame bitmap and the
   heap.
2. Disk images: FAT directories and cluster chains against a reference reading.
3. Sessions and working directories in `Process`; thread-specific data in `Pthread`.
