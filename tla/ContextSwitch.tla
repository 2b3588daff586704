---------------------------- MODULE ContextSwitch ----------------------------
(***************************************************************************)
(* How process_task_inner (kernel/kernel/src/proc/mod.rs) keeps the user     *)
(* registers of a thread across the awaits of its event loop.                *)
(*                                                                          *)
(* The entry stubs save user state in per-CPU areas: the timer stub in       *)
(* USER_CONTEXT and USER_FPU_CONTEXT, the system call stub the registers in  *)
(* SYSCALL_SAVED_REGS (and percpu.user_rsp) and nothing of the FPU.  While a *)
(* thread awaits, other threads of that CPU overwrite the areas, and the     *)
(* thread itself may be stolen by another CPU, so each handler copies them   *)
(* to locals before its await and back after it.                             *)
(*                                                                          *)
(* A register file is the token <<thread, version>>; userspace advances its  *)
(* version.  The kernel's own uses of the FPU restore it (KernelFpuGuard).   *)
(* The code between an entry from userspace and the next await or return to  *)
(* userspace is one step: interrupts of ring 0 touch none of this state.     *)
(***************************************************************************)
EXTENDS Naturals, Sequences

CONSTANTS
    Threads,    \* threads (processes and clones)
    Clones,     \* those made by task_clone with CLONE_SETTLS
    Cpus, Home, \* the CPUs, and the one each thread is first polled on
    Nobody,     \* owner of the areas' initial contents
    Ops,        \* bound: the traps a run explores
    MaxVersion  \* bound: changes userspace makes to its registers

ASSUME ContextAssumption ==
    /\ Clones \subseteq Threads /\ Home \in [Threads -> Cpus] /\ Nobody \notin Threads
    /\ MaxVersion \in Nat

VARIABLES
    regs, fpu, fs,  \* hardware of each CPU: registers, FPU, IA32_FS_BASE
    context,        \* USER_CONTEXT
    fpuArea,        \* USER_FPU_CONTEXT
    savedRegs,      \* SYSCALL_SAVED_REGS and percpu.user_rsp
    pc, cpu,        \* each thread: where it is, the CPU that owns its task
    local,          \* locals of process_task: saved registers and saved_fpu
    frames,         \* SignalFrames on the user stack
    version,        \* last version of the thread's registers
    userRegs,       \* history: the registers the thread should find, and the
    userFpu         \*   FPU.  sigreturn and a failed execve load whatever the
                    \*   FPU area holds, and the history takes that over

vars == <<regs, fpu, fs, context, fpuArea, savedRegs, pc, cpu, local, frames,
          version, userRegs, userFpu>>
areas == <<context, fpuArea, savedRegs>>
history == <<userRegs, userFpu>>

Blank == <<Nobody, 0>>
Fresh(t) == <<t, version[t]>>

\* Poll returns only when the thread awaits: one thread per CPU at a time.
OnCpu(t) == \A u \in Threads : pc[u] = "user" => cpu[u] # cpu[t]

Goto(t, label) == pc' = [pc EXCEPT ![t] = label]

Init ==
    /\ regs = [c \in Cpus |-> Blank] /\ fpu = regs /\ fs = [c \in Cpus |-> Nobody]
    /\ context = regs /\ fpuArea = regs /\ savedRegs = regs
    /\ pc = [t \in Threads |-> "new"] /\ cpu = Home
    /\ local = [t \in Threads |-> <<Blank, Blank>>]
    /\ frames = [t \in Threads |-> << >>]
    /\ version = [t \in Threads |-> 0]
    /\ userRegs = [t \in Threads |-> <<t, 0>>] /\ userFpu = userRegs

\* enter_userspace_resume_wrapper: the registers come from USER_CONTEXT, the FPU
\* from USER_FPU_CONTEXT.  Nothing writes IA32_FS_BASE.
ResumeUser(t, r, f) ==
    /\ context' = [context EXCEPT ![cpu[t]] = r]
    /\ fpuArea' = [fpuArea EXCEPT ![cpu[t]] = f]
    /\ regs' = [regs EXCEPT ![cpu[t]] = r]
    /\ fpu' = [fpu EXCEPT ![cpu[t]] = f]
    /\ Goto(t, "user")

\* enter_userspace_first: the entry point and stack as arguments, and fninit, which
\* resets the x87 part and leaves the SSE registers, the ones modelled, as they are.
FirstEntry(t) ==
    /\ pc[t] = "new" /\ t \notin Clones /\ OnCpu(t)
    /\ regs' = [regs EXCEPT ![cpu[t]] = Fresh(t)]
    /\ userFpu' = [userFpu EXCEPT ![t] = fpu[cpu[t]]]
    /\ Goto(t, "user")
    /\ UNCHANGED <<fpu, fs, areas, cpu, local, frames, version, userRegs>>

\* process_task_clone: USER_CONTEXT from the creator's registers, a clean FPU
\* area, IA32_FS_BASE from the tls argument.
CloneEntry(t) ==
    /\ pc[t] = "new" /\ t \in Clones /\ OnCpu(t)
    /\ ResumeUser(t, Fresh(t), Fresh(t))
    /\ fs' = [fs EXCEPT ![cpu[t]] = t]
    /\ UNCHANGED <<savedRegs, cpu, local, frames, version, history>>

\* Userspace computes.
Compute(t) ==
    /\ pc[t] = "user" /\ version[t] < MaxVersion
    /\ version' = [version EXCEPT ![t] = @ + 1]
    /\ regs' = [regs EXCEPT ![cpu[t]] = <<t, version[t] + 1>>]
    /\ fpu' = [fpu EXCEPT ![cpu[t]] = <<t, version[t] + 1>>]
    /\ userRegs' = [userRegs EXCEPT ![t] = <<t, version[t] + 1>>]
    /\ userFpu' = [userFpu EXCEPT ![t] = <<t, version[t] + 1>>]
    /\ UNCHANGED <<fs, areas, pc, cpu, local, frames>>

-----------------------------------------------------------------------------
(* Entries from userspace *)

\* A system call that returns with sysretq.
FastSyscall(t) ==
    /\ pc[t] = "user"
    /\ savedRegs' = [savedRegs EXCEPT ![cpu[t]] = regs[cpu[t]]]
    /\ UNCHANGED <<regs, fpu, fs, context, fpuArea, pc, cpu, local, frames, version, history>>

\* The timer stub saves registers and FPU; process_task clones both areas and
\* yields.
Preempt(t) ==
    /\ pc[t] = "user"
    /\ context' = [context EXCEPT ![cpu[t]] = regs[cpu[t]]]
    /\ fpuArea' = [fpuArea EXCEPT ![cpu[t]] = fpu[cpu[t]]]
    /\ local' = [local EXCEPT ![t] = <<regs[cpu[t]], fpu[cpu[t]]>>]
    /\ Goto(t, "awaiting")
    /\ UNCHANGED <<regs, fpu, fs, savedRegs, cpu, frames, version, history>>

\* (mutant) the handler awaits without a copy of the saved registers
BlockNoSnapshot(t) ==
    /\ pc[t] = "user"
    /\ savedRegs' = [savedRegs EXCEPT ![cpu[t]] = regs[cpu[t]]]
    /\ fpuArea' = [fpuArea EXCEPT ![cpu[t]] = fpu[cpu[t]]]
    /\ local' = [local EXCEPT ![t] = <<context[cpu[t]], fpu[cpu[t]]>>]
    /\ Goto(t, "awaiting")
    /\ UNCHANGED <<regs, fpu, fs, context, cpu, frames, version, userRegs, userFpu>>

\* (mutant) the handler awaits without fxsave64
BlockNoFxsave(t) ==
    /\ pc[t] = "user"
    /\ savedRegs' = [savedRegs EXCEPT ![cpu[t]] = regs[cpu[t]]]
    /\ local' = [local EXCEPT ![t] = <<regs[cpu[t]], fpuArea[cpu[t]]>>]
    /\ Goto(t, "awaiting")
    /\ UNCHANGED <<regs, fpu, fs, context, fpuArea, cpu, frames, version, userRegs, userFpu>>

\* A blocking system call: the stub saves the registers, the handler of its trap
\* copies them, saves the FPU with fxsave64, copies that, and awaits.
BlockIn(t) ==
    /\ pc[t] = "user"
    /\ savedRegs' = [savedRegs EXCEPT ![cpu[t]] = regs[cpu[t]]]
    /\ fpuArea' = [fpuArea EXCEPT ![cpu[t]] = fpu[cpu[t]]]
    /\ local' = [local EXCEPT ![t] = <<regs[cpu[t]], fpu[cpu[t]]>>]
    /\ Goto(t, "awaiting")
    /\ UNCHANGED <<regs, fpu, fs, context, cpu, frames, version, userRegs, userFpu>>

TrapWait(t) == "Wait" \in Ops /\ BlockIn(t)
TrapAccept(t) == "Accept" \in Ops /\ BlockIn(t)
TrapSleep(t) == "Sleep" \in Ops /\ BlockIn(t)
TrapFutex(t) == "Futex" \in Ops /\ BlockIn(t)
TrapPoll(t) == "Poll" \in Ops /\ BlockIn(t)
TrapIo(t) == "Io" \in Ops /\ BlockIn(t)

\* sigreturn: USER_CONTEXT from the SignalFrame, then TRAP_PREEMPTED, whose
\* handler clones both areas.
SigReturn(t) ==
    /\ "SigReturn" \in Ops /\ pc[t] = "user" /\ frames[t] # << >>
    /\ context' = [context EXCEPT ![cpu[t]] = Head(frames[t])]
    /\ savedRegs' = [savedRegs EXCEPT ![cpu[t]] = regs[cpu[t]]]
    /\ local' = [local EXCEPT ![t] = <<Head(frames[t]), fpuArea[cpu[t]]>>]
    /\ userRegs' = [userRegs EXCEPT ![t] = Head(frames[t])]
    /\ userFpu' = [userFpu EXCEPT ![t] = fpuArea[cpu[t]]]
    /\ frames' = [frames EXCEPT ![t] = Tail(@)]
    /\ Goto(t, "awaiting")
    /\ UNCHANGED <<regs, fpu, fs, fpuArea, cpu, version>>

\* TRAP_EXEC that fails: USER_CONTEXT from SYSCALL_SAVED_REGS, and resume.
ExecFails(t) ==
    /\ "ExecFails" \in Ops /\ pc[t] = "user"
    /\ savedRegs' = [savedRegs EXCEPT ![cpu[t]] = regs[cpu[t]]]
    /\ ResumeUser(t, regs[cpu[t]], fpuArea[cpu[t]])
    /\ userFpu' = [userFpu EXCEPT ![t] = fpuArea[cpu[t]]]
    /\ UNCHANGED <<fs, cpu, local, frames, version, userRegs>>

\* TRAP_EXEC that succeeds: enter_userspace_first with a new image.
ExecSucceeds(t) ==
    /\ "Exec" \in Ops /\ pc[t] = "user"
    /\ savedRegs' = [savedRegs EXCEPT ![cpu[t]] = regs[cpu[t]]]
    /\ context' = [context EXCEPT ![cpu[t]] = Fresh(t)]
    /\ regs' = [regs EXCEPT ![cpu[t]] = Fresh(t)]
    /\ userRegs' = [userRegs EXCEPT ![t] = Fresh(t)]
    /\ frames' = [frames EXCEPT ![t] = << >>]
    /\ UNCHANGED <<fpu, fs, fpuArea, pc, cpu, local, version, userFpu>>

-----------------------------------------------------------------------------
(* The end of an await *)

\* The locals go back to the areas of the CPU the thread is on now.
Reenter(t) ==
    /\ ResumeUser(t, local[t][1], local[t][2])
    /\ UNCHANGED <<frames, version, userRegs>>

\* The same, with a pending signal that has a handler: check_signals moves the
\* context about to be resumed to a SignalFrame and enters the handler.
ReenterHandler(t) ==
    /\ "Signal" \in Ops /\ version[t] < MaxVersion
    /\ frames' = [frames EXCEPT ![t] = <<local[t][1]>> \o @]
    /\ version' = [version EXCEPT ![t] = @ + 1]
    /\ userRegs' = [userRegs EXCEPT ![t] = <<t, version[t] + 1>>]
    /\ ResumeUser(t, <<t, version[t] + 1>>, local[t][2])

AwaitDone(t) ==
    /\ pc[t] = "awaiting" /\ OnCpu(t)
    /\ Reenter(t) \/ ReenterHandler(t)
    /\ UNCHANGED <<fs, savedRegs, cpu, local, userFpu>>

\* Work stealing moves a thread that is not being polled.
Migrate(t) ==
    /\ pc[t] = "awaiting"
    /\ \E c \in Cpus \ {cpu[t]} : cpu' = [cpu EXCEPT ![t] = c]
    /\ UNCHANGED <<regs, fpu, fs, areas, pc, local, frames, version, history>>

Step(t) ==
    \/ FirstEntry(t) \/ CloneEntry(t) \/ Compute(t) \/ FastSyscall(t) \/ Preempt(t)
    \/ TrapWait(t) \/ TrapAccept(t) \/ TrapSleep(t) \/ TrapFutex(t) \/ TrapPoll(t) \/ TrapIo(t)
    \/ SigReturn(t) \/ ExecFails(t) \/ ExecSucceeds(t) \/ AwaitDone(t) \/ Migrate(t)

Next == \E t \in Threads : Step(t)

Spec == Init /\ [][Next]_vars

-----------------------------------------------------------------------------
(* Properties *)

\* A thread in userspace has the registers it had when it left, or those a signal
\* handler, a sigreturn or an exec gave it, whatever ran on its old and its new
\* CPU in between.
RegistersKept == \A t \in Threads : pc[t] = "user" => regs[cpu[t]] = userRegs[t]

\* The same of the FPU, across preemption, blocking system calls and migration:
\* "we may await and get rescheduled on a different CPU or after another process
\* runs" (the comment on the fxsave64 of TRAP_WAIT, to which that of TRAP_IO
\* refers).
FpuKept == \A t \in Threads : pc[t] = "user" => fpu[cpu[t]] = userFpu[t]

\* "Per-thread TLS (CLONE_SETTLS, IA32_FS_BASE ...)" (docs): a thread with a TLS
\* pointer has it in IA32_FS_BASE whenever it is in userspace.
TlsKept == \A t \in Clones : pc[t] = "user" => fs[cpu[t]] = t
=============================================================================
