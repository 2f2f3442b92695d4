---------------------------- MODULE KernelEntry ----------------------------
(***************************************************************************)
(* How the CPU gets into the kernel and out of it: system calls            *)
(* (src/src/arch/x86_64/syscall.rs), interrupts and exceptions             *)
(* (interrupts/idt.rs, exceptions.rs), the switch from task to task        *)
(* (cpu.rs, Switch::perform in src/src/task/scheduler.rs) and the first    *)
(* entry of a thread (enter_user in arch/x86_64/mod.rs).                   *)
(*                                                                         *)
(* Every task has a kernel stack, here an array of frames with the oldest  *)
(* at depth 1; what lies deeper than rsp is stale and is overwritten by    *)
(* the next push.  A user program is its stack pointer and the registers   *)
(* that the kernel has to give back.  Which task runs next is a matter of  *)
(* Scheduler: here it may be any live one.  disable_interrupts_and_save    *)
(* and restore_interrupts around a piece of code that does not switch      *)
(* leave the interrupt flag as it was and are not shown.                   *)
(***************************************************************************)
EXTENDS Integers

CONSTANTS Task, Boot,  \* the owners of kernel stacks: tasks, and the boot path
          Value        \* values of a register

ASSUME EntryAssumption == Boot \notin Task

Owner == Task \cup {Boot}
UserState == [rsp : Value, regs : Value]

\* Frames nest at most this deep: an entry, a switch and a spare one.
MAX_DEPTH == 3

Where == {"boot", "calibrating", "spawning", "dispatch", "handler", "exiting", "thread", "user", "dead"}

\* SyscallFrame, InterruptFrame, and what switch_context and ThreadContext::new
\* leave on a stack.  rip is the code that goes on after the frame is popped, and
\* ifl the interrupt flag that comes back with it.
StackFrame == [rip : Where, user : UserState, ifl : BOOLEAN]

VARIABLES mode,              \* "user", "kernel", or "halted" in hcf
          at,                \* the code that runs, in kernel mode
          interrupts,        \* the interrupt flag IF
          user,              \* the registers as a user program sees them
          gs, kernel_gs,     \* IA32_GS_BASE and IA32_KERNEL_GS_BASE
          rsp,               \* the stack pointer, in kernel mode
          kernel_stack_top,  \* CpuLocal
          user_rsp_scratch,  \* CpuLocal
          rsp0,              \* the stack that the TSS names for ring 0
          stack,             \* stack[o][d]: the frame at depth d of a stack
          context,           \* ThreadContext of each task
          current, status,   \* the running task, and which tasks exist
          left               \* history: the registers of each task when it last left user mode

switching == <<context, current, kernel_stack_top, rsp0>>
entryVars == <<mode, at, interrupts, user, gs, kernel_gs, rsp, kernel_stack_top, user_rsp_scratch,
          rsp0, stack, context, current, status, left>>

CPU_LOCAL == "cpu_local"
USER_GS == "user"

swapgs == gs' = kernel_gs /\ kernel_gs' = gs

\* Frame f pushed on a stack below the pointer p.
Push(p, f) == [stack EXCEPT ![p.stack][p.depth + 1] = f]
Below(p) == [stack |-> p.stack, depth |-> p.depth + 1]
Above(p) == [stack |-> p.stack, depth |-> p.depth - 1]
Top(p) == stack[p.stack][p.depth]

\* The empty stack of an owner, to which its top points.
EmptyStack(o) == [stack |-> o, depth |-> 0]

-----------------------------------------------------------------------------
\* syscall::init writes both bases and swaps them.
GsAtStart == gs = CPU_LOCAL /\ kernel_gs = USER_GS

\* enter_kernel has loaded the stack of the boot path and kernel_main starts.
EntryInit ==
    /\ mode = "kernel" /\ at = "boot"
    /\ interrupts = FALSE
    /\ user \in UserState
    /\ GsAtStart
    /\ rsp = EmptyStack(Boot)
    /\ kernel_stack_top = Boot /\ rsp0 = Boot
    /\ user_rsp_scratch \in Value
    /\ stack = [o \in Owner |-> [d \in 1..MAX_DEPTH |-> [rip |-> "dead", user |-> user, ifl |-> FALSE]]]
    /\ context = [o \in Owner |-> EmptyStack(o)]
    /\ current = Boot
    /\ status = [t \in Task |-> "none"]
    /\ left = [t \in Task |-> user]

-----------------------------------------------------------------------------
\* calibrate_local_apic opens a window in which the boot path is interrupted, and
\* bootstrap::spawn comes after it.
CalibrationOpens ==
    /\ mode = "kernel" /\ at = "boot"
    /\ at' = "calibrating" /\ interrupts' = TRUE
    /\ UNCHANGED <<mode, user, gs, kernel_gs, rsp, user_rsp_scratch, stack, switching, status, left>>

CalibrationCloses ==
    /\ mode = "kernel" /\ at = "calibrating"
    /\ at' = "spawning" /\ interrupts' = FALSE
    /\ UNCHANGED <<mode, user, gs, kernel_gs, rsp, user_rsp_scratch, stack, switching, status, left>>

\* An expect of kernel_main or of spawn fails.
BootPanics ==
    /\ mode = "kernel" /\ at \in {"boot", "calibrating", "spawning"}
    /\ mode' = "halted" /\ interrupts' = FALSE
    /\ UNCHANGED <<at, user, gs, kernel_gs, rsp, user_rsp_scratch, stack, switching, status, left>>

\* Tcb::new_user, from bootstrap::spawn, which creates one task, or from
\* sys_task_create: ThreadContext::new writes the first frame of thread t, which is
\* to start in state u.
NewThread(t, u) ==
    /\ mode = "kernel" /\ at \in {"spawning", "dispatch"}
    /\ status[t] = "none"
    /\ at = "spawning" => \A o \in Task : status[o] = "none"
    /\ status' = [status EXCEPT ![t] = "live"]
    /\ stack' = Push(EmptyStack(t), [rip |-> "thread", user |-> u, ifl |-> FALSE])
    /\ context' = [context EXCEPT ![t] = Below(EmptyStack(t))]
    /\ left' = [left EXCEPT ![t] = u]
    /\ UNCHANGED <<mode, at, interrupts, user, gs, kernel_gs, rsp, kernel_stack_top,
                   user_rsp_scratch, rsp0, current>>

\* A program computes.
UserStep ==
    /\ mode = "user"
    /\ user' \in UserState
    /\ UNCHANGED <<mode, at, interrupts, gs, kernel_gs, rsp, user_rsp_scratch, stack, switching,
                   status, left>>

-----------------------------------------------------------------------------
\* Variant: RFLAGS_MASK without IF.
SyscallMasks_not(flag) == flag

\* The syscall instruction clears the flags of RFLAGS_MASK.
SyscallMasks(flag) == FALSE

\* syscall_entry, up to the call of syscall_dispatch.
syscall_entry ==
    /\ mode = "user"
    /\ mode' = "kernel" /\ at' = "dispatch"
    /\ interrupts' = SyscallMasks(interrupts)
    /\ swapgs
    /\ user_rsp_scratch' = user.rsp
    /\ LET top == EmptyStack(kernel_stack_top)
           frame == [rip |-> "user", ifl |-> interrupts,
                     user |-> [rsp |-> user_rsp_scratch', regs |-> user.regs]]
       IN /\ stack' = Push(top, frame)
          /\ rsp' = Below(top)
    /\ left' = [left EXCEPT ![current] = user]
    /\ UNCHANGED <<user, switching, status>>

\* The rest of syscall_entry: the stack pointer is popped into the scratch word and
\* loaded from there, and sysretq takes rip and flags from the frame.
syscall_return ==
    /\ mode = "kernel" /\ at = "dispatch"
    /\ mode' = "user" /\ at' = "user"
    /\ LET frame == Top(rsp)
       IN /\ user_rsp_scratch' = frame.user.rsp
          /\ user' = [rsp |-> user_rsp_scratch', regs |-> frame.user.regs]
          /\ interrupts' = frame.ifl
    /\ rsp' = Above(rsp)
    /\ swapgs
    /\ UNCHANGED <<stack, switching, status, left>>

-----------------------------------------------------------------------------
\* Variant: the stub swaps whatever the saved code segment says.
SwapgsFor_always(rip) == swapgs

\* interrupt_common swaps when the saved code segment is the user's.
SwapgsFor(rip) == IF rip = "user" THEN swapgs ELSE UNCHANGED <<gs, kernel_gs>>

\* The stack that the CPU pushes the interrupt frame on: rsp0 out of ring 3, and
\* the stack in use out of ring 0.
InterruptStack == IF mode = "user" THEN EmptyStack(rsp0) ELSE rsp

\* An interrupt gate is entered, and interrupt_common runs up to the call of
\* interrupt_dispatch, which goes on with to.
InterruptEntry(to) ==
    /\ mode' = "kernel" /\ at' = to
    /\ stack' = Push(InterruptStack, [rip |-> at, user |-> user, ifl |-> interrupts])
    /\ rsp' = Below(InterruptStack)
    /\ interrupts' = FALSE
    /\ SwapgsFor(at)
    /\ left' = IF mode = "user" THEN [left EXCEPT ![current] = user] ELSE left
    /\ UNCHANGED <<user, user_rsp_scratch, switching, status>>

\* One of the vectors of apic_vectors, which are maskable.
ApicInterrupt ==
    /\ mode \in {"user", "kernel"} /\ interrupts
    /\ InterruptEntry("handler")

\* apic_vectors::handle returns, and interrupt_common goes back where it came from.
InterruptReturn ==
    /\ mode = "kernel" /\ at = "handler"
    /\ LET frame == Top(rsp)
       IN /\ mode' = IF frame.rip = "user" THEN "user" ELSE "kernel"
          /\ at' = frame.rip
          /\ user' = frame.user
          /\ interrupts' = frame.ifl
          /\ SwapgsFor(frame.rip)
    /\ rsp' = Above(rsp)
    /\ UNCHANGED <<user_rsp_scratch, stack, switching, status, left>>

\* exceptions::handle with a frame from user mode ends in exit_current.
UserException ==
    /\ mode = "user"
    /\ InterruptEntry("exiting")

\* exceptions::handle with a frame from kernel mode ends in hcf.
KernelException ==
    /\ mode = "kernel"
    /\ mode' = "halted"
    /\ UNCHANGED <<at, interrupts, user, gs, kernel_gs, rsp, user_rsp_scratch, stack, switching,
                   status, left>>

-----------------------------------------------------------------------------
\* Variant: only the TSS is told.
set_kernel_stack_tss(top) == rsp0' = top /\ UNCHANGED kernel_stack_top

\* Both ways into the kernel start on the stack of the task that runs next.
set_kernel_stack(top) == rsp0' = top /\ kernel_stack_top' = top

\* Switch::perform to next: switch_context pushes frame and pops that of next.
\* The flag that yield_current or block_current saved comes back after it; a new
\* thread finds its entry and its stack in the registers popped.
Perform(next, frame) ==
    /\ set_kernel_stack(next)
    /\ stack' = Push(rsp, frame)
    /\ context' = [context EXCEPT ![current] = Below(rsp)]
    /\ current' = next
    /\ LET popped == stack'[context[next].stack][context[next].depth]
       IN /\ at' = popped.rip
          /\ interrupts' = popped.ifl
          /\ user' = IF popped.rip = "thread" THEN popped.user ELSE user
    /\ rsp' = Above(context[next])

\* The task that next names may run: it is live and it is not the current one.
MayRun(next) == next # current /\ status[next] = "live"

\* yield_current and block_current, out of a system call.
SwitchAway(next) ==
    /\ mode = "kernel" /\ at = "dispatch"
    /\ MayRun(next)
    /\ Perform(next, [rip |-> at, user |-> user, ifl |-> interrupts])
    /\ UNCHANGED <<mode, gs, kernel_gs, user_rsp_scratch, status, left>>

\* exit_current, from sys_exit, a bad system call or an exception: interrupts are
\* off, and the call does not return.
exit_current(next) ==
    /\ mode = "kernel" /\ at \in {"dispatch", "exiting"}
    /\ MayRun(next)
    /\ Perform(next, [rip |-> "dead", user |-> user, ifl |-> FALSE])
    /\ status' = [status EXCEPT ![current] = "dead"]
    /\ UNCHANGED <<mode, gs, kernel_gs, user_rsp_scratch, left>>

\* scheduler::start leaves the boot path for good.
start(next) ==
    /\ mode = "kernel" /\ at = "spawning"
    /\ MayRun(next)
    /\ Perform(next, [rip |-> "dead", user |-> user, ifl |-> FALSE])
    /\ UNCHANGED <<mode, gs, kernel_gs, user_rsp_scratch, status, left>>

\* block_current and exit_current with nobody to switch to end in hcf.
NobodyReady ==
    /\ mode = "kernel" /\ at \in {"dispatch", "exiting"}
    /\ mode' = "halted"
    /\ UNCHANGED <<at, interrupts, user, gs, kernel_gs, rsp, user_rsp_scratch, stack, switching,
                   status, left>>

\* user_thread_entry and enter_user: iretq pops what enter_user has pushed, with
\* IF set; loading the user's selector clears the base that swapgs made active.
enter_user ==
    /\ mode = "kernel" /\ at = "thread"
    /\ mode' = "user" /\ at' = "user"
    /\ interrupts' = TRUE
    /\ kernel_gs' = gs /\ gs' = USER_GS
    /\ UNCHANGED <<user, rsp, user_rsp_scratch, stack, switching, status, left>>

hcf ==
    /\ mode = "halted"
    /\ UNCHANGED entryVars

EntryNext ==
    \/ CalibrationOpens \/ CalibrationCloses \/ BootPanics
    \/ \E t \in Task, u \in UserState : NewThread(t, u)
    \/ UserStep
    \/ syscall_entry \/ syscall_return
    \/ ApicInterrupt \/ InterruptReturn
    \/ UserException \/ KernelException
    \/ \E t \in Task : SwitchAway(t) \/ exit_current(t) \/ start(t)
    \/ NobodyReady
    \/ enter_user
    \/ hcf

EntrySpec == EntryInit /\ [][EntryNext]_entryVars

-----------------------------------------------------------------------------
\* Kernel code runs with GS at CpuLocal and user code with its own, and the other
\* base waits in IA32_KERNEL_GS_BASE: what the comment in syscall::init says, on
\* every path through swapgs in syscall.rs, idt.rs and enter_user.
GsMatchesMode ==
    /\ mode = "kernel" => gs = CPU_LOCAL /\ kernel_gs = USER_GS
    /\ mode = "user" => gs = USER_GS /\ kernel_gs = CPU_LOCAL

\* But for the window of the calibration, the kernel runs with interrupts off,
\* through FMASK, the gates and the flags that yield_current and block_current
\* restore in another task's place: its data structures need no lock.
KernelRunsMasked == mode = "kernel" /\ at # "calibrating" => ~interrupts

\* Whenever the CPU goes back to user mode it is with the registers that the
\* running task had when it left user mode, or was created with: no entry, switch
\* or scratch word of another task has come between.
ResumesWhereItLeft == [][mode = "kernel" /\ mode' = "user" => user' = left[current]]_entryVars
=============================================================================
