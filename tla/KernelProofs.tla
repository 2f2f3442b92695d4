---------------------------- MODULE KernelProofs ----------------------------
(***************************************************************************)
(* Parts of the kernel that stand alone, for all their sizes.              *)
(*                                                                         *)
(* KernelEntry: the inductive invariant says, for the code that runs, what *)
(* lies on the stack in use, and for every task that waits, that its stack *)
(* holds the frames it left there and its context points at the last.      *)
(* ReadyQueue: the ring of runnable tasks keeps its bounds and implements  *)
(* a bounded first-in first-out queue.                                     *)
(*                                                                         *)
(* FrameAllocator, for every frame size, every address width and every     *)
(* memory map in which usable and boot loader memory overlaps nothing      *)
(* else: the counters agree with the bitmap, only memory that may be used  *)
(* is handed out, no panic is reached, and the allocator is a pool of      *)
(* frames.  Bitmap: the bytes behave as one variable per frame.            *)
(***************************************************************************)
EXTENDS KernelEntry, ReadyQueue, FrameAllocator, Bitmap, FiniteSetTheorems, SequenceTheorems, TLAPS

\* Steps that need arithmetic, or that Zenon does not find, name SMT.
USE Zenon


Pointer == [stack : Owner, depth : 0..MAX_DEPTH]

EntryTypeOK ==
    /\ mode \in {"user", "kernel", "halted"}
    /\ at \in Where
    /\ interrupts \in BOOLEAN
    /\ user \in UserState
    /\ gs \in {CPU_LOCAL, USER_GS} /\ kernel_gs \in {CPU_LOCAL, USER_GS}
    /\ rsp \in Pointer
    /\ kernel_stack_top \in Owner /\ rsp0 \in Owner
    /\ user_rsp_scratch \in Value
    /\ stack \in [Owner -> [1..MAX_DEPTH -> StackFrame]]
    /\ context \in [Owner -> Pointer]
    /\ current \in Owner
    /\ status \in [Task -> {"none", "live", "dead"}]
    /\ left \in [Task -> UserState]

\* The frame of task t, at the bottom of its stack, takes it back to user mode.
EntryFrame(t) == stack[t][1].rip = "user" /\ stack[t][1].user = left[t]

\* A task that waits has never run, or was switched away from in a system call.
NewFrame(t) ==
    /\ context[t].depth = 1
    /\ stack[t][1].rip = "thread" /\ stack[t][1].user = left[t] /\ ~stack[t][1].ifl
SwitchedFrames(t) ==
    /\ context[t].depth = 2
    /\ EntryFrame(t)
    /\ stack[t][2].rip = "dispatch" /\ ~stack[t][2].ifl
Waiting(t) == context[t].stack = t /\ (NewFrame(t) \/ SwitchedFrames(t))

WaitingOK == \A t \in Task : status[t] = "live" /\ t # current => Waiting(t)

\* Both ways into the kernel lead to the stack of the current task.
StackOK ==
    /\ kernel_stack_top = current /\ rsp0 = current
    /\ mode = "kernel" => rsp.stack = current

\* What the code that runs finds on the stack.
BootOK == at \in {"boot", "calibrating", "spawning"} => current = Boot /\ rsp.depth = 0
DispatchOK == at = "dispatch" => current \in Task /\ rsp.depth = 1 /\ EntryFrame(current)
HandlerOK ==
    at = "handler" =>
        /\ rsp.depth = 1
        /\ \/ current \in Task /\ EntryFrame(current)
           \/ current = Boot /\ stack[Boot][1].rip = "calibrating"
ExitingOK == at = "exiting" => current \in Task /\ rsp.depth = 1
ThreadOK == at = "thread" => current \in Task /\ user = left[current]
CodeOK ==
    /\ mode = "kernel" => /\ at \notin {"user", "dead"}
                          /\ BootOK /\ DispatchOK /\ HandlerOK /\ ExitingOK /\ ThreadOK
    /\ mode = "user" => at = "user" /\ current \in Task

\* The task that runs has not exited.
CurrentOK == mode # "halted" /\ current \in Task => status[current] = "live"

IInv ==
    /\ EntryTypeOK /\ GsMatchesMode /\ KernelRunsMasked
    /\ WaitingOK /\ StackOK /\ CodeOK /\ CurrentOK

USE EntryAssumption DEF MAX_DEPTH, Owner

\* The boot path starts with the invariant.
LEMMA IInvInit == EntryInit => IInv
  <1> SUFFICES ASSUME EntryInit
               PROVE  IInv
    OBVIOUS
  <1>1. EntryTypeOK
    <2>1. [rip |-> "dead", user |-> user, ifl |-> FALSE] \in StackFrame
      BY DEF EntryInit, StackFrame, Where
    <2>2. stack \in [Owner -> [1..MAX_DEPTH -> StackFrame]]
      BY <2>1 DEF EntryInit
    <2>3. \A o \in Owner : EmptyStack(o) \in Pointer
      BY SMT DEF EmptyStack, Pointer
    <2> QED
      BY <2>2, <2>3 DEF EntryInit, EntryTypeOK, GsAtStart, Where
  <1> QED
    BY <1>1 DEF EntryInit, IInv, GsAtStart, GsMatchesMode, KernelRunsMasked, WaitingOK, StackOK, CodeOK, CurrentOK,
                BootOK, DispatchOK, HandlerOK, ExitingOK, ThreadOK, EmptyStack, CPU_LOCAL, USER_GS

-----------------------------------------------------------------------------
\* A frame pushed below p: nothing else on any stack changes.
LEMMA PushProperties ==
    ASSUME EntryTypeOK, NEW p \in Pointer, p.depth < MAX_DEPTH, NEW f \in StackFrame
    PROVE  /\ Push(p, f) \in [Owner -> [1..MAX_DEPTH -> StackFrame]]
           /\ Push(p, f)[p.stack][p.depth + 1] = f
           /\ \A o \in Owner : o # p.stack => Push(p, f)[o] = stack[o]
           /\ \A o \in Owner, d \in 1..MAX_DEPTH :
                 o # p.stack \/ d # p.depth + 1 => Push(p, f)[o][d] = stack[o][d]
           /\ Below(p) \in Pointer
           /\ Below(p).stack = p.stack /\ Below(p).depth = p.depth + 1
  BY SMT DEF EntryTypeOK, Pointer, Push, Below

\* The top of a stack that is not empty.
LEMMA TopProperties ==
    ASSUME EntryTypeOK, NEW p \in Pointer, p.depth > 0
    PROVE  /\ Top(p) \in StackFrame
           /\ Above(p) \in Pointer
           /\ Above(p).stack = p.stack /\ Above(p).depth = p.depth - 1
  BY SMT DEF EntryTypeOK, Pointer, Top, Above

\* The stack that a top points to.
LEMMA EmptyStackProperties ==
    ASSUME NEW o \in Owner
    PROVE  EmptyStack(o) \in Pointer /\ EmptyStack(o).stack = o /\ EmptyStack(o).depth = 0
  BY SMT DEF EmptyStack, Pointer

\* The first frame on the stack of o.
PushedFirst(o, f) ==
    /\ Push(EmptyStack(o), f) \in [Owner -> [1..MAX_DEPTH -> StackFrame]]
    /\ Push(EmptyStack(o), f)[o][1] = f
    /\ \A x \in Owner : x # o => Push(EmptyStack(o), f)[x] = stack[x]
    /\ Below(EmptyStack(o)) \in Pointer
    /\ Below(EmptyStack(o)).stack = o /\ Below(EmptyStack(o)).depth = 1

\* It lies at the bottom, and no other stack changes.
LEMMA PushFirst ==
    ASSUME EntryTypeOK, NEW o \in Owner, NEW f \in StackFrame
    PROVE  PushedFirst(o, f)
  BY SMT DEF EntryTypeOK, Pointer, Push, Below, EmptyStack, PushedFirst

\* A task waits as before if its stack, its context and its history are the same.
LEMMA WaitingUnchanged ==
    ASSUME NEW t, stack'[t] = stack[t], context'[t] = context[t], left'[t] = left[t], Waiting(t)
    PROVE  Waiting(t)'
  BY DEF Waiting, NewFrame, SwitchedFrames, EntryFrame

\* Steps that leave stacks, switching and tasks alone.
LEMMA BootStep ==
    ASSUME IInv, CalibrationOpens \/ CalibrationCloses \/ BootPanics \/ KernelException \/ NobodyReady
    PROVE  IInv'
  <1>1. EntryTypeOK'
    <2>1. /\ UNCHANGED <<user, gs, kernel_gs, rsp, user_rsp_scratch, stack, switching, status, left>>
          /\ mode' \in {"user", "kernel", "halted"} /\ at' \in Where /\ interrupts' \in BOOLEAN
      BY DEF IInv, EntryTypeOK, CalibrationOpens, CalibrationCloses, BootPanics, KernelException, NobodyReady, Where
    <2> QED
      BY <2>1 DEF IInv, EntryTypeOK, switching
  <1>2. WaitingOK'
    BY SMT DEF IInv, WaitingOK, Waiting, NewFrame, SwitchedFrames, EntryFrame, switching,
           CalibrationOpens, CalibrationCloses, BootPanics, KernelException, NobodyReady
  <1>3. GsMatchesMode' /\ KernelRunsMasked' /\ StackOK' /\ CodeOK' /\ CurrentOK'
    BY DEF IInv, GsMatchesMode, KernelRunsMasked, StackOK, CodeOK, CurrentOK, BootOK, DispatchOK, HandlerOK,
           ExitingOK, ThreadOK, EntryFrame, switching, CalibrationOpens, CalibrationCloses,
           BootPanics, KernelException, NobodyReady
  <1> QED
    BY <1>1, <1>2, <1>3 DEF IInv

\* A new thread waits with the frame that ThreadContext::new wrote.
LEMMA NewThreadStep ==
    ASSUME IInv, NEW t \in Task, NEW u \in UserState, NewThread(t, u)
    PROVE  IInv'
  <1> DEFINE first == [rip |-> "thread", user |-> u, ifl |-> FALSE]
  <1>1. first \in StackFrame /\ first.rip = "thread" /\ first.user = u /\ first.ifl = FALSE
    BY DEF StackFrame, Where
  <1>2. stack' = Push(EmptyStack(t), first)
    BY DEF NewThread
  <1> HIDE DEF first
  <1>3. /\ stack' \in [Owner -> [1..MAX_DEPTH -> StackFrame]]
        /\ stack'[t][1] = first
        /\ \A o \in Owner : o # t => stack'[o] = stack[o]
        /\ Below(EmptyStack(t)) \in Pointer
        /\ Below(EmptyStack(t)).stack = t /\ Below(EmptyStack(t)).depth = 1
    <2>1. PushedFirst(t, first)
      BY <1>1, PushFirst DEF IInv
    <2> QED
      BY <1>2, <2>1 DEF PushedFirst
  <1>4. /\ context' \in [Owner -> Pointer] /\ context'[t] = Below(EmptyStack(t))
        /\ \A o \in Owner : o # t => context'[o] = context[o]
        /\ left' \in [Task -> UserState] /\ left'[t] = u
        /\ \A o \in Task : o # t => left'[o] = left[o]
        /\ status' \in [Task -> {"none", "live", "dead"}]
        /\ \A o \in Task : o # t => status'[o] = status[o]
    BY <1>3 DEF IInv, EntryTypeOK, NewThread
  <1>5. current # t
    BY DEF IInv, WaitingOK, NewThread, CurrentOK, CodeOK, BootOK, DispatchOK
  <1>6. EntryTypeOK'
    BY <1>3, <1>4 DEF IInv, EntryTypeOK, NewThread
  <1>7. WaitingOK'
    <2> SUFFICES ASSUME NEW o \in Task, status'[o] = "live", o # current'
                 PROVE  Waiting(o)'
      BY DEF WaitingOK
    <2>1. CASE o = t
      BY <1>1, <1>3, <1>4, <2>1 DEF Waiting, NewFrame
    <2>2. CASE o # t
      <3>1. Waiting(o)
        BY <1>4, <2>2 DEF IInv, WaitingOK, NewThread
      <3> QED
        BY <1>3, <1>4, <2>2, <3>1, WaitingUnchanged
    <2> QED
      BY <2>1, <2>2
  <1>8. GsMatchesMode' /\ KernelRunsMasked' /\ StackOK'
    BY DEF IInv, GsMatchesMode, KernelRunsMasked, StackOK, NewThread
  <1>9. CodeOK' /\ CurrentOK'
    <2>1. current' = current /\ at' = at /\ mode' = mode /\ rsp' = rsp /\ mode = "kernel"
          /\ at \in {"spawning", "dispatch"}
      BY DEF NewThread
    <2>2. current \in Task => stack'[current] = stack[current] /\ left'[current] = left[current]
                               /\ status'[current] = status[current]
      BY <1>3, <1>4, <1>5
    <2> QED
      BY <2>1, <2>2 DEF IInv, CodeOK, CurrentOK, BootOK, DispatchOK, HandlerOK, ExitingOK, ThreadOK,
                        EntryFrame
  <1> QED
    BY <1>6, <1>7, <1>8, <1>9 DEF IInv

\* A program that computes touches nothing of the kernel.
LEMMA UserStepStep ==
    ASSUME IInv, UserStep
    PROVE  IInv'
  <1>1. EntryTypeOK'
    BY DEF IInv, EntryTypeOK, switching, UserStep
  <1>2. WaitingOK'
    BY DEF IInv, WaitingOK, Waiting, NewFrame, SwitchedFrames, EntryFrame, switching, UserStep
  <1> QED
    BY <1>1, <1>2 DEF IInv, GsMatchesMode, KernelRunsMasked, StackOK, CodeOK, CurrentOK, switching,
                      UserStep

\* Both ways into the kernel out of user mode push one frame on the empty stack of
\* the current task.
EnteredFromUser(f) ==
    /\ stack' = Push(EmptyStack(current), f)
    /\ rsp' = Below(EmptyStack(current))
    /\ left' = [left EXCEPT ![current] = user]
    /\ UNCHANGED <<user, switching, status>>

\* The frame is the one of the current task, and the others wait as before.
LEMMA EnteredFromUserOK ==
    ASSUME IInv, mode = "user", NEW f \in StackFrame, f.rip = "user", f.user = user, EnteredFromUser(f)
    PROVE  /\ stack' \in [Owner -> [1..MAX_DEPTH -> StackFrame]]
           /\ rsp' \in Pointer /\ rsp'.stack = current /\ rsp'.depth = 1
           /\ left' \in [Task -> UserState]
           /\ EntryFrame(current)'
           /\ WaitingOK'
  <1>1. current \in Task /\ current' = current /\ context' = context /\ status' = status
    BY DEF IInv, CodeOK, EnteredFromUser, switching
  <1>2. /\ stack' \in [Owner -> [1..MAX_DEPTH -> StackFrame]]
        /\ stack'[current][1] = f
        /\ \A o \in Owner : o # current => stack'[o] = stack[o]
        /\ rsp' \in Pointer /\ rsp'.stack = current /\ rsp'.depth = 1
    <2>1. PushedFirst(current, f)
      BY <1>1, PushFirst DEF IInv
    <2> QED
      BY <2>1 DEF PushedFirst, EnteredFromUser
  <1>3. /\ left' \in [Task -> UserState] /\ left'[current] = user
        /\ \A o \in Task : o # current => left'[o] = left[o]
    BY <1>1 DEF IInv, EntryTypeOK, EnteredFromUser
  <1>4. WaitingOK'
    <2> SUFFICES ASSUME NEW o \in Task, status'[o] = "live", o # current'
                 PROVE  Waiting(o)'
      BY DEF WaitingOK
    <2>1. Waiting(o) /\ context'[o] = context[o]
      BY <1>1 DEF IInv, WaitingOK
    <2> QED
      BY <1>1, <1>2, <1>3, <2>1, WaitingUnchanged
  <1> QED
    BY <1>1, <1>2, <1>3, <1>4 DEF EntryFrame

\* A system call leaves its frame at the bottom of the stack of its task.
LEMMA SyscallEntryStep ==
    ASSUME IInv, syscall_entry
    PROVE  IInv'
  <1> DEFINE f == [rip |-> "user", ifl |-> interrupts,
                   user |-> [rsp |-> user_rsp_scratch', regs |-> user.regs]]
  <1>1. user \in UserState /\ user_rsp_scratch' = user.rsp /\ mode = "user" /\ current \in Task
    BY DEF IInv, EntryTypeOK, CodeOK, syscall_entry
  <1>2. [rsp |-> user_rsp_scratch', regs |-> user.regs] = user
    BY <1>1 DEF UserState
  <1>3. f \in StackFrame /\ f.rip = "user" /\ f.user = user
    BY <1>1, <1>2 DEF IInv, EntryTypeOK, StackFrame, Where
  <1>4. EnteredFromUser(f)
    BY DEF IInv, StackOK, syscall_entry, EnteredFromUser
  <1> HIDE DEF f
  <1>5. /\ stack' \in [Owner -> [1..MAX_DEPTH -> StackFrame]]
        /\ rsp' \in Pointer /\ rsp'.stack = current /\ rsp'.depth = 1
        /\ left' \in [Task -> UserState]
        /\ EntryFrame(current)'
        /\ WaitingOK'
    BY <1>1, <1>3, <1>4, EnteredFromUserOK
  <1>6. EntryTypeOK'
    BY <1>1, <1>5 DEF IInv, EntryTypeOK, syscall_entry, switching, swapgs, SyscallMasks, Where, UserState
  <1>7. GsMatchesMode' /\ KernelRunsMasked' /\ StackOK' /\ CurrentOK'
    BY <1>5 DEF IInv, GsMatchesMode, KernelRunsMasked, StackOK, CurrentOK, syscall_entry, switching,
                swapgs, SyscallMasks
  <1>8. CodeOK'
    BY <1>1, <1>5 DEF syscall_entry, switching, CodeOK, BootOK, DispatchOK, HandlerOK, ExitingOK,
                      ThreadOK, EntryFrame
  <1> QED
    BY <1>5, <1>6, <1>7, <1>8 DEF IInv

\* In a system call the frame on top is the entry frame of the current task.
LEMMA SyscallTop ==
    ASSUME IInv, mode = "kernel", at = "dispatch"
    PROVE  /\ current \in Task /\ Top(rsp) = stack[current][1]
           /\ Top(rsp) \in StackFrame /\ Top(rsp).user = left[current]
           /\ Above(rsp) \in Pointer
  <1>1. rsp \in Pointer /\ rsp.stack = current /\ rsp.depth = 1 /\ current \in Task
        /\ EntryFrame(current)
    BY DEF IInv, EntryTypeOK, StackOK, CodeOK, DispatchOK
  <1>2. Top(rsp) \in StackFrame /\ Above(rsp) \in Pointer
    BY <1>1, TopProperties, SMT DEF IInv
  <1> QED
    BY <1>1, <1>2 DEF Top, EntryFrame

\* A system call restores the registers that its frame holds.
LEMMA SyscallReturnStep ==
    ASSUME IInv, syscall_return
    PROVE  IInv' /\ user' = left[current]
  <1> DEFINE f == Top(rsp)
  <1>1. mode = "kernel" /\ at = "dispatch"
    BY DEF syscall_return
  <1>2. /\ current \in Task /\ f \in StackFrame /\ f.user = left[current]
        /\ Above(rsp) \in Pointer
    BY <1>1, SyscallTop
  <1>3. user_rsp_scratch' = f.user.rsp /\ interrupts' = f.ifl
        /\ user' = [rsp |-> f.user.rsp, regs |-> f.user.regs]
    BY DEF syscall_return
  <1> HIDE DEF f
  <1>4. user' = f.user /\ user' \in UserState /\ user_rsp_scratch' \in Value /\ interrupts' \in BOOLEAN
    BY <1>2, <1>3 DEF StackFrame, UserState
  <1>5. EntryTypeOK'
    BY <1>2, <1>4 DEF IInv, EntryTypeOK, syscall_return, switching, swapgs, Where
  <1>6. WaitingOK'
    BY DEF IInv, WaitingOK, Waiting, NewFrame, SwitchedFrames, EntryFrame, switching, syscall_return
  <1>7. GsMatchesMode' /\ KernelRunsMasked' /\ StackOK' /\ CurrentOK' /\ CodeOK'
    BY <1>2 DEF IInv, GsMatchesMode, KernelRunsMasked, StackOK, CurrentOK, CodeOK, syscall_return,
                switching, swapgs
  <1> QED
    BY <1>2, <1>4, <1>5, <1>6, <1>7 DEF IInv

\* An interrupt or an exception out of user mode.
LEMMA UserInterruptStep ==
    ASSUME IInv, mode = "user", NEW to \in {"handler", "exiting"}, InterruptEntry(to)
    PROVE  IInv'
  <1> DEFINE f == [rip |-> at, user |-> user, ifl |-> interrupts]
  <1>1. user \in UserState /\ at = "user" /\ current \in Task
    BY DEF IInv, EntryTypeOK, CodeOK
  <1>2. f \in StackFrame /\ f.rip = "user" /\ f.user = user
    BY <1>1 DEF IInv, EntryTypeOK, StackFrame, Where
  <1>3. EnteredFromUser(f)
    BY DEF IInv, StackOK, InterruptEntry, InterruptStack, EnteredFromUser
  <1> HIDE DEF f
  <1>4. /\ stack' \in [Owner -> [1..MAX_DEPTH -> StackFrame]]
        /\ rsp' \in Pointer /\ rsp'.stack = current /\ rsp'.depth = 1
        /\ left' \in [Task -> UserState]
        /\ EntryFrame(current)'
        /\ WaitingOK'
    BY <1>2, <1>3, EnteredFromUserOK
  <1>5. swapgs
    BY <1>1 DEF InterruptEntry, SwapgsFor
  <1>6. EntryTypeOK'
    BY <1>4, <1>5 DEF IInv, EntryTypeOK, InterruptEntry, switching, swapgs, Where
  <1>7. GsMatchesMode' /\ KernelRunsMasked' /\ StackOK' /\ CurrentOK'
    BY <1>4, <1>5 DEF IInv, GsMatchesMode, KernelRunsMasked, StackOK, CurrentOK, InterruptEntry,
                      switching, swapgs
  <1>8. CodeOK'
    BY <1>1, <1>4 DEF InterruptEntry, switching, CodeOK, BootOK, DispatchOK, HandlerOK, ExitingOK,
                      ThreadOK, EntryFrame
  <1> QED
    BY <1>4, <1>6, <1>7, <1>8 DEF IInv

\* An interrupt out of kernel mode hits the window of the calibration.
LEMMA KernelInterruptStep ==
    ASSUME IInv, mode = "kernel", interrupts, InterruptEntry("handler")
    PROVE  IInv'
  <1> DEFINE f == [rip |-> at, user |-> user, ifl |-> interrupts]
  <1>1. at = "calibrating" /\ current = Boot /\ rsp \in Pointer /\ rsp.stack = Boot /\ rsp.depth = 0
    BY DEF IInv, EntryTypeOK, KernelRunsMasked, CodeOK, BootOK, StackOK
  <1>2. f \in StackFrame /\ f.rip = "calibrating"
    BY <1>1 DEF IInv, EntryTypeOK, StackFrame
  <1>3. stack' = Push(rsp, f) /\ rsp' = Below(rsp)
    BY DEF InterruptEntry, InterruptStack
  <1> HIDE DEF f
  <1>4. /\ stack' \in [Owner -> [1..MAX_DEPTH -> StackFrame]]
        /\ stack'[Boot][1] = f
        /\ \A o \in Owner : o # Boot => stack'[o] = stack[o]
        /\ rsp' \in Pointer /\ rsp'.stack = Boot /\ rsp'.depth = 1
    <2>1. PushedFirst(Boot, f) /\ rsp = EmptyStack(Boot)
      BY <1>1, <1>2, PushFirst DEF IInv, Pointer, EmptyStack
    <2> QED
      BY <1>3, <2>1 DEF PushedFirst
  <1>5. UNCHANGED <<gs, kernel_gs>> /\ left' = left
    BY <1>1 DEF InterruptEntry, SwapgsFor
  <1>6. EntryTypeOK'
    BY <1>4, <1>5 DEF IInv, EntryTypeOK, InterruptEntry, switching, Where
  <1>7. WaitingOK'
    <2> SUFFICES ASSUME NEW o \in Task, status'[o] = "live", o # current'
                 PROVE  Waiting(o)'
      BY DEF WaitingOK
    <2>1. Waiting(o) /\ context'[o] = context[o] /\ left'[o] = left[o]
      BY <1>5 DEF IInv, WaitingOK, InterruptEntry, switching
    <2> QED
      BY <1>4, <2>1, WaitingUnchanged
  <1>8. GsMatchesMode' /\ KernelRunsMasked' /\ StackOK' /\ CurrentOK'
    BY <1>1, <1>4, <1>5 DEF IInv, GsMatchesMode, KernelRunsMasked, StackOK, CurrentOK, InterruptEntry,
                            switching
  <1>9. CodeOK'
    BY <1>1, <1>2, <1>4 DEF InterruptEntry, switching, CodeOK, BootOK, DispatchOK, HandlerOK,
                            ExitingOK, ThreadOK
  <1> QED
    BY <1>6, <1>7, <1>8, <1>9 DEF IInv

\* The way back from an interrupt handler.
LEMMA InterruptReturnStep ==
    ASSUME IInv, InterruptReturn
    PROVE  IInv' /\ (mode' = "user" => user' = left[current])
  <1> DEFINE f == Top(rsp)
  <1>1. /\ mode = "kernel" /\ at = "handler" /\ rsp \in Pointer /\ rsp.stack = current /\ rsp.depth = 1
        /\ current \in Owner
    BY DEF IInv, EntryTypeOK, StackOK, CodeOK, HandlerOK, InterruptReturn
  <1>2. f \in StackFrame /\ f = stack[current][1] /\ Above(rsp) \in Pointer
        /\ Above(rsp).stack = current /\ Above(rsp).depth = 0
    <2>1. f = stack[current][1]
      BY <1>1 DEF Top
    <2>2. Above(rsp) = [stack |-> current, depth |-> 0]
      BY <1>1, SMT DEF Above
    <2>3. stack \in [Owner -> [1..MAX_DEPTH -> StackFrame]]
      BY DEF IInv, EntryTypeOK
    <2> QED
      BY <1>1, <2>1, <2>2, <2>3, SMT DEF Pointer
  <1>3. \/ current \in Task /\ f.rip = "user" /\ f.user = left[current]
        \/ current = Boot /\ f.rip = "calibrating"
    BY <1>1, <1>2 DEF IInv, CodeOK, HandlerOK, EntryFrame
  <1>4. /\ mode' = IF f.rip = "user" THEN "user" ELSE "kernel"
        /\ at' = f.rip /\ user' = f.user /\ interrupts' = f.ifl /\ SwapgsFor(f.rip)
        /\ rsp' = Above(rsp)
        /\ UNCHANGED <<user_rsp_scratch, stack, switching, status, left>>
    BY DEF InterruptReturn
  <1> HIDE DEF f
  <1>5. user' \in UserState /\ at' \in Where /\ interrupts' \in BOOLEAN
    BY <1>2, <1>4 DEF StackFrame
  <1>6. EntryTypeOK'
    BY <1>2, <1>4, <1>5 DEF IInv, EntryTypeOK, switching, SwapgsFor, swapgs
  <1>7. WaitingOK'
    BY <1>4 DEF IInv, WaitingOK, Waiting, NewFrame, SwitchedFrames, EntryFrame, switching
  <1>8. GsMatchesMode' /\ KernelRunsMasked' /\ StackOK' /\ CurrentOK' /\ CodeOK'
    BY <1>1, <1>2, <1>3, <1>4 DEF IInv, GsMatchesMode, KernelRunsMasked, StackOK, CurrentOK, CodeOK,
          BootOK, DispatchOK, HandlerOK, ExitingOK, ThreadOK, switching, SwapgsFor, swapgs
  <1> QED
    BY <1>3, <1>4, <1>6, <1>7, <1>8 DEF IInv

-----------------------------------------------------------------------------
\* What Perform does, seen from the task that runs next and from the others.
Switched(next, pushed) ==
    /\ stack' \in [Owner -> [1..MAX_DEPTH -> StackFrame]]
    /\ \A o \in Owner : o # current => stack'[o] = stack[o] /\ context'[o] = context[o]
    /\ rsp.depth = 1 => stack'[current][1] = stack[current][1] /\ stack'[current][2] = pushed
    /\ context' \in [Owner -> Pointer] /\ context'[current] = Below(rsp)
    /\ rsp' \in Pointer /\ rsp'.stack = next
    /\ \/ at' = "thread" /\ user' = left[next]
       \/ at' = "dispatch" /\ EntryFrame(next) /\ rsp'.depth = 1 /\ user' = user
    /\ interrupts' = FALSE

\* The frames of the task that runs next are those it was left with.
LEMMA PerformSwitches ==
    ASSUME IInv, NEW next \in Task, MayRun(next), NEW pushed \in StackFrame,
           mode = "kernel", at \in {"spawning", "dispatch", "exiting"}, Perform(next, pushed)
    PROVE  Switched(next, pushed)
  <1>1. rsp \in Pointer /\ rsp.stack = current /\ rsp.depth \in {0, 1} /\ current \in Owner
    BY DEF IInv, EntryTypeOK, StackOK, CodeOK, BootOK, DispatchOK, ExitingOK
  <1>2. /\ Push(rsp, pushed) \in [Owner -> [1..MAX_DEPTH -> StackFrame]]
        /\ \A o \in Owner : o # current => Push(rsp, pushed)[o] = stack[o]
        /\ rsp.depth = 1 => Push(rsp, pushed)[current][1] = stack[current][1]
                              /\ Push(rsp, pushed)[current][2] = pushed
        /\ Below(rsp) \in Pointer
    BY <1>1, SMT DEF IInv, EntryTypeOK, Pointer, Push, Below
  <1>3. stack' = Push(rsp, pushed) /\ context' = [context EXCEPT ![current] = Below(rsp)]
        /\ rsp' = Above(context[next])
    BY DEF Perform
  <1>4. context \in [Owner -> Pointer] /\ next # current /\ Waiting(next) /\ next \in Owner
    BY DEF IInv, EntryTypeOK, WaitingOK, MayRun
  <1>5. stack'[next] = stack[next]
    BY <1>2, <1>3, <1>4
  <1>6. /\ context' \in [Owner -> Pointer] /\ context'[current] = Below(rsp)
        /\ \A o \in Owner : o # current => context'[o] = context[o]
    BY <1>1, <1>2, <1>3, <1>4
  <1> DEFINE popped == stack[next][context[next].depth]
  <1>7. /\ at' = popped.rip /\ interrupts' = popped.ifl
        /\ user' = IF popped.rip = "thread" THEN popped.user ELSE user
    BY <1>4, <1>5 DEF Perform, Waiting
  <1>8. CASE NewFrame(next)
    <2>1. at' = "thread" /\ user' = left[next] /\ interrupts' = FALSE
      BY <1>4, <1>7, <1>8, SMT DEF NewFrame, IInv, EntryTypeOK, StackFrame, Pointer
    <2>2. rsp' = [stack |-> next, depth |-> 0]
      BY <1>3, <1>4, <1>8, SMT DEF Waiting, NewFrame, Above
    <2>3. rsp' \in Pointer /\ rsp'.stack = next
      BY <2>2, SMT DEF Pointer
    <2> QED
      BY <1>2, <1>3, <1>6, <2>1, <2>3 DEF Switched
  <1>9. CASE SwitchedFrames(next)
    <2>1. at' = "dispatch" /\ user' = user /\ interrupts' = FALSE /\ EntryFrame(next)
      BY <1>4, <1>7, <1>9, SMT DEF SwitchedFrames, IInv, EntryTypeOK, StackFrame, Pointer
    <2>2. rsp' = [stack |-> next, depth |-> 1]
      BY <1>3, <1>4, <1>9, SMT DEF Waiting, SwitchedFrames, Above
    <2>3. rsp' \in Pointer /\ rsp'.stack = next /\ rsp'.depth = 1
      BY <2>2, SMT DEF Pointer
    <2> QED
      BY <1>2, <1>3, <1>6, <2>1, <2>3 DEF Switched
  <1> QED
    BY <1>4, <1>8, <1>9 DEF Waiting

\* After a switch everything but the tasks that wait is as it must be.
LEMMA SwitchedRuns ==
    ASSUME IInv, NEW next \in Task, MayRun(next), NEW pushed \in StackFrame, mode = "kernel",
           set_kernel_stack(next), current' = next, Switched(next, pushed),
           UNCHANGED <<mode, gs, kernel_gs, user_rsp_scratch, left>>,
           status' \in [Task -> {"none", "live", "dead"}], status'[next] = status[next]
    PROVE  /\ EntryTypeOK' /\ GsMatchesMode' /\ KernelRunsMasked' /\ StackOK' /\ CodeOK' /\ CurrentOK'
           /\ \A o \in Task : o # current /\ status[o] = "live" => Waiting(o)'
  <1>1. user' \in UserState /\ next # current /\ status[next] = "live"
    BY SMT DEF IInv, EntryTypeOK, Switched, MayRun
  <1>2. EntryTypeOK'
    BY <1>1 DEF IInv, EntryTypeOK, Switched, set_kernel_stack, Where
  <1>3. GsMatchesMode' /\ KernelRunsMasked' /\ StackOK' /\ CurrentOK'
    BY <1>1 DEF IInv, GsMatchesMode, KernelRunsMasked, StackOK, CurrentOK, Switched, set_kernel_stack
  <1>4. CodeOK'
    <2>1. stack'[next] = stack[next]
      BY <1>1 DEF Switched
    <2> QED
      BY <2>1 DEF CodeOK, BootOK, DispatchOK, HandlerOK, ExitingOK, ThreadOK, EntryFrame, Switched
  <1>5. ASSUME NEW o \in Task, o # current, status[o] = "live"
        PROVE  Waiting(o)'
    <2>1. stack'[o] = stack[o] /\ context'[o] = context[o] /\ left'[o] = left[o] /\ Waiting(o)
      BY <1>5 DEF IInv, WaitingOK, Switched
    <2> QED
      BY <2>1, WaitingUnchanged
  <1> QED
    BY <1>2, <1>3, <1>4, <1>5

\* A task that yields or blocks waits with the frame of its switch on its stack.
LEMMA SwitchAwayStep ==
    ASSUME IInv, NEW next \in Task, SwitchAway(next)
    PROVE  IInv'
  <1> DEFINE pushed == [rip |-> at, user |-> user, ifl |-> interrupts]
  <1>1. mode = "kernel" /\ at = "dispatch" /\ MayRun(next) /\ Perform(next, pushed)
        /\ UNCHANGED <<mode, gs, kernel_gs, user_rsp_scratch, status, left>>
    BY DEF SwitchAway
  <1>2. pushed \in StackFrame /\ pushed.rip = "dispatch" /\ ~pushed.ifl
    BY <1>1 DEF IInv, EntryTypeOK, StackFrame, KernelRunsMasked
  <1> HIDE DEF pushed
  <1>3. Switched(next, pushed)
    BY <1>1, <1>2, PerformSwitches
  <1>4. set_kernel_stack(next) /\ current' = next
    BY <1>1 DEF Perform
  <1>5. status' \in [Task -> {"none", "live", "dead"}] /\ status' = status
    BY <1>1 DEF IInv, EntryTypeOK
  <1>6. /\ EntryTypeOK' /\ GsMatchesMode' /\ KernelRunsMasked' /\ StackOK' /\ CodeOK' /\ CurrentOK'
        /\ \A o \in Task : o # current /\ status[o] = "live" => Waiting(o)'
    BY <1>1, <1>2, <1>3, <1>4, <1>5, SwitchedRuns
  <1>7. ASSUME NEW t \in Task, t = current
        PROVE  Waiting(t)'
    <2>1. rsp \in Pointer /\ rsp.stack = current /\ rsp.depth = 1 /\ EntryFrame(current)
      BY <1>1 DEF IInv, EntryTypeOK, StackOK, CodeOK, DispatchOK
    <2>2. context'[t].stack = t /\ context'[t].depth = 2
      BY <1>3, <1>7, <2>1, SMT DEF Switched, Below
    <2>3. /\ stack'[t][1] = stack[t][1] /\ stack'[t][2] = pushed
          /\ left'[t] = left[t]
      BY <1>1, <1>3, <1>7, <2>1 DEF Switched
    <2> QED
      BY <1>2, <1>7, <2>1, <2>2, <2>3 DEF Waiting, SwitchedFrames, EntryFrame
  <1>8. WaitingOK'
    BY <1>5, <1>6, <1>7 DEF WaitingOK
  <1> QED
    BY <1>6, <1>8 DEF IInv

\* A task that exits never waits again.
LEMMA ExitCurrentStep ==
    ASSUME IInv, NEW next \in Task, exit_current(next)
    PROVE  IInv'
  <1> DEFINE pushed == [rip |-> "dead", user |-> user, ifl |-> FALSE]
  <1>1. mode = "kernel" /\ at \in {"dispatch", "exiting"} /\ MayRun(next) /\ Perform(next, pushed)
        /\ UNCHANGED <<mode, gs, kernel_gs, user_rsp_scratch, left>>
        /\ status' = [status EXCEPT ![current] = "dead"]
    BY DEF exit_current
  <1>2. pushed \in StackFrame
    BY DEF IInv, EntryTypeOK, StackFrame, Where
  <1> HIDE DEF pushed
  <1>3. Switched(next, pushed)
    BY <1>1, <1>2, PerformSwitches
  <1>4. set_kernel_stack(next) /\ current' = next /\ next # current
    BY <1>1 DEF Perform, MayRun
  <1>5. /\ status' \in [Task -> {"none", "live", "dead"}]
        /\ status'[next] = status[next]
        /\ \A o \in Task : status'[o] = IF o = current THEN "dead" ELSE status[o]
    BY <1>1, <1>4 DEF IInv, EntryTypeOK
  <1>6. /\ EntryTypeOK' /\ GsMatchesMode' /\ KernelRunsMasked' /\ StackOK' /\ CodeOK' /\ CurrentOK'
        /\ \A o \in Task : o # current /\ status[o] = "live" => Waiting(o)'
    BY <1>1, <1>2, <1>3, <1>4, <1>5, SwitchedRuns
  <1>7. WaitingOK'
    BY <1>5, <1>6 DEF WaitingOK
  <1> QED
    BY <1>6, <1>7 DEF IInv

\* The boot path is no task and is left for good.
LEMMA StartStep ==
    ASSUME IInv, NEW next \in Task, start(next)
    PROVE  IInv'
  <1> DEFINE pushed == [rip |-> "dead", user |-> user, ifl |-> FALSE]
  <1>1. mode = "kernel" /\ at = "spawning" /\ MayRun(next) /\ Perform(next, pushed)
        /\ UNCHANGED <<mode, gs, kernel_gs, user_rsp_scratch, status, left>>
    BY DEF start
  <1>2. pushed \in StackFrame /\ current = Boot
    BY <1>1 DEF IInv, EntryTypeOK, StackFrame, Where, CodeOK, BootOK
  <1> HIDE DEF pushed
  <1>3. Switched(next, pushed)
    BY <1>1, <1>2, PerformSwitches
  <1>4. set_kernel_stack(next) /\ current' = next
    BY <1>1 DEF Perform
  <1>5. status' \in [Task -> {"none", "live", "dead"}] /\ status' = status
    BY <1>1 DEF IInv, EntryTypeOK
  <1>6. /\ EntryTypeOK' /\ GsMatchesMode' /\ KernelRunsMasked' /\ StackOK' /\ CodeOK' /\ CurrentOK'
        /\ \A o \in Task : o # current /\ status[o] = "live" => Waiting(o)'
    BY <1>1, <1>2, <1>3, <1>4, <1>5, SwitchedRuns
  <1>7. WaitingOK'
    BY <1>2, <1>5, <1>6 DEF WaitingOK, EntryAssumption
  <1> QED
    BY <1>6, <1>7 DEF IInv

\* A new thread enters user mode with what it was created with.
LEMMA EnterUserStep ==
    ASSUME IInv, enter_user
    PROVE  IInv' /\ user' = left[current]
  <1>1. EntryTypeOK'
    BY DEF IInv, EntryTypeOK, switching, enter_user, Where
  <1>2. WaitingOK'
    BY DEF IInv, WaitingOK, Waiting, NewFrame, SwitchedFrames, EntryFrame, switching, enter_user
  <1>3. GsMatchesMode' /\ KernelRunsMasked' /\ StackOK' /\ CodeOK' /\ CurrentOK'
    BY DEF IInv, GsMatchesMode, KernelRunsMasked, StackOK, CodeOK, CurrentOK, ThreadOK, switching,
           enter_user
  <1>4. user' = left[current]
    BY DEF IInv, CodeOK, ThreadOK, enter_user
  <1> QED
    BY <1>1, <1>2, <1>3, <1>4 DEF IInv

-----------------------------------------------------------------------------
\* Every step keeps the invariant, and one that leads to user mode restores the task.
LEMMA IInvStep ==
    ASSUME IInv, [EntryNext]_entryVars
    PROVE  IInv' /\ (mode = "kernel" /\ mode' = "user" => user' = left[current])
  <1>1. CASE CalibrationOpens \/ CalibrationCloses \/ BootPanics \/ KernelException \/ NobodyReady
    BY <1>1, BootStep DEF CalibrationOpens, CalibrationCloses, BootPanics, KernelException, NobodyReady
  <1>2. CASE \E t \in Task, u \in UserState : NewThread(t, u)
    BY <1>2, NewThreadStep DEF NewThread
  <1>3. CASE UserStep
    BY <1>3, UserStepStep DEF UserStep
  <1>4. CASE syscall_entry
    BY <1>4, SyscallEntryStep DEF syscall_entry
  <1>5. CASE syscall_return
    BY <1>5, SyscallReturnStep
  <1>6. CASE ApicInterrupt
    BY <1>6, UserInterruptStep, KernelInterruptStep DEF ApicInterrupt, InterruptEntry
  <1>7. CASE InterruptReturn
    BY <1>7, InterruptReturnStep
  <1>8. CASE UserException
    BY <1>8, UserInterruptStep DEF UserException, InterruptEntry
  <1>9. ASSUME NEW t \in Task, SwitchAway(t) \/ exit_current(t) \/ start(t)
        PROVE  IInv' /\ mode' = mode
    BY <1>9, SwitchAwayStep, ExitCurrentStep, StartStep DEF SwitchAway, exit_current, start
  <1>10. CASE enter_user
    BY <1>10, EnterUserStep
  <1>11. CASE UNCHANGED entryVars
    <2>1. WaitingOK'
      BY <1>11 DEF entryVars, switching, IInv, WaitingOK, Waiting, NewFrame, SwitchedFrames, EntryFrame
    <2>2. EntryTypeOK'
      BY <1>11 DEF entryVars, switching, IInv, EntryTypeOK
    <2>3. GsMatchesMode' /\ KernelRunsMasked' /\ StackOK' /\ CodeOK' /\ CurrentOK' /\ mode' = mode
      BY <1>11 DEF entryVars, switching, IInv, GsMatchesMode, KernelRunsMasked, StackOK, CodeOK, CurrentOK,
                   BootOK, DispatchOK, HandlerOK, ExitingOK, ThreadOK, EntryFrame
    <2> QED
      BY <2>1, <2>2, <2>3 DEF IInv
  <1>12. CASE hcf
    BY <1>11, <1>12 DEF hcf
  <1> QED
    BY <1>1, <1>2, <1>3, <1>4, <1>5, <1>6, <1>7, <1>8, <1>9, <1>10, <1>11, <1>12 DEF EntryNext

\* The inductive invariant holds in every state the kernel reaches.
LEMMA IInvHolds == EntrySpec => []IInv
  <1>1. IInv /\ [EntryNext]_entryVars => IInv'
    BY IInvStep
  <1> QED
    BY IInvInit, <1>1, PTL DEF EntrySpec

\* swapgs of syscall.rs, idt.rs and enter_user pairs up on every path: in the kernel
\* GS is CpuLocal's, in user mode it is the program's.
THEOREM GsFollowsMode == EntrySpec => []GsMatchesMode
  BY IInvHolds, PTL DEF IInv

\* The kernel runs with interrupts off except in the calibration, whatever flag
\* another task has saved.
THEOREM KernelIsMasked == EntrySpec => []KernelRunsMasked
  BY IInvHolds, PTL DEF IInv

\* A task comes back to user mode with the registers it left it with, whatever was
\* interrupted, switched, created or ended between.
THEOREM TasksResume == EntrySpec => ResumesWhereItLeft
  <1>1. IInv /\ [EntryNext]_entryVars => [mode = "kernel" /\ mode' = "user" => user' = left[current]]_entryVars
    BY IInvStep
  <1> QED
    BY IInvHolds, <1>1, PTL DEF EntrySpec, ResumesWhereItLeft

-----------------------------------------------------------------------------
(***************************************************************************)
(* ReadyQueue.                                                             *)
(***************************************************************************)

USE SlotsAssumption

\* Slot(i) is an index of the array: an index less than two laps ahead wraps
\* at most once.
LEMMA SlotProperties ==
    ASSUME ReadyTypeOK, NEW i \in 0..MAX_TASKS
    PROVE  /\ Slot(i) = IF head + i < MAX_TASKS
                        THEN head + i ELSE head + i - MAX_TASKS
           /\ Slot(i) \in Slots
  BY SMT DEF ReadyTypeOK, Slots, Slot

\* Places less than a lap apart have different slots.
LEMMA SlotInjective ==
    ASSUME ReadyTypeOK, NEW i \in Slots, NEW j \in Slots, Slot(i) = Slot(j)
    PROVE  i = j
  <1>1. i \in 0..MAX_TASKS /\ j \in 0..MAX_TASKS
    BY SMT DEF Slots
  <1>2. /\ Slot(i) = IF head + i < MAX_TASKS
                     THEN head + i ELSE head + i - MAX_TASKS
        /\ Slot(j) = IF head + j < MAX_TASKS
                     THEN head + j ELSE head + j - MAX_TASKS
    BY <1>1, SlotProperties
  <1>3. (IF head + i < MAX_TASKS THEN head + i ELSE head + i - MAX_TASKS)
            = (IF head + j < MAX_TASKS THEN head + j ELSE head + j - MAX_TASKS)
    BY <1>2
  <1>4. head \in 0..(MAX_TASKS - 1) /\ i \in 0..(MAX_TASKS - 1) /\ j \in 0..(MAX_TASKS - 1)
    BY DEF ReadyTypeOK, Slots
  <1> QED
    BY ONLY <1>3, <1>4, SlotsAssumption, SMT

\* What Contents is, as a sequence.
ContentsFacts ==
    /\ Contents \in Seq(TaskId)
    /\ Len(Contents) = len
    /\ DOMAIN Contents = 1..len
    /\ \A k \in 1..len : Contents[k] = entries[Slot(k - 1)]

LEMMA ContentsType == ReadyTypeOK => ContentsFacts
  <1> SUFFICES ASSUME ReadyTypeOK
               PROVE  ContentsFacts
    OBVIOUS
  <1>1. \A k \in 1..len : entries[Slot(k - 1)] \in TaskId
    BY SlotProperties, SMT DEF ReadyTypeOK
  <1> QED
    BY <1>1, SMT DEF ReadyTypeOK, Contents, ContentsFacts

LEMMA ContentsTypePrime == ReadyTypeOK' => ContentsFacts'
  BY ContentsType, PTL

\* Every operation keeps the array, the index and the count in bounds.
LEMMA ReadyTypeOKStep == ReadyTypeOK /\ [ReadyNext]_readyVars => ReadyTypeOK'
  <1> SUFFICES ASSUME ReadyTypeOK, [ReadyNext]_readyVars
               PROVE  ReadyTypeOK'
    OBVIOUS
  <1>1. ASSUME NEW task \in TaskId, push_back(task)
        PROVE  ReadyTypeOK'
    BY <1>1, SMT DEF push_back, ReadyTypeOK, Slots
  <1>2. CASE pop_front
    <2>1. CASE len = 0
      BY <1>2, <2>1 DEF pop_front, ReadyTypeOK
    <2>2. CASE len # 0
      <3>1. (head + 1) % MAX_TASKS \in Slots
        BY SMT DEF ReadyTypeOK, Slots
      <3> QED
        BY <1>2, <2>2, <3>1, SMT DEF pop_front, ReadyTypeOK
    <2> QED
      BY <2>1, <2>2
  <1>3. ASSUME NEW task \in TaskId, remove(task)
        PROVE  ReadyTypeOK'
    <2>1. \A i \in 0..(len - 1) : ShiftedFrom(i) \in [Slots -> TaskId]
      <3> SUFFICES ASSUME NEW i \in 0..(len - 1), NEW s \in Slots,
                          \E j \in i..(len - 2) : s = Slot(j)
                   PROVE  entries[Slot((CHOOSE j \in i..(len - 2) : s = Slot(j)) + 1)]
                              \in TaskId
        BY DEF ShiftedFrom, ReadyTypeOK
      <3> DEFINE c == CHOOSE j \in i..(len - 2) : s = Slot(j)
      <3>1. c \in i..(len - 2)
        OBVIOUS
      <3>2. Slot(c + 1) \in Slots
        BY <3>1, SlotProperties, SMT DEF ReadyTypeOK
      <3> QED
        BY <3>2 DEF ReadyTypeOK
    <2> QED
      BY <1>3, <2>1, SMT DEF remove, ReadyTypeOK
  <1>4. CASE UNCHANGED readyVars
    BY <1>4 DEF readyVars, ReadyTypeOK
  <1> QED
    BY <1>1, <1>2, <1>3, <1>4 DEF ReadyNext

\* The ring never leaves its bounds: `head` stays an index of the array and
\* `len` never exceeds the number of slots (scheduler.rs, ReadyQueue).
THEOREM ReadyTypeInvariant == ReadySpec => []ReadyTypeOK
  <1>1. ReadyInit => ReadyTypeOK
    BY SMT DEF ReadyInit, ReadyTypeOK, Slots
  <1> QED
    BY <1>1, ReadyTypeOKStep, PTL DEF ReadySpec

-----------------------------------------------------------------------------
LEMMA PushRefines ==
    ASSUME ReadyTypeOK, ReadyTypeOK', NEW task \in TaskId, push_back(task)
    PROVE  ReadyFifo!Push(task)
  <1>1. CASE len = MAX_TASKS
    <2>1. ret' = "false" /\ UNCHANGED <<entries, head, len>>
      BY <1>1 DEF push_back, ReadyTypeOK
    <2>2. UNCHANGED Contents
      BY <2>1 DEF Contents, Slot
    <2> QED
      BY <1>1, <2>1, <2>2, ContentsType DEF ContentsFacts, ReadyFifo!Push
  <1>2. CASE len # MAX_TASKS
    <2>1. /\ entries' = [entries EXCEPT ![Slot(len)] = task]
          /\ len' = len + 1 /\ ret' = "true" /\ head' = head
      BY <1>2 DEF push_back
    <2>2. /\ Contents' \in Seq(TaskId)
          /\ Len(Contents') = len'
          /\ \A k \in 1..len' : Contents'[k] = entries'[Slot(k - 1)]
      BY <2>1, ContentsTypePrime DEF ContentsFacts, Slot
    <2>3. ASSUME NEW k \in 1..(len + 1)
          PROVE  Contents'[k] = Append(Contents, task)[k]
      <3>1. CASE k = len + 1
        <4>1. Slot(len) \in Slots
          BY SlotProperties DEF ReadyTypeOK
        <4>2. Contents'[k] = task
          BY <2>1, <2>2, <3>1, <4>1, SMT DEF ReadyTypeOK
        <4> QED
          BY <4>2, <3>1, ContentsType, SMT DEF ContentsFacts
      <3>2. CASE k \in 1..len
        <4>1. k - 1 \in Slots /\ len \in Slots /\ k - 1 # len
          BY <1>2, <3>2, SMT DEF ReadyTypeOK, Slots
        <4>2. Slot(k - 1) # Slot(len)
          BY <4>1, SlotInjective
        <4>3. Contents'[k] = entries[Slot(k - 1)]
          BY <2>1, <2>2, <3>2, <4>2, SMT DEF ReadyTypeOK
        <4> QED
          BY <4>3, <3>2, ContentsType, SMT DEF ContentsFacts
      <3>3. k = len + 1 \/ k \in 1..len
        BY SMT DEF ReadyTypeOK
      <3> QED
        BY <3>1, <3>2, <3>3
    <2>4. Contents' = Append(Contents, task)
      <3>1. Append(Contents, task) \in Seq(TaskId) /\ Len(Append(Contents, task)) = len + 1
        BY ContentsType, SMT DEF ContentsFacts
      <3> QED
        BY <2>1, <2>2, <2>3, <3>1, SeqEqual
    <2> QED
      BY <1>2, <2>1, <2>4, ContentsType DEF ContentsFacts, ReadyFifo!Push
  <1> QED
    BY <1>1, <1>2

\* Moving the head one place shifts every place by one.
LEMMA SlotAfterPop ==
    ASSUME ReadyTypeOK, NEW i \in 0..(MAX_TASKS - 1), head' = (head + 1) % MAX_TASKS
    PROVE  Slot(i)' = Slot(i + 1)
  <1>1. head' = IF head + 1 < MAX_TASKS THEN head + 1 ELSE 0
    BY SMT DEF ReadyTypeOK, Slots
  <1>2. head' \in 0..(MAX_TASKS - 1)
    BY <1>1, SMT DEF ReadyTypeOK, Slots
  <1>3. (head' + i) % MAX_TASKS
            = IF head' + i < MAX_TASKS THEN head' + i ELSE head' + i - MAX_TASKS
    BY <1>2, SMT
  <1>4. Slot(i + 1) = IF head + (i + 1) < MAX_TASKS
                      THEN head + (i + 1) ELSE head + (i + 1) - MAX_TASKS
    BY SlotProperties, SMT
  <1> QED
    BY <1>1, <1>3, <1>4, SMT DEF ReadyTypeOK, Slots, Slot

LEMMA PopRefines ==
    ASSUME ReadyTypeOK, ReadyTypeOK', pop_front
    PROVE  ReadyFifo!Pop
  <1>1. CASE len = 0
    <2>1. ret' = None /\ UNCHANGED <<entries, head, len>>
      BY <1>1 DEF pop_front
    <2>2. UNCHANGED Contents
      BY <2>1 DEF Contents, Slot
    <2>3. Contents = <<>>
      BY <1>1, ContentsType, SMT DEF ContentsFacts
    <2> QED
      BY <2>1, <2>2, <2>3 DEF ReadyFifo!Pop, None, ReadyFifo!None
  <1>2. CASE len # 0
    <2>1. /\ ret' = entries[head] /\ entries' = entries
          /\ head' = (head + 1) % MAX_TASKS /\ len' = len - 1
      BY <1>2 DEF pop_front
    <2>2. /\ Contents' \in Seq(TaskId)
          /\ Len(Contents') = len - 1
          /\ \A k \in 1..(len - 1) : Contents'[k] = entries[Slot(k - 1)']
      BY <2>1, ContentsTypePrime DEF ContentsFacts
    <2>3. Contents # <<>> /\ Contents[1] = entries[head]
      <3>1. Slot(0) = head
        BY SlotProperties, SMT DEF ReadyTypeOK, Slots
      <3> QED
        BY <1>2, <3>1, ContentsType, SMT DEF ContentsFacts, ReadyTypeOK
    <2>4. /\ Tail(Contents) \in Seq(TaskId)
          /\ Len(Tail(Contents)) = len - 1
          /\ \A k \in 1..(len - 1) : Tail(Contents)[k] = Contents[k + 1]
      BY <2>3, ContentsType, HeadTailProperties, SMT DEF ContentsFacts
    <2>5. ASSUME NEW k \in 1..(len - 1)
          PROVE  Contents'[k] = Tail(Contents)[k]
      <3>1. k - 1 \in 0..(MAX_TASKS - 1) /\ k + 1 \in 1..len /\ (k - 1) + 1 = k
        BY SMT DEF ReadyTypeOK
      <3>2. Slot(k - 1)' = Slot(k)
        BY <2>1, <3>1, SlotAfterPop
      <3>3. Contents[k + 1] = entries[Slot(k)]
        BY <3>1, ContentsType, SMT DEF ContentsFacts
      <3> QED
        BY <2>2, <2>4, <3>2, <3>3
    <2>6. Contents' = Tail(Contents)
      BY <2>2, <2>4, <2>5, SeqEqual
    <2> QED
      BY <2>1, <2>3, <2>6 DEF ReadyFifo!Pop
  <1> QED
    BY <1>1, <1>2

LEMMA RemoveRefines ==
    ASSUME ReadyTypeOK, ReadyTypeOK', NEW task \in TaskId, remove(task)
    PROVE  ReadyFifo!Remove(task)
  <1>1. ASSUME NEW i \in 0..(len - 1), FoundAt(task, i), entries' = ShiftedFrom(i),
               len' = len - 1, ret' = "true", UNCHANGED head
        PROVE  ReadyFifo!Remove(task)
    <2>1. i + 1 \in 1..Len(Contents) /\ ReadyFifo!IsFirst(Contents, task, i + 1)
      <3>1. i + 1 \in 1..Len(Contents) /\ Len(Contents) = len /\ (i + 1) - 1 = i
        BY ContentsType, SMT DEF ContentsFacts, ReadyTypeOK
      <3>2. \A k \in 1..(i + 1) : k - 1 \in 0..i /\ Contents[k] = entries[Slot(k - 1)]
        BY <3>1, ContentsType, SMT DEF ContentsFacts, ReadyTypeOK
      <3>3. Contents[i + 1] = task
        BY <1>1, <3>1, <3>2, SMT DEF FoundAt
      <3>4. ASSUME NEW k \in 1..i
            PROVE  Contents[k] # task
        <4>1. k - 1 \in 0..(i - 1)
          BY SMT
        <4> QED
          BY <1>1, <3>2, <4>1, SMT DEF FoundAt
      <3> QED
        BY <3>1, <3>3, <3>4 DEF ReadyFifo!IsFirst
    <2> DEFINE W == ReadyFifo!WithoutIndex(Contents, i + 1)
    <2>2. /\ Contents' \in Seq(TaskId)
          /\ Len(Contents') = len - 1
          /\ \A k \in 1..(len - 1) : Contents'[k] = entries'[Slot(k - 1)]
      BY <1>1, ContentsTypePrime DEF ContentsFacts, Slot
    <2>3. /\ W \in Seq(TaskId)
          /\ Len(W) = len - 1
          /\ \A k \in 1..(len - 1) :
                W[k] = IF k < i + 1 THEN Contents[k] ELSE Contents[k + 1]
      BY ContentsType, SMT DEF ContentsFacts, ReadyFifo!WithoutIndex, ReadyTypeOK
    <2>4. ASSUME NEW k \in 1..(len - 1)
          PROVE  Contents'[k] = W[k]
      <3>1. /\ k - 1 \in Slots /\ k \in Slots /\ Slot(k - 1) \in Slots
            /\ Contents[k] = entries[Slot(k - 1)]
            /\ Contents[k + 1] = entries[Slot(k)]
        <4>1. len \in 0..MAX_TASKS
          BY DEF ReadyTypeOK
        <4>2. k - 1 \in 0..(MAX_TASKS - 1) /\ k \in 0..(MAX_TASKS - 1) /\ k \in 1..len /\ k + 1 \in 1..len /\ k + 1 - 1 = k
          BY <4>1, SMT
        <4>3. k - 1 \in 0..MAX_TASKS
          BY <4>2, SMT
        <4>4. Slot(k - 1) \in Slots
          BY <4>3, SlotProperties
        <4>5. \A j \in 1..len : Contents[j] = entries[Slot(j - 1)]
          BY ContentsType DEF ContentsFacts
        <4>6. Contents[k] = entries[Slot(k - 1)] /\ Contents[k + 1] = entries[Slot(k + 1 - 1)]
          BY <4>2, <4>5, SMT
        <4> QED
          BY <4>2, <4>4, <4>6 DEF Slots
      <3>2. CASE k < i + 1
        <4>1. ~ \E j \in i..(len - 2) : Slot(k - 1) = Slot(j)
          BY <3>1, <3>2, SlotInjective, SMT DEF Slots, ReadyTypeOK
        <4> QED
          BY <1>1, <2>2, <2>3, <3>1, <3>2, <4>1 DEF ShiftedFrom
      <3>3. CASE ~(k < i + 1)
        <4>1. k - 1 \in i..(len - 2)
          BY <3>3, SMT DEF ReadyTypeOK
        <4> DEFINE c == CHOOSE j \in i..(len - 2) : Slot(k - 1) = Slot(j)
        <4>2. c \in i..(len - 2) /\ Slot(k - 1) = Slot(c)
          BY <4>1
        <4>3. c = k - 1
          BY <3>1, <4>2, SlotInjective, SMT DEF Slots, ReadyTypeOK
        <4>4. entries'[Slot(k - 1)] = entries[Slot(c + 1)]
          BY <1>1, <3>1, <4>1 DEF ShiftedFrom
        <4> HIDE DEF c, W
        <4>5. c + 1 = k
          BY <4>3, SMT
        <4>6. Contents'[k] = entries[Slot(k)]
          BY <2>2, <4>4, <4>5
        <4>7. W[k] = Contents[k + 1]
          BY <2>3, <3>3
        <4> QED
          BY <3>1, <4>6, <4>7
      <3> QED
        BY <3>2, <3>3
    <2>5. Contents' = W
      BY <2>2, <2>3, <2>4, SeqEqual
    <2> QED
      BY <1>1, <2>1, <2>5 DEF ReadyFifo!Remove
  <1>2. ASSUME \A i \in 0..(len - 1) : entries[Slot(i)] # task,
               ret' = "false", UNCHANGED <<entries, head, len>>
        PROVE  ReadyFifo!Remove(task)
    <2>1. UNCHANGED Contents
      BY <1>2 DEF Contents, Slot
    <2>2. \A k \in 1..Len(Contents) : Contents[k] # task
      BY <1>2, ContentsType, SMT DEF ContentsFacts, ReadyTypeOK
    <2> QED
      BY <1>2, <2>1, <2>2 DEF ReadyFifo!Remove
  <1> QED
    BY <1>1, <1>2 DEF remove

\* ReadyQueue implements a bounded FIFO queue, for every number of slots and
\* every set of identifiers (scheduler.rs, push_back, pop_front and remove).
THEOREM ReadyQueueImplementsFifo == ReadySpec => ImplementsFifo
  <1>1. ReadyInit => ReadyFifo!Init
    <2> SUFFICES ASSUME ReadyInit
                 PROVE  ReadyFifo!Init
      OBVIOUS
    <2>1. ReadyTypeOK /\ len = 0 /\ ret = None
      BY SMT DEF ReadyInit, ReadyTypeOK, Slots
    <2>2. Contents = <<>>
      BY <2>1, ContentsType, SMT DEF ContentsFacts
    <2> QED
      BY <2>1, <2>2 DEF ReadyFifo!Init, None, ReadyFifo!None
  <1>2. ReadyTypeOK /\ ReadyTypeOK' /\ [ReadyNext]_readyVars => [ReadyFifo!Next]_(ReadyFifo!vars)
    <2> SUFFICES ASSUME ReadyTypeOK, ReadyTypeOK', [ReadyNext]_readyVars
                 PROVE  [ReadyFifo!Next]_(ReadyFifo!vars)
      OBVIOUS
    <2>1. CASE UNCHANGED readyVars
      BY <2>1 DEF readyVars, ReadyFifo!vars, Contents, Slot
    <2> QED
      BY <2>1, PushRefines, PopRefines, RemoveRefines DEF ReadyNext, ReadyFifo!Next
  <1> QED
    BY <1>1, <1>2, ReadyTypeInvariant, PTL DEF ReadySpec, ImplementsFifo, ReadyFifo!Spec

HIDE EntryAssumption
HIDE DEF MAX_DEPTH, Owner

-----------------------------------------------------------------------------
(* Frames and bytes.                                                       *)

LEMMA Quotient ==
    ASSUME NEW a \in Nat, NEW d \in Nat \ {0}
    PROVE  /\ a \div d \in Nat
           /\ (a \div d) * d <= a
           /\ a < (a \div d) * d + d
  BY SMT

\* Products keep the order of frames.
LEMMA Monotone ==
    ASSUME NEW a \in Nat, NEW b \in Nat, NEW d \in Nat, a <= b
    PROVE  a * d <= b * d /\ a * d \in Nat /\ b * d \in Nat
  BY SMT

\* usable_frame_range only names frames that lie in the region to the last byte.
LEMMA RangeIsInside ==
    ASSUME NEW r \in MemoryRegion, NEW f \in usable_frame_range(r)
    PROVE  f \in Nat /\ Inside(f, r)
  <1> DEFINE d == FRAME_SIZE
             a == r.start + d - 1
             z == r.start + r.length
  <1>1. r.start \in Nat /\ r.length \in Nat /\ d \in Nat \ {0} /\ a \in Nat /\ z \in Nat
    BY SizesAssumption, SMT DEF MemoryRegion
  <1> DEFINE p == a \div d
             q == z \div d
  <1>2. p \in Nat /\ p * d <= a /\ a < p * d + d
    BY <1>1, Quotient
  <1>3. q \in Nat /\ q * d <= z
    BY <1>1, Quotient
  <1>4. f \in p..(q - 1)
    BY DEF usable_frame_range, FirstFrame, EndFrame
  <1> HIDE DEF p, q
  <1>5. f \in Nat /\ p <= f /\ f + 1 <= q /\ f + 1 \in Nat
    BY <1>2, <1>3, <1>4, SMT
  <1>6. p * d <= f * d /\ p * d \in Nat /\ f * d \in Nat
    BY <1>1, <1>2, <1>5, Monotone
  <1>7. (f + 1) * d <= q * d /\ (f + 1) * d \in Nat /\ q * d \in Nat
    BY <1>1, <1>3, <1>5, Monotone
  <1>8. r.start <= f * d
    BY <1>1, <1>2, <1>6, SMT
  <1>9. (f + 1) * d <= z
    BY <1>1, <1>3, <1>7, SMT
  <1> QED
    BY <1>5, <1>8, <1>9 DEF Inside

\* Regions that do not overlap share no frame.
LEMMA DisjointRanges ==
    ASSUME NEW r \in MemoryRegion, NEW s \in MemoryRegion, Disjoint(r, s),
           NEW f \in usable_frame_range(r)
    PROVE  f \notin usable_frame_range(s)
  <1> SUFFICES ASSUME f \in usable_frame_range(s)
               PROVE  FALSE
    OBVIOUS
  <1>1. f \in Nat /\ Inside(f, r) /\ Inside(f, s)
    BY RangeIsInside
  <1>2. f * FRAME_SIZE \in Nat /\ (f + 1) * FRAME_SIZE = f * FRAME_SIZE + FRAME_SIZE
    BY <1>1, SizesAssumption, SMT
  <1> QED
    BY <1>1, <1>2, SizesAssumption, SMT DEF Inside, Disjoint, MemoryRegion

-----------------------------------------------------------------------------
(* The inductive invariant.  The frames that are out are the allocated     *)
(* ones; the bitmap describes every region that may be reclaimed and lies  *)
(* in a usable one.                                                        *)

OwnedAreAllocated == owned = FramesIn({"Allocated"})

BeforeNew ==
    phase # "running" => frame_count = 0 /\ reclaimed = {} /\ free_frames = 0
                         /\ allocatable_frames = 0 /\ result = NoAnswer

BitmapDescribes ==
    phase = "running" =>
        \A i \in DOMAIN memory_map : should_track(memory_map[i].kind) =>
            usable_frame_range(memory_map[i]) \subseteq 0..(frame_count - 1)

StorageIsUsable ==
    phase = "running" =>
        \E i \in DOMAIN memory_map :
            /\ memory_map[i].kind = "Usable"
            /\ storage \subseteq usable_frame_range(memory_map[i])

ReclaimedKinds == reclaimed \subseteq {"BootloaderReclaimable", "AcpiReclaimable"}

FramesIInv ==
    /\ TypeOK
    /\ CountsMatchBitmap
    /\ OnlyUsableMemory
    /\ NoPanic
    /\ OwnedAreAllocated
    /\ BeforeNew
    /\ BitmapDescribes
    /\ StorageIsUsable
    /\ ReclaimedKinds

LEMMA MapFacts ==
    ASSUME TypeOK, NEW i \in DOMAIN memory_map
    PROVE  /\ memory_map[i] \in MemoryRegion
           /\ \A j \in DOMAIN memory_map :
                 i # j /\ memory_map[i].kind \in {"Usable", "BootloaderReclaimable"}
                     => Disjoint(memory_map[i], memory_map[j])
  BY MemoryMapsAssumption, SMT DEF TypeOK

\* All sets of frames are finite.
LEMMA FiniteFrames ==
    ASSUME TypeOK, NEW S, S \subseteq 0..(frame_count - 1)
    PROVE  IsFiniteSet(S) /\ Cardinality(S) \in Nat
  <1>1. IsFiniteSet(0..(frame_count - 1))
    BY FS_Interval, SMT DEF TypeOK
  <1>2. IsFiniteSet(S)
    BY <1>1, FS_Subset, Zenon
  <1> QED
    BY <1>2, FS_CardinalityType

LEMMA FramesInit == Init => FramesIInv
  <1> SUFFICES ASSUME Init
               PROVE  FramesIInv
    OBVIOUS
  <1>1. TypeOK
    BY SMT DEF Init, TypeOK
  <1>2. \A s : FramesIn(s) = {}
    BY DEF Init, FramesIn
  <1>3. CountsMatchBitmap /\ OnlyUsableMemory /\ OwnedAreAllocated
    BY <1>2, FS_EmptySet, Zenon DEF Init, CountsMatchBitmap, OnlyUsableMemory, OwnedAreAllocated
  <1> QED
    BY <1>1, <1>3 DEF Init, FramesIInv, NoPanic, BeforeNew, BitmapDescribes,
                     StorageIsUsable, ReclaimedKinds

-----------------------------------------------------------------------------
(* FrameAllocator::new.                                                    *)

\* Counting the calls of set_state counts frames: no frame is marked twice.
LEMMA CallsAreFrames ==
    ASSUME TypeOK, NEW stored, NEW n \in Nat, NEW F,
           F = {f \in 0..(n - 1) : \E c \in InitiallyFree(memory_map, stored) : c[2] = f},
           \A c \in InitiallyFree(memory_map, stored) : c[2] \in 0..(n - 1)
    PROVE  Cardinality(InitiallyFree(memory_map, stored)) = Cardinality(F)
  <1> DEFINE C == InitiallyFree(memory_map, stored)
             h == [c \in C |-> c[2]]
  <1>1. \A c \in C : \E i \in DOMAIN memory_map : \E f \in usable_frame_range(memory_map[i]) :
            memory_map[i].kind = "Usable" /\ c = <<i, f>>
    BY DEF InitiallyFree, is_initially_free
  <1>2. ASSUME NEW c \in C, NEW e \in C, c[2] = e[2]
        PROVE  c = e
    <2>1. PICK i \in DOMAIN memory_map, f \in Int :
              /\ memory_map[i].kind = "Usable" /\ c = <<i, f>>
              /\ f \in usable_frame_range(memory_map[i])
      BY <1>1, MapFacts, RangeIsInside, SMT
    <2>2. PICK j \in DOMAIN memory_map, g \in Int :
              /\ memory_map[j].kind = "Usable" /\ e = <<j, g>>
              /\ g \in usable_frame_range(memory_map[j])
      BY <1>1, MapFacts, RangeIsInside, SMT
    <2>3. f = g
      BY <1>2, <2>1, <2>2
    <2>4. i = j
      <3>1. SUFFICES ASSUME i # j PROVE FALSE
        OBVIOUS
      <3>2. Disjoint(memory_map[i], memory_map[j])
        BY <2>1, <3>1, MapFacts
      <3> QED
        BY <2>1, <2>2, <2>3, <3>2, MapFacts, DisjointRanges
    <2> QED
      BY <2>1, <2>2, <2>3, <2>4
  <1>3. h \in Injection(C, F)
    <2>1. h \in [C -> F]
      OBVIOUS
    <2>2. IsInjective(h)
      BY <1>2 DEF IsInjective
    <2> QED
      BY <2>1, <2>2 DEF Injection
  <1>4. h \in Surjection(C, F)
    <2>1. h \in [C -> F] /\ \A f \in F : \E c \in C : h[c] = f
      OBVIOUS
    <2> QED
      BY <2>1 DEF Surjection
  <1>5. IsFiniteSet(F)
    <2>1. IsFiniteSet(0..(n - 1)) /\ F \in SUBSET (0..(n - 1))
      BY FS_Interval, SMT
    <2> QED
      BY ONLY <2>1, FS_Subset, Zenon
  <1> QED
    BY <1>3, <1>4, <1>5, FS_Injection

LEMMA FrameNumbers ==
    ASSUME NEW r \in MemoryRegion, NEW n \in Nat
    PROVE  FirstFrame(r) \in Nat /\ EndFrame(r) \in Nat /\ BitmapFrames(n) \in Nat
  <1>1. /\ r.start + FRAME_SIZE - 1 \in Nat /\ r.start + r.length \in Nat
        /\ (n + 3) \div 4 + FRAME_SIZE - 1 \in Nat /\ FRAME_SIZE \in Nat \ {0}
    BY SizesAssumption, SMT DEF MemoryRegion
  <1> QED
    BY <1>1, Quotient DEF FirstFrame, EndFrame, BitmapFrames

LEMMA NewFrames ==
    ASSUME FramesIInv, new
    PROVE  FramesIInv'
  <1>1. PICK n \in TrackedEnds(memory_map), k \in DOMAIN memory_map :
          /\ IsHighest(memory_map, n)
          /\ StoredIn(memory_map, k, n)
          /\ LET first == FirstFrame(memory_map[k])
                 stored == first..(first + BitmapFrames(n) - 1)
                 free == InitiallyFree(memory_map, stored)
             IN  /\ storage' = stored
                 /\ frame_count' = n
                 /\ frame' = [f \in 0..(n - 1) |->
                                IF \E c \in free : c[2] = f THEN "Free" ELSE "Reserved"]
                 /\ allocatable_frames' = Cardinality(free)
                 /\ free_frames' = Cardinality(free)
                 /\ next_search' = first + BitmapFrames(n)
    BY DEF new
  <1> DEFINE first == FirstFrame(memory_map[k])
             size == BitmapFrames(n)
             stored == first..(first + size - 1)
             free == InitiallyFree(memory_map, stored)
  <1>2. /\ phase = "boot" /\ phase' = "running" /\ memory_map' = memory_map
        /\ owned' = owned /\ reclaimed' = reclaimed
    BY DEF new
  <1>3. /\ TypeOK /\ owned = {} /\ reclaimed = {}
    <2>1. frame_count = 0 /\ TypeOK /\ reclaimed = {}
      BY <1>2 DEF FramesIInv, BeforeNew
    <2> QED
      BY <2>1, SMT DEF TypeOK
  <1>4. \A i \in DOMAIN memory_map :
            /\ memory_map[i] \in MemoryRegion
            /\ FirstFrame(memory_map[i]) \in Nat /\ EndFrame(memory_map[i]) \in Nat
    BY <1>3, MapFacts, FrameNumbers
  <1>5. n \in Nat
    BY <1>4 DEF TrackedEnds
  <1>6. size \in Nat
    BY <1>4, <1>5, FrameNumbers
  <1>7. ASSUME NEW i \in DOMAIN memory_map, should_track(memory_map[i].kind)
        PROVE  usable_frame_range(memory_map[i]) \subseteq 0..(n - 1)
    <2>1. CASE FirstFrame(memory_map[i]) < EndFrame(memory_map[i])
      <3>1. EndFrame(memory_map[i]) <= n
        BY <1>1, <1>7, <2>1 DEF IsHighest, TrackedEnds
      <3> QED
        BY <1>4, <1>5, <3>1, SMT DEF usable_frame_range
    <2> QED
      BY <1>4, <2>1, SMT DEF usable_frame_range
  <1>8. /\ memory_map[k].kind = "Usable"
        /\ first < EndFrame(memory_map[k]) /\ size <= EndFrame(memory_map[k]) - first
    BY <1>1 DEF StoredIn, CanStore, can_store_bitmap
  <1>9. EndFrame(memory_map[k]) <= n
    BY <1>1, <1>8 DEF IsHighest, TrackedEnds, should_track
  <1>10. first + size \in 0..n /\ stored \subseteq usable_frame_range(memory_map[k])
    BY <1>4, <1>5, <1>6, <1>8, <1>9, SMT DEF usable_frame_range
  <1>11. /\ storage' = stored /\ frame_count' = n /\ next_search' = first + size
         /\ frame' = [f \in 0..(n - 1) |->
                         IF \E c \in free : c[2] = f THEN "Free" ELSE "Reserved"]
         /\ allocatable_frames' = Cardinality(free) /\ free_frames' = Cardinality(free)
    BY <1>1
  <1>12. \A c \in free : \E i \in DOMAIN memory_map :
            /\ memory_map[i].kind = "Usable"
            /\ c[2] \in usable_frame_range(memory_map[i]) /\ c[2] \notin stored
    BY SMT DEF InitiallyFree, is_initially_free
  <1> HIDE DEF first, size, stored, free
  <1>13. TypeOK'
    BY <1>2, <1>3, <1>5, <1>10, <1>11 DEF TypeOK
  <1>14. \A c \in free : c[2] \in 0..(n - 1)
    BY <1>7, <1>12 DEF should_track
  <1> DEFINE F == {f \in 0..(n - 1) : \E c \in free : c[2] = f}
  <1>15. Cardinality(free) = Cardinality(F)
    BY <1>3, <1>5, <1>14, CallsAreFrames DEF free
  <1>16. /\ FramesIn({"Free"})' = F /\ FramesIn({"Free", "Allocated"})' = F
         /\ FramesIn({"Allocated"})' = {}
    BY <1>11 DEF FramesIn
  <1>17. CountsMatchBitmap' /\ OwnedAreAllocated'
    BY <1>2, <1>3, <1>11, <1>15, <1>16, Zenon DEF CountsMatchBitmap, OwnedAreAllocated
  <1>18. OnlyUsableMemory'
    BY <1>2, <1>3, <1>4, <1>11, <1>12, <1>16, RangeIsInside, SMT DEF OnlyUsableMemory
  <1>19. BitmapDescribes' /\ StorageIsUsable'
    BY <1>2, <1>7, <1>8, <1>10, <1>11 DEF BitmapDescribes, StorageIsUsable
  <1> QED
    BY <1>2, <1>3, <1>13, <1>17, <1>18, <1>19
       DEF FramesIInv, NoPanic, BeforeNew, ReclaimedKinds

-----------------------------------------------------------------------------
(* Operations of the running allocator.                                    *)

\* Steps that change no frame and no part of the memory map.
LEMMA SameFrames ==
    ASSUME FramesIInv, phase' = phase \/ (phase = "boot" /\ phase' = "failed"),
           UNCHANGED <<memory_map, frame, frame_count, storage, next_search,
                       allocatable_frames, free_frames, owned, reclaimed>>,
           result' = result \/ (phase = "running" /\ phase' = "running")
    PROVE  FramesIInv'
  <1>1. TypeOK' /\ CountsMatchBitmap' /\ OwnedAreAllocated' /\ OnlyUsableMemory'
    BY DEF FramesIInv, TypeOK, CountsMatchBitmap, OwnedAreAllocated, OnlyUsableMemory,
           FramesIn
  <1>2. NoPanic' /\ BeforeNew' /\ ReclaimedKinds'
    BY DEF FramesIInv, NoPanic, BeforeNew, ReclaimedKinds
  <1>3. BitmapDescribes' /\ StorageIsUsable'
    BY DEF FramesIInv, BitmapDescribes, StorageIsUsable
  <1> QED
    BY <1>1, <1>2, <1>3 DEF FramesIInv

\* What find_free_frame finds is a free frame.
LEMMA FoundIsFree ==
    ASSUME FramesIInv, NEW f \in 0..(frame_count - 1), find_free_frame(f)
    PROVE  f \in FramesIn({"Free"}) /\ frame[f] = "Free"
  BY DEF FramesIInv, TypeOK, find_free_frame, FoundIn, FramesIn

LEMMA AllocFrames ==
    ASSUME FramesIInv, alloc
    PROVE  FramesIInv'
  <1>1. PICK f \in 0..(frame_count - 1) :
          /\ find_free_frame(f)
          /\ frame' = [frame EXCEPT ![f] = "Allocated"]
          /\ free_frames' = free_frames - 1
          /\ next_search' = f + 1
          /\ owned' = owned \cup {f}
    BY Zenon DEF alloc
  <1>2. /\ phase = "running"
        /\ UNCHANGED <<memory_map, phase, frame_count, storage, allocatable_frames, reclaimed>>
    BY DEF alloc
  <1>3. frame[f] = "Free" /\ f \in FramesIn({"Free"}) /\ TypeOK
    BY <1>1, FoundIsFree DEF FramesIInv
  <1>4. TypeOK'
    BY <1>1, <1>2, <1>3, SMT DEF TypeOK
  <1>5. /\ FramesIn({"Free"})' = FramesIn({"Free"}) \ {f}
        /\ FramesIn({"Allocated"})' = FramesIn({"Allocated"}) \cup {f}
        /\ FramesIn({"Free", "Allocated"})' = FramesIn({"Free", "Allocated"})
    BY <1>1, <1>3 DEF FramesIn, TypeOK
  <1>6. IsFiniteSet(FramesIn({"Free"}))
    BY <1>3, FiniteFrames DEF FramesIn, TypeOK
  <1>7. CountsMatchBitmap'
    BY <1>1, <1>2, <1>3, <1>5, <1>6, FS_RemoveElement DEF FramesIInv, CountsMatchBitmap
  <1>8. OwnedAreAllocated' /\ OnlyUsableMemory'
    BY <1>1, <1>2, <1>5 DEF FramesIInv, OwnedAreAllocated, OnlyUsableMemory
  <1> QED
    BY <1>2, <1>4, <1>7, <1>8 DEF FramesIInv, NoPanic, BeforeNew, BitmapDescribes,
                                 StorageIsUsable, ReclaimedKinds

LEMMA DeallocFrames ==
    ASSUME FramesIInv, NEW f \in owned, dealloc(f)
    PROVE  FramesIInv'
  <1>1. TypeOK /\ f \in 0..(frame_count - 1) /\ frame[f] = "Allocated"
    BY DEF FramesIInv, TypeOK, OwnedAreAllocated, FramesIn
  <1>2. /\ phase = "running" /\ phase' = phase
        /\ frame' = [frame EXCEPT ![f] = "Free"]
        /\ free_frames' = free_frames + 1
        /\ next_search' = Least(next_search, f)
        /\ owned' = owned \ {f}
        /\ UNCHANGED <<memory_map, frame_count, storage, allocatable_frames, reclaimed>>
    BY <1>1 DEF dealloc, TypeOK
  <1>3. TypeOK'
    BY <1>1, <1>2, SMT DEF TypeOK, Least
  <1>4. /\ FramesIn({"Free"})' = FramesIn({"Free"}) \cup {f}
        /\ FramesIn({"Allocated"})' = FramesIn({"Allocated"}) \ {f}
        /\ FramesIn({"Free", "Allocated"})' = FramesIn({"Free", "Allocated"})
    BY <1>1, <1>2 DEF FramesIn, TypeOK
  <1>5. IsFiniteSet(FramesIn({"Free"})) /\ f \notin FramesIn({"Free"})
    BY <1>1, FiniteFrames DEF FramesIn, TypeOK
  <1>6. CountsMatchBitmap'
    BY <1>2, <1>4, <1>5, FS_AddElement DEF FramesIInv, CountsMatchBitmap
  <1>7. OwnedAreAllocated' /\ OnlyUsableMemory'
    BY <1>2, <1>4 DEF FramesIInv, OwnedAreAllocated, OnlyUsableMemory
  <1> QED
    BY <1>2, <1>3, <1>6, <1>7 DEF FramesIInv, NoPanic, BeforeNew, BitmapDescribes,
                                 StorageIsUsable, ReclaimedKinds

\* Two disjoint sets of frames count together.
LEMMA CountUnion ==
    ASSUME NEW S, NEW T, IsFiniteSet(S), IsFiniteSet(T), S \cap T = {}
    PROVE  Cardinality(S \cup T) = Cardinality(S) + Cardinality(T)
  <1>1. Cardinality(S \cap T) = 0
    BY FS_EmptySet
  <1>2. Cardinality(S) \in Nat /\ Cardinality(T) \in Nat
    BY FS_CardinalityType
  <1>3. Cardinality(S \cup T) = Cardinality(S) + Cardinality(T) - Cardinality(S \cap T)
    BY FS_Union
  <1> QED
    BY <1>1, <1>2, <1>3, SMT

LEMMA ReclaimFrames ==
    ASSUME FramesIInv, NEW kind \in MemoryRegionKind, reclaim_regions(kind)
    PROVE  FramesIInv'
  <1> DEFINE R == Reclaimable(kind)
  <1>1. /\ phase = "running" /\ kind \in {"BootloaderReclaimable", "AcpiReclaimable"}
        /\ frame' = [f \in DOMAIN frame |-> IF f \in R THEN "Free" ELSE frame[f]]
        /\ allocatable_frames' = allocatable_frames + Cardinality(R)
        /\ free_frames' = free_frames + Cardinality(R)
        /\ next_search' \in R \cup {next_search}
        /\ reclaimed' = reclaimed \cup {kind}
        /\ UNCHANGED <<memory_map, frame_count, storage, owned>>
    BY DEF reclaim_regions
  <1>2. /\ TypeOK /\ DOMAIN frame = 0..(frame_count - 1)
        /\ \A f \in R : f \in 0..(frame_count - 1) /\ frame[f] = "Reserved"
        /\ \A f \in R : \E i \in DOMAIN memory_map :
              memory_map[i].kind = kind /\ f \in usable_frame_range(memory_map[i])
    BY DEF FramesIInv, TypeOK, Reclaimable
  <1> HIDE DEF R
  <1>3. phase' = phase
    BY <1>1, <1>2 DEF reclaim_regions, FramesIInv, BitmapDescribes, should_track
  <1>4. TypeOK'
    <2>1. frame' \in [0..(frame_count - 1) -> {"Reserved", "Free", "Allocated"}]
      BY <1>1, <1>2 DEF TypeOK
    <2>2. next_search' \in 0..frame_count
      BY <1>1, <1>2, SMT DEF TypeOK
    <2> QED
      BY <1>1, <1>2, <1>3, <2>1, <2>2 DEF TypeOK
  <1>5. /\ FramesIn({"Free"})' = FramesIn({"Free"}) \cup R
        /\ FramesIn({"Allocated"})' = FramesIn({"Allocated"})
        /\ FramesIn({"Free", "Allocated"})' = FramesIn({"Free", "Allocated"}) \cup R
    BY <1>1, <1>2 DEF FramesIn
  <1>6. /\ IsFiniteSet(FramesIn({"Free"})) /\ IsFiniteSet(R)
        /\ IsFiniteSet(FramesIn({"Free", "Allocated"}))
        /\ FramesIn({"Free"}) \cap R = {} /\ FramesIn({"Free", "Allocated"}) \cap R = {}
    BY <1>2, FiniteFrames DEF FramesIn
  <1>7. CountsMatchBitmap'
    BY <1>1, <1>5, <1>6, CountUnion DEF FramesIInv, CountsMatchBitmap
  <1>8. OwnedAreAllocated'
    BY <1>1, <1>5 DEF FramesIInv, OwnedAreAllocated
  <1>9. ASSUME NEW f \in R
        PROVE  /\ f \notin storage
               /\ \E i \in DOMAIN memory_map :
                     memory_map[i].kind = kind /\ Inside(f, memory_map[i])
    <2>1. PICK i \in DOMAIN memory_map :
              memory_map[i].kind = kind /\ f \in usable_frame_range(memory_map[i])
      BY <1>2
    <2>2. PICK j \in DOMAIN memory_map :
              /\ memory_map[j].kind = "Usable"
              /\ storage \subseteq usable_frame_range(memory_map[j])
      BY <1>1 DEF FramesIInv, StorageIsUsable
    <2>3. memory_map[i] \in MemoryRegion /\ memory_map[j] \in MemoryRegion
      BY <1>2, MapFacts
    <2>4. Disjoint(memory_map[j], memory_map[i])
      BY <1>1, <1>2, <2>1, <2>2, MapFacts
    <2>5. f \notin storage
      BY <2>1, <2>2, <2>3, <2>4, DisjointRanges
    <2> QED
      BY <2>1, <2>3, <2>5, RangeIsInside
  <1>10. OnlyUsableMemory'
    BY <1>1, <1>5, <1>9 DEF FramesIInv, OnlyUsableMemory
  <1> QED
    BY <1>1, <1>3, <1>4, <1>7, <1>8, <1>10
       DEF FramesIInv, NoPanic, BeforeNew, BitmapDescribes, StorageIsUsable, ReclaimedKinds

LEMMA FramesStep == FramesIInv /\ [Next]_vars => FramesIInv'
  <1> SUFFICES ASSUME FramesIInv, [Next]_vars
               PROVE  FramesIInv'
    OBVIOUS
  <1>1. CASE NewFails \/ alloc_none \/ Stopped \/ UNCHANGED vars
    BY <1>1, SameFrames DEF NewFails, alloc_none, Stopped, vars
  <1> QED
    BY <1>1, NewFrames, AllocFrames, DeallocFrames, ReclaimFrames DEF Next

LEMMA FramesInvariant == Spec => []FramesIInv
  BY FramesInit, FramesStep, PTL DEF Spec

-----------------------------------------------------------------------------
\* The counters of the allocator agree with its bitmap, and the next search
\* starts inside it (frame.rs, new, alloc_nozero, dealloc, reclaim_regions).
THEOREM CountersAgree == Spec => [](TypeOK /\ CountsMatchBitmap)
  BY FramesInvariant, PTL DEF FramesIInv

\* No frame outside usable or reclaimed memory, and none that holds the bitmap,
\* is ever free or handed out (frame.rs, usable_frame_range, new,
\* reclaim_regions).
THEOREM OnlyUsableMemoryIsManaged == Spec => []OnlyUsableMemory
  BY FramesInvariant, PTL DEF FramesIInv

\* The panics of dealloc and of the bitmap are unreachable as long as owners
\* give a frame back once (frame.rs, dealloc, Bitmap::state).
THEOREM AllocatorNeverPanics == Spec => []NoPanic
  BY FramesInvariant, PTL DEF FramesIInv

\* No frame has two owners, and alloc answers None only when no frame is free,
\* wherever next_search points (frame.rs, find_free_frame, alloc_nozero).
THEOREM AllocatorImplementsFramePool == Spec => ImplementsFramePool
  <1>1. Init => Abstract!Init
    BY DEF Init, Abstract!Init, FramesIn
  <1>2. FramesIInv /\ FramesIInv' /\ [Next]_vars
            => [Abstract!Next]_<<FramesIn({"Free"}), owned, result>>
    <2> SUFFICES ASSUME FramesIInv, FramesIInv', [Next]_vars
                 PROVE  [Abstract!Next]_<<FramesIn({"Free"}), owned, result>>
      OBVIOUS
    <2>1. CASE new
      <3>1. FramesIn({"Free"}) = {} /\ owned = {} /\ result = NoAnswer
        BY <2>1, SMT DEF new, FramesIInv, BeforeNew, TypeOK, FramesIn
      <3>2. owned' = owned /\ result' = result
        BY <2>1 DEF new
      <3> QED
        BY <3>1, <3>2 DEF Abstract!Next, Abstract!Grow
    <2>2. CASE alloc
      <3>1. PICK f \in 0..(frame_count - 1) :
              /\ find_free_frame(f)
              /\ frame' = [frame EXCEPT ![f] = "Allocated"]
              /\ owned' = owned \cup {f} /\ result' = f
        BY <2>2, Zenon DEF alloc
      <3>2. f \in FramesIn({"Free"})
        BY <3>1, FoundIsFree
      <3>3. FramesIn({"Free"})' = FramesIn({"Free"}) \ {f}
        BY <3>1 DEF FramesIn, FramesIInv, TypeOK
      <3> QED
        BY <3>1, <3>2, <3>3 DEF Abstract!Next, Abstract!Alloc
    <2>3. CASE alloc_none
      <3>1. FramesIn({"Free"}) = {}
        <4>1. CASE free_frames = 0
          <5>1. IsFiniteSet(FramesIn({"Free"}))
            BY FiniteFrames DEF FramesIn, TypeOK, FramesIInv
          <5> QED
            BY <4>1, <5>1, FS_EmptySet, Zenon DEF FramesIInv, CountsMatchBitmap
        <4>2. CASE NoFreeFrame
          BY <4>2, SMT DEF NoFreeFrame, NoneIn, FramesIn, FramesIInv, TypeOK
        <4> QED
          BY <2>3, <4>1, <4>2 DEF alloc_none
      <3> QED
        BY <2>3, <3>1 DEF alloc_none, FramesIn, Abstract!Next, Abstract!Refuse
    <2>4. ASSUME NEW f \in owned, dealloc(f)
          PROVE  Abstract!Next
      <3>1. f \in 0..(frame_count - 1) /\ frame[f] = "Allocated"
        BY DEF FramesIInv, TypeOK, OwnedAreAllocated, FramesIn
      <3>2. FramesIn({"Free"})' = FramesIn({"Free"}) \cup {f}
        BY <2>4, <3>1 DEF dealloc, FramesIn, FramesIInv, TypeOK
      <3> QED
        BY <2>4, <3>2 DEF dealloc, Abstract!Next, Abstract!Dealloc
    <2>5. ASSUME NEW kind \in MemoryRegionKind, reclaim_regions(kind)
          PROVE  Abstract!Next
      <3>1. FramesIn({"Free"}) \subseteq FramesIn({"Free"})'
        BY <2>5 DEF reclaim_regions, FramesIn
      <3>2. owned' = owned /\ result' = NoAnswer
        BY <2>5 DEF reclaim_regions
      <3>3. FramesIn({"Free"})' \cap owned = {}
        BY <3>2 DEF FramesIInv, OwnedAreAllocated, FramesIn
      <3> QED
        BY <3>1, <3>2, <3>3 DEF Abstract!Next, Abstract!Grow
    <2>6. CASE NewFails \/ Stopped \/ UNCHANGED vars
      BY <2>6 DEF NewFails, Stopped, vars, FramesIn
    <2> QED
      BY <2>1, <2>2, <2>3, <2>4, <2>5, <2>6 DEF Next
  <1> QED
    BY <1>1, <1>2, FramesInvariant, PTL DEF Spec, ImplementsFramePool, Abstract!Spec

-----------------------------------------------------------------------------
(* The bitmap.                                                             *)

\* Bytes are large enough for every frame.
LEMMA ByteOfFrame == \A f \in Frame : f \div 4 \in BitmapByte /\ f \in Nat
  BY FrameCountAssumption, SMT DEF Frame, BitmapByte

\* The place of a frame in its byte.
Lane(f) == f % 4

\* Values as sets of their own keep the provers from mixing them up.
Byte == 0..255
TwoBits == 0..3
Index == Nat

\* Writing a field of a byte: it stays a byte, the field has the new code and
\* the other three fields keep theirs.
LEMMA WriteField ==
    ASSUME NEW byte \in Byte, NEW f \in Index, NEW c \in TwoBits, NEW g \in Index
    PROVE  /\ WithField(byte, f, c) \in Byte
           /\ Field(WithField(byte, f, c), f) = c
           /\ Lane(g) # Lane(f) => Field(WithField(byte, f, c), g) = Field(byte, g)
  <1> DEFINE w(r) == CASE r = 0 -> 1 [] r = 1 -> 4 [] r = 2 -> 16 [] r = 3 -> 64
             get(x, r) == (x \div w(r)) % 4
             v(r) == byte - get(byte, r) * w(r) + c * w(r)
             P(r) == /\ v(r) \in 0..255 /\ get(v(r), r) = c
                     /\ \A q \in 0..3 : q # r => get(v(r), q) = get(byte, q)
  <1> USE DEF Byte, TwoBits, Index
  <1>1. \A r \in 0..3 : P(r)
    <2>1. /\ v(0) \in 0..255 /\ get(v(0), 0) = c
          /\ get(v(0), 1) = get(byte, 1)
          /\ get(v(0), 2) = get(byte, 2)
          /\ get(v(0), 3) = get(byte, 3)
      BY SMT
    <2>2. /\ v(1) \in 0..255 /\ get(v(1), 1) = c
          /\ get(v(1), 0) = get(byte, 0)
          /\ get(v(1), 2) = get(byte, 2)
          /\ get(v(1), 3) = get(byte, 3)
      BY SMT
    <2>3. /\ v(2) \in 0..255 /\ get(v(2), 2) = c
          /\ get(v(2), 0) = get(byte, 0)
          /\ get(v(2), 1) = get(byte, 1)
          /\ get(v(2), 3) = get(byte, 3)
      BY SMT
    <2>4. /\ v(3) \in 0..255 /\ get(v(3), 3) = c
          /\ get(v(3), 0) = get(byte, 0)
          /\ get(v(3), 1) = get(byte, 1)
          /\ get(v(3), 2) = get(byte, 2)
      BY SMTT(30)
    <2>5. \A r \in 0..3 : r = 0 \/ r = 1 \/ r = 2 \/ r = 3
      BY SMT
    <2> HIDE DEF v, get
    <2>6. P(0) /\ P(1) /\ P(2) /\ P(3)
      BY <2>1, <2>2, <2>3, <2>4, <2>5
    <2> HIDE DEF P
    <2> QED
      BY <2>5, <2>6, SMT
  <1>2. \A h \in Nat : h % 4 \in 0..3 /\ Weight(h) = w(h % 4)
    BY SMT DEF Weight
  <1>3. WithField(byte, f, c) = v(f % 4)
    BY <1>2 DEF WithField, Field
  <1>4. \A x : \A h \in Nat : Field(x, h) = get(x, h % 4)
    BY <1>2 DEF Field
  <1> HIDE DEF v, w, get
  <1> QED
    BY <1>1, <1>2, <1>3, <1>4, SMT DEF Lane

\* Every field of every byte holds the code of a state.
ValidFields == \A f \in Frame : Field(bytes[f \div 4], f) \in 0..2

BitmapIInv == BitmapTypeOK /\ ValidFields /\ read # "panic"

LEMMA CodeDecode ==
    /\ \A s \in FrameState : Code(s) \in 0..2 /\ Decode(Code(s)) = s
    /\ \A c \in 0..2 : Decode(c) \in FrameState /\ Decode(c) # "panic"
  <1>1. \A c \in 0..2 : c = 0 \/ c = 1 \/ c = 2
    BY SMT
  <1>2. Code("Reserved") = 0 /\ Code("Free") = 1 /\ Code("Allocated") = 2
    BY DEF Code
  <1>3. Decode(0) = "Reserved" /\ Decode(1) = "Free" /\ Decode(2) = "Allocated"
    BY SMT DEF Decode
  <1> QED
    BY <1>1, <1>2, <1>3, SMT DEF FrameState

\* What set_state does to the field of every frame.
LEMMA SetStateEffect ==
    ASSUME BitmapIInv, NEW f \in Frame, NEW s \in FrameState, set_state(f, s)
    PROVE  /\ bytes' \in [BitmapByte -> 0..255]
           /\ \A g \in Frame : Field(bytes'[g \div 4], g) =
                  IF g = f THEN Code(s) ELSE Field(bytes[g \div 4], g)
  <1> DEFINE b == f \div 4
             old == bytes[b]
             written == WithField(old, f, Code(s))
  <1>1. b \in BitmapByte /\ f \in Nat /\ old \in 0..255 /\ Code(s) \in 0..3
    BY ByteOfFrame, CodeDecode, SMT DEF BitmapIInv, BitmapTypeOK
  <1>2. old \in Byte /\ f \in Index /\ Code(s) \in TwoBits
    BY <1>1 DEF Byte, Index, TwoBits
  <1>3. written \in Byte /\ Field(written, f) = Code(s)
    BY ONLY <1>2, WriteField
  <1>4. \A e \in Index : Lane(e) # Lane(f) => Field(written, e) = Field(old, e)
    BY ONLY <1>2, WriteField
  <1>5. bytes' = [bytes EXCEPT ![b] = written] /\ bytes \in [BitmapByte -> 0..255]
    BY DEF set_state, BitmapIInv, BitmapTypeOK
  <1> HIDE DEF written, old
  <1>6. \A g \in Frame : g \in Index /\ (g # f => g \div 4 # f \div 4 \/ Lane(g) # Lane(f))
    BY <1>1, ByteOfFrame, SMT DEF Lane, Index
  <1> HIDE DEF b
  <1>7. ASSUME NEW g \in Frame
        PROVE  Field(bytes'[g \div 4], g) =
                  IF g = f THEN Code(s) ELSE Field(bytes[g \div 4], g)
    <2>1. g \div 4 \in BitmapByte
      BY ByteOfFrame
    <2>2. g \in Index
      BY ByteOfFrame DEF Index
    <2>3. CASE g = f
      <3>1. bytes'[g \div 4] = written
        BY <1>1, <1>5, <2>3 DEF b
      <3>2. Field(written, f) = Code(s)
        BY ONLY <1>3
      <3> QED
        BY ONLY <2>3, <3>1, <3>2
    <2>4. CASE g \div 4 # b
      BY <1>5, <2>1, <2>4 DEF b
    <2>5. CASE g # f /\ g \div 4 = b
      <3>1. bytes'[g \div 4] = written /\ bytes[g \div 4] = old
        BY <1>1, <1>5, <2>5 DEF old
      <3>2. Lane(g) # Lane(f)
        BY <1>6, <2>5 DEF b
      <3>3. Field(written, g) = Field(old, g)
        BY ONLY <1>4, <2>2, <3>2
      <3> QED
        BY ONLY <2>5, <3>1, <3>3
    <2> QED
      BY <2>3, <2>4, <2>5
  <1> QED
    BY <1>3, <1>5, <1>7, Zenon DEF Byte

LEMMA BitmapInitIInv == BitmapInit => BitmapIInv
  <1> SUFFICES ASSUME BitmapInit
               PROVE  BitmapIInv
    OBVIOUS
  <1>1. BitmapTypeOK /\ read # "panic"
    BY SMT DEF BitmapInit, BitmapTypeOK, FrameState
  <1>2. ASSUME NEW f \in Frame
        PROVE  Field(bytes[f \div 4], f) \in 0..2
    <2>1. bytes[f \div 4] = 0
      BY ByteOfFrame DEF BitmapInit
    <2>2. Weight(f) \in {1, 4, 16, 64}
      BY ByteOfFrame, SMT DEF Weight
    <2> QED
      BY <2>1, <2>2, SMT DEF Field
  <1> QED
    BY <1>1, <1>2 DEF BitmapIInv, ValidFields

LEMMA BitmapStepIInv == BitmapIInv /\ [BitmapNext]_bitmapVars => BitmapIInv'
  <1> SUFFICES ASSUME BitmapIInv, [BitmapNext]_bitmapVars
               PROVE  BitmapIInv'
    OBVIOUS
  <1>1. ASSUME NEW f \in Frame, state(f)
        PROVE  BitmapIInv'
    BY <1>1, CodeDecode DEF state, StateOf, BitmapIInv, BitmapTypeOK, ValidFields
  <1>2. ASSUME NEW f \in Frame, NEW s \in FrameState, set_state(f, s)
        PROVE  BitmapIInv'
    <2>1. read' = read
      BY <1>2 DEF set_state
    <2> QED
      BY <1>2, <2>1, SetStateEffect, CodeDecode DEF BitmapIInv, BitmapTypeOK, ValidFields
  <1>3. CASE UNCHANGED bitmapVars
    BY <1>3 DEF bitmapVars, BitmapIInv, BitmapTypeOK, ValidFields
  <1> QED
    BY <1>1, <1>2, <1>3 DEF BitmapNext

\* state() never meets the bit pattern 0b11 (frame.rs, Bitmap::state).
THEOREM BitmapNeverInvalid == BitmapSpec => [](BitmapTypeOK /\ NoInvalidState)
  <1>1. BitmapIInv => BitmapTypeOK /\ NoInvalidState
    BY CodeDecode DEF BitmapIInv, ValidFields, NoInvalidState, StateOf
  <1> QED
    BY <1>1, BitmapInitIInv, BitmapStepIInv, PTL DEF BitmapSpec

\* set_state writes one frame and leaves every other frame alone
\* (frame.rs, Bitmap::set_state).
THEOREM BitmapImplementsFrameStates == BitmapSpec => ImplementsFrameStates
  <1> DEFINE map == [f \in Frame |-> StateOf(f)]
  <1>1. BitmapInit => PerFrame!Init
    <2> SUFFICES ASSUME BitmapInit
                 PROVE  PerFrame!Init
      OBVIOUS
    <2>1. ASSUME NEW f \in Frame
          PROVE  StateOf(f) = "Reserved"
      <3>1. bytes[f \div 4] = 0
        BY ByteOfFrame DEF BitmapInit
      <3>2. Weight(f) \in {1, 4, 16, 64}
        BY ByteOfFrame, SMT DEF Weight
      <3>3. Field(0, f) = 0
        BY <3>2, SMT DEF Field
      <3> QED
        BY <3>1, <3>3, SMT DEF StateOf, Decode
    <2> QED
      BY <2>1 DEF BitmapInit, PerFrame!Init, Frame
  <1>2. BitmapIInv /\ [BitmapNext]_bitmapVars => [PerFrame!Next]_<<map, read>>
    <2> SUFFICES ASSUME BitmapIInv, [BitmapNext]_bitmapVars
                 PROVE  [PerFrame!Next]_<<map, read>>
      OBVIOUS
    <2>1. ASSUME NEW f \in Frame, state(f)
          PROVE  PerFrame!Get(f)
      BY <2>1 DEF state, StateOf, PerFrame!Get
    <2>2. ASSUME NEW f \in Frame, NEW s \in FrameState, set_state(f, s)
          PROVE  PerFrame!Set(f, s)
      <3>1. \A g \in Frame : StateOf(g)' = IF g = f THEN s ELSE StateOf(g)
        BY <2>2, SetStateEffect, CodeDecode DEF StateOf
      <3>2. map' = [map EXCEPT ![f] = s]
        BY <3>1, Zenon
      <3> QED
        BY <2>2, <3>2 DEF set_state, PerFrame!Set
    <2>3. CASE UNCHANGED bitmapVars
      BY <2>3 DEF bitmapVars, StateOf
    <2> QED
      BY <2>1, <2>2, <2>3 DEF BitmapNext, PerFrame!Next, Frame
  <1> QED
    BY <1>1, <1>2, BitmapInitIInv, BitmapStepIInv, PTL DEF BitmapSpec, ImplementsFrameStates, PerFrame!Spec
=============================================================================
