---------------------------- MODULE KernelStacks ----------------------------
(***************************************************************************)
(* Kernel stacks and the tasks that run on them (src/src/memory/stack.rs,  *)
(* sys_task_create in src/src/syscall/table.rs, add_task and remove_task   *)
(* in src/src/task/scheduler.rs).                                          *)
(*                                                                         *)
(* Pages of the kernel address space are numbered from KERNEL_STACK_BASE.  *)
(* The kernel maps and unmaps stacks while the address space of the task   *)
(* that called it is the active one, so flush_tlb_if_active, which asks    *)
(* whether the kernel's own address space is active, flushes nothing, and  *)
(* the entries are global, so that switching address spaces does not       *)
(* either.  Frames of the tables between the root and the stacks are left  *)
(* to PageTable: a map may fail at any page.                               *)
(*                                                                         *)
(* sys_task_create is a sequence of steps: the bit of a slot, the frame    *)
(* and the mapping of each page, the task, the handle, and, when one of    *)
(* them fails, each page that is unmapped again.  step says which one is   *)
(* next.  Interrupts are disabled in a system call and no other CPU runs,  *)
(* so nobody else takes a step before it is "idle" again.                  *)
(***************************************************************************)
EXTENDS Integers, FiniteSets

CONSTANTS MAX_KERNEL_STACKS, KERNEL_STACK_PAGES, MAX_TASKS,
          FRAMES,    \* number of frames of the allocator
          NoFrame

GUARD_PAGES == 1
KERNEL_SLOT_SIZE == KERNEL_STACK_PAGES + GUARD_PAGES

StackSlot == 0..(MAX_KERNEL_STACKS - 1)
Page == 0..(MAX_KERNEL_STACKS * KERNEL_SLOT_SIZE - 1)
TaskId == 0..(MAX_TASKS - 1)
Frame == 0..(FRAMES - 1)
NoStack == 0

ASSUME StacksAssumption ==
    /\ MAX_KERNEL_STACKS \in Nat \ {0, 1}
    /\ KERNEL_STACK_PAGES \in Nat \ {0}
    /\ MAX_TASKS \in Nat \ {0}
    /\ FRAMES \in Nat /\ FRAMES >= 2 * KERNEL_STACK_PAGES
    /\ NoFrame \notin Frame

VARIABLES used,      \* free_slots: the slots whose bit is set
          mapped,    \* mapped[p]: the frame behind page p of the kernel
          free,      \* frames that are free
          owned,     \* frames handed out to tasks by sys_frame_alloc
          stack,     \* stack[t]: top of the stack of task t, NoStack if no task
          context,   \* context[t]: frame that the first context of t was written to
          tlb,       \* tlb[p]: frame the CPU has cached for page p
          machine,   \* "running" or "panic"
          step,          \* what the call does next, "idle" if there is none
          top,           \* top of the stack that is made or destroyed
          mapped_pages,  \* how many of its pages are mapped
          frame,         \* the frame for the next page, between alloc and map
          new_task_id    \* the task that was added

callVars == <<step, top, mapped_pages, frame, new_task_id>>
vars == <<used, mapped, free, owned, stack, context, tlb, machine, callVars>>

\* expect and panic!
Assert(p) == machine' = IF p THEN machine ELSE "panic"

-----------------------------------------------------------------------------
\* Variant: no room is left for the guard page.
TopOf_no_guard(s) == (s + 1) * KERNEL_STACK_PAGES

\* Variant: the slot below.
SlotOf_prev(t) == t \div KERNEL_SLOT_SIZE - 2

\* The top of the stack in slot s, and the slot of a stack with this top.
TopOf(s) == (s + 1) * KERNEL_SLOT_SIZE
SlotOf(t) == t \div KERNEL_SLOT_SIZE - 1

\* The pages of a stack, and the page below them.
StackPages(t) == (t - KERNEL_STACK_PAGES)..(t - 1)
GuardPage(t) == t - KERNEL_STACK_PAGES - 1

\* The first slot whose bit is clear, and the frame that the allocator gives out.
FirstSlot(s) == s \notin used /\ \A r \in 0..(s - 1) : r \in used
FirstFrame(f) == f \in free /\ \A e \in free : f <= e

\* What the CPU finds at page p: its cached entry, or a walk.
Translate(p) == IF tlb[p] # NoFrame THEN tlb[p] ELSE mapped[p]

-----------------------------------------------------------------------------
\* _start takes the first slot for the stack that kernel_main runs on, which
\* nobody gives back, and bootstrap::spawn the second for the first task.
BootFrame(p) ==
    IF p \in StackPages(TopOf(0)) THEN p - (TopOf(0) - KERNEL_STACK_PAGES)
    ELSE IF p \in StackPages(TopOf(1)) THEN p - (TopOf(1) - 2 * KERNEL_STACK_PAGES)
    ELSE NoFrame

Init ==
    /\ used = {0, 1}
    /\ mapped = [p \in Page |-> BootFrame(p)]
    /\ free = Frame \ {BootFrame(p) : p \in Page}
    /\ owned = {}
    /\ stack = [t \in TaskId |-> IF t = 0 THEN TopOf(1) ELSE NoStack]
    /\ context = [t \in TaskId |-> IF t = 0 THEN BootFrame(TopOf(1) - 1) ELSE NoFrame]
    /\ tlb = [p \in Page |-> NoFrame]
    /\ machine = "running"
    /\ step = "idle" /\ top = NoStack /\ mapped_pages = 0 /\ frame = NoFrame /\ new_task_id = 0

\* The call goes on with a step; when it has ended nothing is left of it.
At(here) == machine = "running" /\ step = here

Goto(next) == step' = next

Ends ==
    /\ step' = "idle" /\ top' = NoStack /\ mapped_pages' = 0
    /\ frame' = NoFrame /\ new_task_id' = 0

\* KernelStackPool::allocate finds no slot.
OutOfStacks ==
    /\ At("idle")
    /\ used = StackSlot
    /\ UNCHANGED vars

\* KernelStackPool::allocate sets the bit of a slot, and StackMapping::allocate looks at
\* the guard page.  The bit stays set, whatever happens next.
ReserveSlot ==
    /\ At("idle")
    /\ \E s \in StackSlot :
          /\ FirstSlot(s)
          /\ used' = used \cup {s}
          /\ LET guarded == mapped[GuardPage(TopOf(s))] = NoFrame
             IN  /\ top' = IF guarded THEN TopOf(s) ELSE NoStack
                 /\ Goto(IF guarded THEN "alloc" ELSE "idle")
    /\ UNCHANGED <<mapped, free, owned, stack, context, tlb, machine, mapped_pages, frame, new_task_id>>

\* A frame for the next page; without one the pages so far are rolled back.
AllocFrame ==
    /\ At("alloc")
    /\ \/ free = {} /\ Goto("rollback") /\ UNCHANGED <<free, frame>>
       \/ \E f \in free : FirstFrame(f) /\ free' = free \ {f} /\ frame' = f /\ Goto("map")
    /\ UNCHANGED <<used, mapped, owned, stack, context, tlb, machine, top, mapped_pages, new_task_id>>

\* The page that is mapped next.
NextPage == top - KERNEL_STACK_PAGES + mapped_pages

MapPage ==
    /\ At("map")
    /\ mapped[NextPage] = NoFrame
    /\ mapped' = [mapped EXCEPT ![NextPage] = frame]
    /\ frame' = NoFrame
    /\ mapped_pages' = mapped_pages + 1
    /\ Goto(IF mapped_pages' < KERNEL_STACK_PAGES THEN "alloc" ELSE "add")
    /\ Assert(mapped_pages' = KERNEL_STACK_PAGES => mapped[GuardPage(top)] = NoFrame)
    /\ UNCHANGED <<used, free, owned, stack, context, tlb, top, new_task_id>>

\* Variant: the frame that could not be mapped is forgotten.
MapFails_leak ==
    /\ At("map")
    /\ frame' = NoFrame
    /\ Goto("rollback")
    /\ UNCHANGED <<used, mapped, free, owned, stack, context, tlb, machine, top, mapped_pages, new_task_id>>

\* The page is in use or a table is wanting.
MapFails ==
    /\ At("map")
    /\ free' = free \cup {frame}
    /\ Assert(frame \notin free)
    /\ frame' = NoFrame
    /\ Goto("rollback")
    /\ UNCHANGED <<used, mapped, owned, stack, context, tlb, top, mapped_pages, new_task_id>>

\* Variant: one page too high, as if the range included its end.
LastPage_inclusive == top - KERNEL_STACK_PAGES + mapped_pages

\* The pages are unmapped from the highest one down.
LastPage == top - KERNEL_STACK_PAGES + mapped_pages - 1

\* One round of the loop of rollback and of destroy: "failed to roll back stack mapping",
\* "stack mapping was unexpectedly missing", "attempted to free free frame".
UnmapPage ==
    /\ mapped_pages > 0
    /\ mapped' = [mapped EXCEPT ![LastPage] = NoFrame]
    /\ free' = free \cup ({mapped[LastPage]} \ {NoFrame})
    /\ Assert(mapped[LastPage] # NoFrame /\ mapped[LastPage] \notin free)
    /\ mapped_pages' = mapped_pages - 1
    /\ UNCHANGED <<used, owned, stack, context, tlb, step, top, frame, new_task_id>>

Rollback ==
    /\ At("rollback")
    /\ \/ UnmapPage
       \/ mapped_pages = 0 /\ Ends /\ UNCHANGED <<used, mapped, free, owned, stack, context, tlb, machine>>

\* add_task takes the first slot without a task.
FirstTask(n) == stack[n] = NoStack /\ \A k \in 0..(n - 1) : stack[k] # NoStack
TasksFull == \A n \in TaskId : stack[n] # NoStack

\* ThreadContext::new writes the first context just below the top.
WritesContext == tlb' = [tlb EXCEPT ![top - 1] = Translate(top - 1)]

\* Tcb::new_user and add_task.  When there is no room the task is dropped, and with it all
\* that knows the stack.
AddTask ==
    /\ At("add")
    /\ WritesContext
    /\ \/ /\ TasksFull
          /\ Ends /\ UNCHANGED <<stack, context>>
       \/ /\ \E n \in TaskId :
                /\ FirstTask(n)
                /\ stack' = [stack EXCEPT ![n] = top]
                /\ context' = [context EXCEPT ![n] = Translate(top - 1)]
                /\ new_task_id' = n
          /\ Goto("push") /\ UNCHANGED <<top, mapped_pages, frame>>
    /\ UNCHANGED <<used, mapped, free, owned, machine>>

PushHandle ==
    /\ At("push")
    /\ Ends
    /\ UNCHANGED <<used, mapped, free, owned, stack, context, tlb, machine>>

\* The caller has no room for the handle.
RemoveTask ==
    /\ At("push")
    /\ stack' = [stack EXCEPT ![new_task_id] = NoStack]
    /\ context' = [context EXCEPT ![new_task_id] = NoFrame]
    /\ Goto("destroy")
    /\ UNCHANGED <<used, mapped, free, owned, tlb, machine, top, mapped_pages, frame, new_task_id>>

\* KernelStackPool::free: the pages, which are not flushed, and then the bit.
FreeStack ==
    /\ At("destroy")
    /\ \/ UnmapPage
       \/ /\ mapped_pages = 0
          /\ Assert(mapped[GuardPage(top)] = NoFrame)
          /\ used' = used \ {SlotOf(top)}
          /\ Ends /\ UNCHANGED <<mapped, free, owned, stack, context, tlb>>

sys_task_create ==
    \/ OutOfStacks \/ ReserveSlot \/ AllocFrame \/ MapPage \/ MapFails \/ Rollback
    \/ AddTask \/ PushHandle \/ RemoveTask \/ FreeStack

\* A task is given a frame, or gives one back.
FrameTaken(f) ==
    /\ At("idle")
    /\ FirstFrame(f)
    /\ free' = free \ {f}
    /\ owned' = owned \cup {f}
    /\ UNCHANGED <<used, mapped, stack, context, tlb, machine, callVars>>

FrameReturned(f) ==
    /\ At("idle")
    /\ f \in owned
    /\ owned' = owned \ {f}
    /\ free' = free \cup {f}
    /\ UNCHANGED <<used, mapped, stack, context, tlb, machine, callVars>>

\* Task t runs in the kernel and uses page p of its stack.
Runs(t, p) ==
    /\ At("idle")
    /\ stack[t] # NoStack /\ p \in StackPages(stack[t])
    /\ tlb' = [tlb EXCEPT ![p] = Translate(p)]
    /\ UNCHANGED <<used, mapped, free, owned, stack, context, machine, callVars>>

\* The CPU forgets a translation, whenever it likes.
Evict(p) ==
    /\ machine = "running"
    /\ tlb[p] # NoFrame
    /\ tlb' = [tlb EXCEPT ![p] = NoFrame]
    /\ UNCHANGED <<used, mapped, free, owned, stack, context, machine, callVars>>

Next ==
    \/ sys_task_create
    \/ \E f \in Frame : FrameTaken(f) \/ FrameReturned(f)
    \/ \E p \in Page : Evict(p) \/ \E t \in TaskId : Runs(t, p)

Spec == Init /\ [][Next]_vars

-----------------------------------------------------------------------------
\* The variables have their types.
TypeOK ==
    /\ used \subseteq StackSlot
    /\ mapped \in [Page -> Frame \cup {NoFrame}]
    /\ free \subseteq Frame
    /\ owned \subseteq Frame
    /\ stack \in [TaskId -> {NoStack} \cup {TopOf(s) : s \in StackSlot}]
    /\ context \in [TaskId -> Frame \cup {NoFrame}]
    /\ tlb \in [Page -> Frame \cup {NoFrame}]
    /\ machine \in {"running", "panic"}
    /\ step \in {"idle", "alloc", "map", "rollback", "add", "push", "destroy"}
    /\ top \in {NoStack} \cup {TopOf(s) : s \in StackSlot}
    /\ mapped_pages \in 0..KERNEL_STACK_PAGES
    /\ frame \in Frame \cup {NoFrame}
    /\ new_task_id \in TaskId

\* A frame is free, or handed out, or in the hands of the call between alloc and map, or
\* behind exactly one page of one stack: at no step of making, rolling back or destroying
\* a stack is a frame lost, or mapped while others can get it.
StackFramesOnce ==
    \A f \in Frame :
        /\ \/ f \in free /\ f \notin owned \cup {frame} /\ \A p \in Page : mapped[p] # f
           \/ f \in owned /\ f \notin free \cup {frame} /\ \A p \in Page : mapped[p] # f
           \/ f = frame /\ f \notin free \cup owned /\ \A p \in Page : mapped[p] # f
           \/ f \notin free \cup owned \cup {frame} /\ \E p \in Page : mapped[p] = f
        /\ \A p, q \in Page : mapped[p] = f /\ mapped[q] = f => p = q

\* Every task has a stack of its own, mapped to the last page and with an
\* unmapped page below it, so that no overflow reaches another stack.
StacksApart ==
    \A t \in TaskId : stack[t] # NoStack =>
        /\ \A p \in StackPages(stack[t]) : mapped[p] # NoFrame
        /\ GuardPage(stack[t]) \in Page /\ mapped[GuardPage(stack[t])] = NoFrame
        /\ \A u \in TaskId \ {t} : stack[u] # NoStack =>
              StackPages(stack[t]) \cap StackPages(stack[u]) = {}

\* A slot whose bit is clear has no page mapped, its guard page included: the bit is set
\* before the first page is mapped and cleared after the last is unmapped, so the next
\* stack put there cannot fail for a page that is mapped already.
ClearSlotsUnmapped ==
    \A s \in StackSlot : s \notin used =>
        \A p \in StackPages(TopOf(s)) \cup {GuardPage(TopOf(s))} : mapped[p] = NoFrame

\* Rolling back a stack that failed at any of its pages, and destroying one that was
\* finished, finds each page mapped, to a frame that is not free, and the guard page
\* unmapped: "failed to roll back stack mapping", "stack mapping was unexpectedly missing",
\* "attempted to free free frame" and the debug assertions are never met.
NoPanic == machine # "panic"

\* The context that a new thread starts from is on the stack it will run on:
\* "[top - 8] = user_thread_entry (popped by `ret`)".
ContextOnOwnStack ==
    \A t \in TaskId : stack[t] # NoStack => context[t] = mapped[stack[t] - 1]
=============================================================================
