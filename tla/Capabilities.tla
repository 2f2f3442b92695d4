---------------------------- MODULE Capabilities ----------------------------
(***************************************************************************)
(* Handles, and the system calls on frames, address spaces and mappings    *)
(* (src/src/task/tcb.rs, src/src/syscall/table.rs and the table of address *)
(* spaces in src/src/memory/address_space.rs).                             *)
(*                                                                         *)
(* None of these calls blocks, and interrupts are disabled in them, so     *)
(* that one call follows the other.  The calls that make something take    *)
(* one step for each resource they acquire, and one to undo them: call     *)
(* says which step is next, and before remembers what the call began with. *)
(* Address spaces are the maps that module PageTable implements and frames *)
(* come from the pool that module FrameAllocator implements; the frames of *)
(* the tables below a root are left to PageTable, so that a map may run    *)
(* out of memory at any time.  One frame stands for those of a kernel      *)
(* stack, whose pages and slots module KernelStacks has.  Pointers that    *)
(* are not valid, and rights, which every handle is made with and no call  *)
(* takes away, are not modelled beyond "the call is refused".              *)
(***************************************************************************)
EXTENDS Integers, FiniteSets

CONSTANTS MAX_TASKS, MAX_HANDLES, MAX_ADDRESS_SPACES,
          Frame,       \* frames of the allocator
          Page,        \* pages below USER_SPACE_END
          BootPage,    \* pages of the first program, mapped by bootstrap
          BootFrame,   \* stands for the frames behind them
          NoFrame,     \* Option::None for a frame
          NoPage

TaskId == 0..(MAX_TASKS - 1)
HandleId == 0..(MAX_HANDLES - 1)
AddressSpaceId == 0..(MAX_ADDRESS_SPACES - 1)
NoSpace == MAX_ADDRESS_SPACES

ASSUME LimitsAssumption ==
    /\ MAX_TASKS \in Nat \ {0}
    /\ MAX_HANDLES \in Nat \ {0, 1}
    /\ MAX_ADDRESS_SPACES \in Nat \ {0}

ASSUME NamesAssumption ==
    /\ BootPage \subseteq Page
    /\ NoPage \notin Page
    /\ BootFrame \notin Frame
    /\ NoFrame \notin Frame
    /\ BootFrame # NoFrame

VARIABLES task,       \* task[t]: whether slot t was used, and is still alive
          handles,    \* handles[t][h]: handle h of task t
          root,       \* root[a]: root table of address space a, NoFrame if free
          mapped,     \* mapped[a][p]: the frame behind page p in space a
          stack,      \* stack[t]: the kernel stack of task t
          free,       \* frames of the allocator that are free
          lost,       \* frames of kernel stacks that nobody knows any more
          status,     \* what the last system call answered
          machine,    \* "running" or "panic"
          call,       \* the next step of the call in progress, or "idle"
          caller, held, as_id, new_task_id,   \* its task, its frame and its locals
          before      \* what it began with

resources == <<task, handles, root, mapped, stack, free, lost>>
callVars == <<call, caller, held, as_id, new_task_id, before>>
vars == <<resources, status, machine, callVars>>

\* KernelObject; the fields a kind does not have are blank.
Handle ==
    [kind : {"None", "AddressSpace", "Frame", "Mapping", "Thread"},
     frame : Frame \cup {NoFrame},
     space : AddressSpaceId \cup {NoSpace},
     page : Page \cup {NoPage}]

Object(k, f, a, p) == [kind |-> k, frame |-> f, space |-> a, page |-> p]

None == Object("None", NoFrame, NoSpace, NoPage)
SpaceHandle(a) == Object("AddressSpace", NoFrame, a, NoPage)
FrameHandle(f) == Object("Frame", f, NoSpace, NoPage)
MappingHandle(f, a, p) == Object("Mapping", f, a, p)
ThreadHandle == Object("Thread", NoFrame, NoSpace, NoPage)

-----------------------------------------------------------------------------
\* HandleTable: new, push, take and put on one task's table.
EmptyHandles == [h \in HandleId |-> None]

HandlesFull(tbl) == \A h \in HandleId : tbl[h] # None
FirstEmpty(tbl, h) == tbl[h] = None /\ \A g \in 0..(h - 1) : tbl[g] # None
At(tbl, h, x) == [tbl EXCEPT ![h] = x]
Take(tbl, h) == At(tbl, h, None)

\* get: the kind of handle h, "None" for a number that is no handle.
Kind(t, h) == IF h \in HandleId THEN handles[t][h].kind ELSE "None"

\* expect, panic! and unreachable!
Assert(p) == machine' = IF p THEN machine ELSE "panic"

\* Tcb::new_user and add_task: a task starts with its address space and itself.
NewTable(a) == At(At(EmptyHandles, 0, SpaceHandle(a)), 1, ThreadHandle)

\* bootstrap::spawn: the first task in the first address space.
Init ==
    /\ task = [t \in TaskId |-> IF t = 0 THEN "Alive" ELSE "None"]
    /\ handles = [t \in TaskId |-> IF t = 0 THEN NewTable(0) ELSE EmptyHandles]
    /\ \E f, k \in Frame :
          /\ f # k
          /\ root = [a \in AddressSpaceId |-> IF a = 0 THEN f ELSE NoFrame]
          /\ stack = [t \in TaskId |-> IF t = 0 THEN k ELSE NoFrame]
          /\ free = Frame \ {f, k}
    /\ mapped = [a \in AddressSpaceId |-> [p \in Page |->
                    IF a = 0 /\ p \in BootPage THEN BootFrame ELSE NoFrame]]
    /\ lost = {}
    /\ status = "Ok"
    /\ machine = "running"
    /\ call = "idle" /\ caller = 0 /\ held = NoFrame /\ as_id = NoSpace /\ new_task_id = 0
    /\ before = <<>>

\* Task t is the current one and calls the kernel.
Calls(t) == machine = "running" /\ call = "idle" /\ task[t] = "Alive"

\* A call that is refused before it does anything.
Refused(answer) ==
    /\ status' = answer
    /\ UNCHANGED <<resources, machine, callVars>>

Snapshot == [task |-> task, handles |-> handles, root |-> root, mapped |-> mapped,
             stack |-> stack, free |-> free, lost |-> lost]

\* The call of task t has taken frame f, and goes on with a step.
Takes(t, f, next) ==
    /\ free' = free \ {f}
    /\ call' = next /\ caller' = t /\ held' = f /\ new_task_id' = 0
    /\ before' = Snapshot
    /\ UNCHANGED <<task, handles, root, mapped, stack, lost, status, machine>>

Continues(here) == machine = "running" /\ call = here

Ends(answer) ==
    /\ status' = answer
    /\ call' = "idle" /\ caller' = 0 /\ held' = NoFrame /\ as_id' = NoSpace /\ new_task_id' = 0
    /\ before' = <<>>

\* dealloc_frame: "attempted to free free frame".
GivesBack(f) == free' = free \cup {f} /\ Assert(f # NoFrame /\ f \notin free)

\* push puts x into the first empty entry of the caller's table, and the call succeeds.
Pushes(x) ==
    /\ \E h \in HandleId :
          /\ FirstEmpty(handles[caller], h)
          /\ handles' = [handles EXCEPT ![caller] = At(@, h, x)]
    /\ Ends("Ok")
    /\ UNCHANGED <<task, root, mapped, stack, free, lost, machine>>

-----------------------------------------------------------------------------
sys_frame_alloc(t) ==
    /\ Calls(t)
    /\ \/ Refused("InvalidArgument") \/ Refused("BadAddress")
       \/ free = {} /\ Refused("OutOfMemory")
       \/ \E f \in free : Takes(t, f, "push_frame") /\ UNCHANGED as_id

\* Variant: when there is no room for the handle the frame is forgotten.
PushFrame_leak ==
    /\ Continues("push_frame")
    /\ \/ Pushes(FrameHandle(held))
       \/ /\ HandlesFull(handles[caller])
          /\ Ends("OutOfMemory")
          /\ UNCHANGED <<task, handles, root, mapped, stack, free, lost, machine>>

\* A frame that finds no place in the handle table is given back.
PushFrame ==
    /\ Continues("push_frame")
    /\ \/ Pushes(FrameHandle(held))
       \/ /\ HandlesFull(handles[caller])
          /\ GivesBack(held)
          /\ Ends("OutOfMemory")
          /\ UNCHANGED <<task, handles, root, mapped, stack, lost>>

FrameDealloc(t, h) ==
    /\ Kind(t, h) = "Frame"
    /\ handles' = [handles EXCEPT ![t] = Take(@, h)]
    /\ GivesBack(handles[t][h].frame)
    /\ status' = "Ok"
    /\ UNCHANGED <<task, root, mapped, stack, lost, callVars>>

\* A handle of the wrong type is taken and put back.
WrongType(t, h) ==
    /\ handles' = [handles EXCEPT ![t] = At(Take(@, h), h, @[h])]
    /\ status' = "InvalidArgument"
    /\ UNCHANGED <<task, root, mapped, stack, free, lost, machine, callVars>>

sys_frame_dealloc(t, h) ==
    /\ Calls(t)
    /\ \/ Kind(t, h) = "None" /\ Refused("BadHandle")
       \/ FrameDealloc(t, h)
       \/ Kind(t, h) \notin {"None", "Frame"} /\ WrongType(t, h)

-----------------------------------------------------------------------------
SpacesFull == \A a \in AddressSpaceId : root[a] # NoFrame
FirstSpace(a) == root[a] = NoFrame /\ \A b \in 0..(a - 1) : root[b] # NoFrame

\* new_user takes the frame of the root.
sys_as_create(t) ==
    /\ Calls(t)
    /\ \/ Refused("InvalidArgument") \/ Refused("BadAddress")
       \/ free = {} /\ Refused("OutOfMemory")
       \/ \E f \in free : Takes(t, f, "insert_space") /\ UNCHANGED as_id

\* insert_address_space; a space that finds no place in the table is destroyed.
InsertSpace ==
    /\ Continues("insert_space")
    /\ \/ /\ \E a \in AddressSpaceId :
                /\ FirstSpace(a)
                /\ root' = [root EXCEPT ![a] = held]
                /\ mapped' = [mapped EXCEPT ![a] = [p \in Page |-> NoFrame]]
                /\ as_id' = a
          /\ call' = "push_space" /\ held' = NoFrame
          /\ UNCHANGED <<task, handles, stack, free, lost, status, machine, caller, new_task_id, before>>
       \/ /\ SpacesFull
          /\ GivesBack(held)
          /\ Ends("OutOfMemory")
          /\ UNCHANGED <<task, handles, root, mapped, stack, lost>>

\* A space that finds no place in the handle table is removed from the table of spaces
\* ("address space was just inserted") and destroyed.
PushSpace ==
    /\ Continues("push_space")
    /\ \/ Pushes(SpaceHandle(as_id))
       \/ /\ HandlesFull(handles[caller])
          /\ root' = [root EXCEPT ![as_id] = NoFrame]
          /\ GivesBack(root[as_id])
          /\ Ends("OutOfMemory")
          /\ UNCHANGED <<task, handles, mapped, stack, lost>>

-----------------------------------------------------------------------------
\* The errors of target_as.map, all of which leave the space as it was: the
\* page is mapped already (or the CPU lacks the permission), or no frame is
\* left for a table on the way to a page that is not.
MapErrors(a, p) ==
    {"InvalidArgument"} \cup (IF mapped[a][p] = NoFrame THEN {"OutOfMemory"} ELSE {})

\* Variant: the frame handle is left as it is, so the frame can be given back.
MapOk_keeps_frame(t, ha, hf, p) ==
    LET a == handles[t][ha].space
        f == handles[t][hf].frame
    IN  /\ mapped[a][p] = NoFrame
        /\ mapped' = [mapped EXCEPT ![a] = [@ EXCEPT ![p] = f]]
        /\ Assert(root[a] # NoFrame)
        /\ status' = "Ok"
        /\ UNCHANGED <<task, handles, root, stack, free, lost, callVars>>

\* The frame handle becomes a handle of the mapping.
MapOk(t, ha, hf, p) ==
    LET a == handles[t][ha].space
        f == handles[t][hf].frame
    IN  /\ mapped[a][p] = NoFrame
        /\ mapped' = [mapped EXCEPT ![a] = [@ EXCEPT ![p] = f]]
        /\ handles' = [handles EXCEPT ![t] = At(Take(@, hf), hf, MappingHandle(f, a, p))]
        /\ Assert(root[a] # NoFrame)
        /\ status' = "Ok"
        /\ UNCHANGED <<task, root, stack, free, lost, callVars>>

\* The frame handle is put back.
MapFails(t, ha, hf, p) ==
    LET a == handles[t][ha].space
        f == handles[t][hf].frame
    IN  /\ status' \in MapErrors(a, p)
        /\ handles' = [handles EXCEPT ![t] = At(Take(@, hf), hf, FrameHandle(f))]
        /\ Assert(root[a] # NoFrame)
        /\ UNCHANGED <<task, root, mapped, stack, free, lost, callVars>>

sys_map(t, ha, hf, p) ==
    /\ Calls(t)
    /\ \/ Refused("InvalidArgument") \/ Refused("BadAddress")
       \/ "None" \in {Kind(t, ha), Kind(t, hf)} /\ Refused("BadHandle")
       \/ /\ Kind(t, ha) = "AddressSpace" /\ Kind(t, hf) = "Frame"
          /\ MapOk(t, ha, hf, p) \/ MapFails(t, ha, hf, p)

\* Variant: the entry is cleared before the frame behind it is read.
Unmapped_read_late(t, h) ==
    LET a == handles[t][h].space
        p == handles[t][h].page
        f == handles[t][h].frame
    IN  /\ mapped' = [mapped EXCEPT ![a] = [@ EXCEPT ![p] = NoFrame]]
        /\ handles' = [handles EXCEPT ![t] = At(Take(@, h), h, FrameHandle(f))]
        /\ status' = "Ok"
        /\ Assert(mapped'[a][p] = f)
        /\ UNCHANGED <<task, root, stack, free, lost, callVars>>

\* The mapping's handle becomes the frame's again.  A space that is gone would
\* be reported, a page that is not mapped to this frame would panic.
Unmapped(t, h) ==
    LET a == handles[t][h].space
        p == handles[t][h].page
        f == handles[t][h].frame
        gone == root[a] = NoFrame
    IN  /\ mapped' = IF gone THEN mapped ELSE [mapped EXCEPT ![a] = [@ EXCEPT ![p] = NoFrame]]
        /\ handles' = [handles EXCEPT ![t] = At(Take(@, h), h,
                          IF gone THEN MappingHandle(f, a, p) ELSE FrameHandle(f))]
        /\ status' = IF gone THEN "BadHandle" ELSE "Ok"
        /\ Assert(gone \/ mapped[a][p] = f)
        /\ UNCHANGED <<task, root, stack, free, lost, callVars>>

sys_unmap(t, h) ==
    /\ Calls(t)
    /\ \/ Kind(t, h) = "None" /\ Refused("BadHandle")
       \/ Kind(t, h) = "Mapping" /\ Unmapped(t, h)
       \/ Kind(t, h) \notin {"None", "Mapping"} /\ WrongType(t, h)

-----------------------------------------------------------------------------
\* add_task: the first slot that holds no task, dead or alive.
FirstTask(n) == task[n] = "None" /\ \A m \in 0..(n - 1) : task[m] # "None"
TasksFull == \A n \in TaskId : task[n] # "None"

\* The space must exist and hold a page for the entry and the stack.  A kernel
\* stack may be wanting at any time.
sys_task_create(t, ha) ==
    /\ Calls(t)
    /\ \/ \E answer \in {"InvalidArgument", "BadAddress", "OutOfMemory"} : Refused(answer)
       \/ Kind(t, ha) = "None" /\ Refused("BadHandle")
       \/ /\ Kind(t, ha) = "AddressSpace"
          /\ root[handles[t][ha].space] # NoFrame
          /\ \E p \in Page : mapped[handles[t][ha].space][p] # NoFrame
          /\ \E f \in free : Takes(t, f, "add_task")
          /\ as_id' = handles[t][ha].space

\* Tcb::new_user and add_task.  When there is no slot the new task is dropped, and with it
\* all that knows its kernel stack.
AddTask ==
    /\ Continues("add_task")
    /\ \/ /\ \E n \in TaskId :
                /\ FirstTask(n)
                /\ task' = [task EXCEPT ![n] = "Alive"]
                /\ handles' = [handles EXCEPT ![n] = NewTable(as_id)]
                /\ stack' = [stack EXCEPT ![n] = held]
                /\ new_task_id' = n
          /\ call' = "push_thread" /\ held' = NoFrame
          /\ UNCHANGED <<root, mapped, free, lost, status, machine, caller, as_id, before>>
       \/ /\ TasksFull
          /\ lost' = lost \cup {held}
          /\ Ends("OutOfMemory")
          /\ UNCHANGED <<task, handles, root, mapped, stack, free, machine>>

\* Variant: the task that was added stays.
PushThread_stays ==
    /\ Continues("push_thread")
    /\ \/ Pushes(ThreadHandle)
       \/ /\ HandlesFull(handles[caller])
          /\ Ends("OutOfMemory")
          /\ UNCHANGED <<task, handles, root, mapped, stack, free, lost, machine>>

\* The creator gets a Thread handle, or remove_task takes the new task out of the table
\* with its handles, and gives its stack back.
PushThread ==
    /\ Continues("push_thread")
    /\ \/ Pushes(ThreadHandle)
       \/ /\ HandlesFull(handles[caller])
          /\ task' = [task EXCEPT ![new_task_id] = "None"]
          /\ handles' = [handles EXCEPT ![new_task_id] = EmptyHandles]
          /\ stack' = [stack EXCEPT ![new_task_id] = NoFrame]
          /\ GivesBack(stack[new_task_id])
          /\ Ends("OutOfMemory")
          /\ UNCHANGED <<root, mapped, lost>>

\* The handles of a task that has exited are neither used nor given back.
sys_exit(t) ==
    /\ Calls(t)
    /\ task' = [task EXCEPT ![t] = "Dead"]
    /\ status' = "Ok"
    /\ UNCHANGED <<handles, root, mapped, stack, free, lost, machine, callVars>>

Halt ==
    /\ machine = "panic" \/ \A t \in TaskId : task[t] # "Alive"
    /\ UNCHANGED vars

AnyHandle == 0..MAX_HANDLES

Next ==
    \/ \E t \in TaskId :
          \/ sys_frame_alloc(t) \/ sys_as_create(t) \/ sys_exit(t)
          \/ \E h \in AnyHandle :
                sys_frame_dealloc(t, h) \/ sys_unmap(t, h) \/ sys_task_create(t, h)
          \/ \E ha, hf \in AnyHandle, p \in Page : sys_map(t, ha, hf, p)
    \/ PushFrame \/ InsertSpace \/ PushSpace \/ AddTask \/ PushThread
    \/ Halt

Spec == Init /\ [][Next]_vars

-----------------------------------------------------------------------------
\* The variables have their types.
TypeOK ==
    /\ task \in [TaskId -> {"None", "Alive", "Dead"}]
    /\ handles \in [TaskId -> [HandleId -> Handle]]
    /\ root \in [AddressSpaceId -> Frame \cup {NoFrame}]
    /\ mapped \in [AddressSpaceId -> [Page -> Frame \cup {NoFrame, BootFrame}]]
    /\ stack \in [TaskId -> Frame \cup {NoFrame}]
    /\ free \subseteq Frame
    /\ lost \subseteq Frame
    /\ status \in {"Ok", "InvalidArgument", "BadAddress", "BadHandle", "OutOfMemory"}
    /\ machine \in {"running", "panic"}
    /\ call \in {"idle", "push_frame", "insert_space", "push_space", "add_task", "push_thread"}
    /\ caller \in TaskId /\ new_task_id \in TaskId
    /\ held \in Frame \cup {NoFrame}
    /\ as_id \in AddressSpaceId \cup {NoSpace}

\* Handle h of task t owns frame f.
HandleOwns(t, h, f) == handles[t][h].kind \in {"Frame", "Mapping"} /\ handles[t][h].frame = f

\* Where a frame can be.
Place == {"free", "lost", "call", "handle", "root", "stack"}

In(place, f) ==
    CASE place = "free" -> f \in free
      [] place = "lost" -> f \in lost
      [] place = "call" -> held = f
      [] place = "handle" -> \E t \in TaskId, h \in HandleId : HandleOwns(t, h, f)
      [] place = "root" -> \E a \in AddressSpaceId : root[a] = f
      [] place = "stack" -> \E t \in TaskId : stack[t] = f

\* Every frame has exactly one owner: the free pool, one handle of one task, the root of
\* one address space, the kernel stack of one task, or the call in progress, or it is lost
\* with the stack of a task that found no slot.  No call, whatever it fails at, loses
\* another frame or lets two owners have one.
FramesOwnedOnce ==
    \A f \in Frame :
        /\ \E place \in Place : \A other \in Place : In(other, f) <=> other = place
        /\ \A t, u \in TaskId, h, g \in HandleId :
              HandleOwns(t, h, f) /\ HandleOwns(u, g, f) => t = u /\ h = g
        /\ \A a, b \in AddressSpaceId : root[a] = f /\ root[b] = f => a = b
        /\ \A t, u \in TaskId : stack[t] = f /\ stack[u] = f => t = u

\* Page tables and handles tell the same story: a page of a space is mapped to
\* a frame exactly when some task holds the mapping as a handle.  So a frame
\* that is mapped anywhere cannot be given back, and sys_unmap finds the page
\* mapped to the frame of its handle.
MappingsMatchHandles ==
    \A a \in AddressSpaceId, p \in Page, f \in Frame :
        mapped[a][p] = f <=>
            \E t \in TaskId, h \in HandleId : handles[t][h] = MappingHandle(f, a, p)

\* No panic!, expect or unreachable! of these calls is reached: not "unmap
\* resulted in a frame that was not the one we expected", not "every unmapping
\* error should be impossible to occur", not "address space was just inserted",
\* not a frame freed twice.
NoPanic == machine # "panic"

\* What the call in progress, or the one that begins now, began with.
Began == IF call = "idle" THEN Snapshot ELSE before

\* A call that is refused has changed nothing, whatever it took, allocated or inserted
\* in its earlier steps ("Wrong-type operations must not consume the handle"), with one
\* exception: sys_task_create that finds no slot for the task loses its kernel stack.
RefusedChangesNothing ==
    [][status' # "Ok" /\ call' = "idle" =>
          \/ Snapshot' = Began
          \/ /\ call = "add_task" /\ TasksFull
             /\ Snapshot' = [Began EXCEPT !.free = @ \ {held}, !.lost = @ \cup {held}]]_vars
=============================================================================
