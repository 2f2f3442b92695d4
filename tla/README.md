# Verification of the dusk kernel

dusk is a microkernel for x86_64 written in Rust, with a handful of user
programs. This directory holds TLA+ models of its parts, TLC configurations that
check them on small instances, and proofs that TLAPS checks for every value of
the constants. `PROJECT.json` lists components, runs, the source lines behind
every definition, hazards, findings and theorems.

## The system and its parts

Paths are relative to the repository.

| Part | Source | Module |
|---|---|---|
| Ready queue, task table, switching | `src/task/scheduler.rs` | ReadyQueue, Scheduler |
| Mailboxes, thread control blocks | `src/task/tcb.rs` | Mailbox, Ipc, Capabilities |
| `yield`, `exit`, `send`, `recv` | `src/syscall/table.rs` | Ipc |
| `frame_alloc`, `frame_dealloc`, `as_create`, `map`, `unmap`, `task_create` | `src/syscall/table.rs` | Capabilities (handles, frames, spaces), Ipc (effect on the scheduler), KernelStacks (effect on stacks) |
| Physical frames | `src/memory/frame.rs` | Bitmap, FrameAllocator |
| Page tables, address spaces | `src/arch/x86_64/paging.rs`, `src/memory/address_space.rs` | PageTable |
| Kernel stacks | `src/memory/stack.rs` | KernelStacks |
| Exceptions, interrupts | `src/arch/x86_64/interrupts/` | KernelEntry (the way in and out), Scheduler and Ipc (a fault in user mode is `exit_current`) |
| System call entry, context switch | `src/arch/x86_64/{syscall,cpu,mod}.rs` | KernelEntry; the first context of a thread also in KernelStacks |
| User memory access | `src/memory/user.rs` | System (`validate_user_range`); the copies are not modelled |
| APIC, I/O APIC, PIT, calibration | `src/arch/x86_64/{apic,io_apic,pit,timer}.rs` | InterruptController |
| ACPI tables | `src/platform/acpi.rs` | InterruptController |
| ELF and CPIO | `src/format/`, `userspace/omega3/src/{cpio,elf}.rs` | Initramfs |
| First program, start-up | `src/task/bootstrap.rs`, `src/main.rs` | System |
| User programs and their library | `userspace/` | System; in the other modules any program is allowed |
| Boot protocol | `src/boot/` | only its result: memory map, firmware tables, archive |
| GDT, ports, serial console | `src/arch/x86_64/{gdt,port}.rs`, `src/debug/` | not modelled: tables and device I/O |

How they interact. A program enters the kernel by a system call. There is one
CPU; interrupts are masked for the length of a call and the timer is never
started after its calibration, so a call runs to its end without interruption.
The only places where another task can run in the middle of a call are those
where the call gives the CPU away: `block_current` in `sys_recv`, `yield_current`
in `sys_yield`, `exit_current` in `sys_exit` and in the handler of exceptions.
In Ipc a system call is one action, and `sys_recv` two, since it goes on after it
was woken (`RecvBlock`, `RecvResume`). The calls that acquire one resource after
the other and undo what they have when the next is wanting are a step for each
resource in Capabilities and KernelStacks: nobody else runs between these steps, but
it is in them that something can be forgotten or undone twice. A panic or a failed `expect`
stops the machine: `Assert(p)` sets `machine` to `"panic"` if `p` is false, and
`NoPanic` says that this never happens.

## Modules

Modules in layers; the upper ones use a lower one in the form of the abstract
specification that it is shown to implement.

    System  (EXTENDS Ipc, InterruptController, Initramfs)          KernelEntry
     |
    Ipc  (EXTENDS Scheduler)          Capabilities         KernelStacks
     |  implements Inboxes, Scheduler      |                    |
     |                                     +--- frames: FramePool, spaces: PageMap
    Scheduler        Mailbox          PageTable            FrameAllocator
     | ready: a sequence | a sequence  implements PageMap   implements FramePool
    ReadyQueue  ----> Fifo <----                                | frame: an array
     implements Fifo                                         Bitmap implements FrameStates

Scheduler and Ipc use sequences for the ready queue and the mailboxes, as Fifo
does. FrameAllocator uses an array of frame states, as FrameStates does.
Capabilities uses a set of frames and a map of pages, as FramePool and PageMap
do. These links are by hand, through equal operators, and no theorem states them.
System is a composition proper: its steps are conjunctions of the actions of Ipc
and InterruptController with those of the loaders and programs.

- **ReadyQueue** (`ReadyQueue` in scheduler.rs): the array with `head` and `len`;
  `push_back`, `pop_front` and `remove`, which shifts the later entries by one,
  all indices modulo the size.
- **Mailbox** (`Mailbox` in tcb.rs): the array of optional messages; `push` refuses
  when full.
- **Fifo**: a bounded queue as a sequence. Both rings implement it.
- **Scheduler** (`add_task`, `start`, `remove_task`, `block_current`, `unblock`,
  `yield_current`, `exit_current`): variables `current`, `state`, `ready`,
  `machine`. A slot of the task table is taken by the first free one; a dead task
  keeps its slot. `machine` is `"boot"`, `"running"`, or how it stopped.
- **Ipc** (`sys_yield`, `sys_exit`, `sys_send`, `sys_recv`, and what
  `sys_task_create` does to scheduler and mailboxes): adds `mailbox`, `pc` (whether
  a task is inside `sys_recv`) and `reply` (what the call of this step answered).
  `sys_recv` checks its buffer only after it was woken, so an error leaves the
  message in place. A message to a dead task is accepted until its mailbox is
  full. A task may send to itself.
- **Inboxes**: what message passing promises: atomic send and receive on bounded
  inboxes.
- **Bitmap** (`FrameBitmap` in frame.rs): bytes with four two-bit fields, set with
  shifts and masks written as division and remainder. **FrameStates**: the array
  it implements.
- **FrameAllocator** (`FrameAllocator` in frame.rs): construction from the memory
  map with its overflow checks, rounding and choice of the storage of the bitmap;
  `alloc` (next fit), `dealloc`, `reclaim_regions`; counters and panics.
  **FramePool**: what it promises.
- **PageTable** (`PageTable` in paging.rs, `AddressSpace` in address_space.rs):
  tables in frames, walks, `map` with the preparation of missing tables and its
  undoing, `unmap` with the tables that it gives back, `new_user`, which copies the
  kernel's half of the root, `destroy_user`, `activate`, and the CPU, which may
  cache a translation whenever it uses one (`Access`). **PageMap**: what they
  promise.
- **Capabilities** (`HandleTable` in tcb.rs, the calls in table.rs, the table of
  address spaces): every call with the order of its checks. `sys_frame_alloc`,
  `sys_as_create` and `sys_task_create` are sequences of steps (`call` is the next one,
  `held`, `as_id` and `new_task_id` their locals), each with the case that its resource is
  wanting and what is undone there. `before` is a history variable: what the call began
  with. `lost` holds the kernel stacks of tasks that found no slot.
- **KernelStacks** (`KernelStack`, `KernelStackPool` in stack.rs, with
  `sys_task_create`): slots, pages and guard pages, cached translations, and
  stacks that are given back, forgotten or leaked. The bit, the frame and the mapping of
  each page, the task and the handle are steps of their own, and rolling back and
  destroying a stack take one step for each page. Slot 0 is the stack that the kernel
  boots on.
- **KernelEntry** (syscall.rs, interrupts/idt.rs and exceptions.rs, cpu.rs,
  `Switch::perform`, `enter_user`): mode, GS bases, interrupt flag, the two places
  that name the kernel stack (`kernel_stack_top` for `syscall`, `rsp0` for gates),
  the scratch word, and the kernel stack of every task as an array of frames, in
  which stale frames stay until they are overwritten. `left` is a history variable:
  the registers a task had when it last left user mode. Which task runs next is
  left open, so the result holds for any scheduler.
- **InterruptController** (acpi.rs, io_apic.rs, apic.rs, pit.rs, timer.rs,
  `init_interrupt_controller`): the checks of the firmware's tables, the three walks
  over the MADT with real offsets and lengths, the three writes of the redirection
  entry, and the calibration in one step for each access to a device or a flag.
  Devices move on their own between these steps: the PIT's output, the counter of
  the local timer, the interrupt. `seen` is a history variable.
- **Initramfs** (cpio.rs and elf.rs, of the kernel and of omega3; the copying loops
  of both `load_elf`): operators, no state. The content of a byte is its offset in
  the archive, so that a byte from the wrong place is told from the right one; a
  frame that was not cleared holds `Stale`. The kernel checks that a segment's data is in
  the file (`SegmentOk`), omega3 does not: `leaves_archive` says that its copy reads
  behind the last page of the archive's mapping.
- **System** (`kernel_main` from the ACPI tables on, `bootstrap::spawn`, the `_start`
  of omega3, echo and client, and the library they call): `step` is the place of the
  kernel's start-up, `at[t]` that of program `t`, `loader` the variables of whichever
  `load_elf` runs, `handles` the handle table of omega3, `cause` the first failed
  `unwrap` or `expect`. Memory may run out wherever it is asked for. omega3 stops by
  the panic of an `unwrap` or of a sum that overflows (`OmegaPanic`), or, when it copies
  from behind the archive, by a page fault (`OmegaFault`), unless something else is
  mapped there. The build is the debug one, which is the default of the Makefile; a
  release build wraps instead of panicking, so that a segment that ends behind the last
  address is skipped.
- **MCCapabilities**, **MCFrameAllocator**, **MCPageTable**, **MCKernelEntry**, **MCSystem**: the instances
  for TLC.
- **KernelProofs** (KernelEntry, ReadyQueue, Bitmap and FrameAllocator), **IpcProofs**
  (Scheduler and Ipc), **TcbProofs** (Mailbox and Capabilities), **PageTableProofs**,
  **KernelStacksProofs**, **SystemProofs** (System and InterruptController),
  **LoaderProofs** (System and Initramfs) and **EndProofs** (System as a whole): theorems
  and their proofs. Bitmap, KernelEntry, Mailbox and ReadyQueue call their definitions `BitmapInit`,
  `EntryNext`, `MailboxSpec`, `ReadyNext` and so on, so that one module can speak of
  several components.

## Runs

| Run | Instance | Shows |
|---|---|---|
| ready_queue | 4 slots, 3 identifiers | the ring implements Fifo wherever it lies in the array; removal across the end included |
| mailbox | 4 slots (the real capacity), 3 messages | the ring implements Fifo |
| scheduler | 5 tasks | queue, states and current task agree; no assertion fails; nobody is overtaken; no ready task starves (`NoStarvation`) |
| ipc | 3 tasks, capacity 2 | no wakeup lost, none in vain, exactly-once delivery in order, quiescent halt, identifiers never reused, the scheduler keeps its specification, and a sleeping receiver that is sent a message returns (`MessagesArrive`) |
| bitmap | 6 frames | the packed bitmap implements an array of frame states |
| frame_allocator | 394 memory maps, frames of 2 bytes, addresses up to 21 | counters match the bitmap, only usable memory is handed out, no panic, and a pool is implemented |
| page_table | 2 intermediate levels, 2 entries a table, 7 table frames, 2 user spaces | tables form a forest that shares the kernel half; user bits right at every level; cached user translations never stale; PageMap is implemented |
| capabilities | 2 tasks, 4 handles each, 2 spaces, 6 frames, 2 pages | at every step of every call each frame has one owner, page tables match handles, no panic; a refused call has undone all it did, but for the stack of a task that found no slot |
| kernel_stacks | 4 slots of 2 pages, 2 tasks, 9 frames | at every step of making, rolling back and destroying a stack: no frame lost or shared, guard pages, clear slots are empty, no failed `expect` |
| kernel_stacks_context | the same | violation: the first context of a thread is written to another frame than its stack's |
| kernel_entry | 3 tasks, 2 register values | GS and interrupt flag match the mode, and a task comes back with the registers it left with |
| system | 73 sets of firmware tables, 5 CPUs, 3 I/O APICs; 15 archives; 574 images for the kernel's loader, 18 for omega3's | the PIT's line is open only on a whole entry that the tables ask for; the calibration uses a count that an interrupt stored; both loaders put exactly the file into memory, or stop; buffers are accepted exactly when every byte may be used; the machine ends, and in the way it should |

No run lists a type invariant: they are parts of the inductive invariants below.

Why the bounds are enough for what the runs ask.

- Rings: the head visits every slot and the ring is empty, full and anything
  between at each; three values tell order and duplication apart.
- Scheduler and Ipc: three tasks give a sender, a sleeping receiver and a
  bystander; a fourth and fifth show the order in the queue. Mailboxes fill at one
  and at two messages. The task table fills. Payloads are only carried, so one is
  enough: order is seen from the senders.
- FrameAllocator: two bytes a frame and borders at any byte give every case of
  rounding. Maps have every combination of kinds in three neighbouring regions,
  regions that are smaller than a frame, that overlap (ACPI and reserved memory
  only), that reach the address limit, and maps whose bitmap takes two frames and
  does not fit in the first usable region.
- PageTable: with two intermediate levels a map may need zero, one or two tables,
  run out after the first, and share the upper ones; seven frames are too few for
  everything at once. The user spaces are interchangeable, so the run declares them
  symmetric. `LevelsAssumption` lets `Levels` be 3 or 4 as on the hardware.
- Capabilities: handle table, task table, table of spaces and pool all fill. Depth
  is bounded by these tables, not by a counter. MAX_HANDLES is 4 and not 32
  because two handles are taken at the start. Six frames are two roots, two stacks, one
  to map and one to lose. No call looks at the number of a frame, so the run declares
  the frames symmetric.
- KernelEntry: one task that runs, one that was switched away from and one that
  has never run, next to the boot path; two values tell a right register from a
  wrong one. Frames nest at most three deep (`MAX_DEPTH`); that no
  stack pointer leaves this range is part of the proved invariant.
- System: the firmware, the archive and the images are chosen in three different
  steps, and what is no longer read is dropped (`Handover`), so their numbers add up
  and do not multiply. A page has 4 bytes, user space 8 pages, a stack one page and
  the archive takes one page: enough for segments that begin and end anywhere in a
  page, cross one or two borders, touch each other, the stack, the archive or the
  end of user space. Offsets and lengths of ACPI and of the archive are the real
  ones. `INITIAL_COUNT` = 2 gives a count before, at and after the interrupt.
  `MAX_HANDLES` = 10 lets a small client fit and a larger one not. Archives that are cut off
  are cut within or before omega3.elf, which the kernel's `find_file` notices;
  the one of omega3 has no length to check against. The images for omega3 have a bad
  header, no table of program headers, segments that overlap or that the user may not
  have, data behind the end of the file and behind the archive, a segment that ends
  behind the last address and one in the last page. The scratch page never meets
  omega3's own image.
- KernelStacks: slot 0 is the boot stack and slot 1 the first task's, which leaves
  two slots that are used, given back and used again.

`CHECK_DEADLOCK` is on everywhere: a machine that has stopped keeps stuttering
through an explicit action (`Halt`, `hcf`), as `hcf` loops in the code.

### Fairness

`SchedFairSpec` and `FairSpec` assume weak fairness of the steps in which the
running task gives up the CPU (`yield`, `exit`, blocking in `recv`), and of the
kernel going on with a call that was resumed. The second is certain: the kernel is
never interrupted. The first is an assumption about the programs and not about
the kernel, which does not preempt: a task that computes for ever starves the
others. The two liveness properties say what a scheduler adds to cooperating
programs. The choice among the ways of giving up the CPU is free, and nothing is
assumed about the other tasks' sending.

`SystemSpec` assumes weak fairness of the software as a whole (one CPU, which always
executes the code of someone) and of the local timer's count. Nothing is assumed of
the PIT, which may stay silent for ever, and nothing of the interrupt. Here no
program needs to be assumed to cooperate: `SystemSettles` is about the three programs
of the repository.

## Findings

`kernel_stacks_context`. Kernel stacks are unmapped in the kernel address space
while a user address space is active. `flush_tlb_if_active` (paging.rs:720)
then flushes nothing, and the entries are global, so that changing CR3 does not
flush them either. When the slot is used again, after a `task_create` that
failed for want of a handle, the first context of the new thread may be written
through the old translation.

Worth knowing, though no line of the repository says otherwise:

- `exit_current` prints "All tasks exited" (scheduler.rs:354) whenever no task is
  ready, also when others sleep. It is how the system ends as shipped: client exits
  while echo waits for the next message (`EndsAsItShould`). That no sleeping task
  has a message does hold (`HaltIsQuiescent`).
- The PIT's line is opened (timer.rs:35) before the PIT is programmed (timer.rs:40).
  A request of the firmware's periodic PIT that falls between is latched and taken
  for the end of the one-shot; the measured frequency is then wrong. With a level
  triggered line the handler may run again before the line is masked, and stores a
  later count. `CalibrationMeasures` therefore bounds the count by the first request
  let through and by the end of the wait, and claims no more.

Three behaviours lose resources without contradicting anything the code says; the
models take these steps and the hazards name them: `KernelStackPool::allocate`
leaves the bit of a slot set when it fails; a full task table makes
`sys_task_create` forget the stack it has allocated; a dead task keeps slot,
handles, address space and stack.

## What is proved

All theorems hold for every value of the constants allowed by the assumptions that
the modules name. An invariant of a run is seldom inductive; the strengthening is
given with each.

- **KernelProofs**, the ready queue: `ReadyTypeInvariant`, `ReadyQueueImplementsFifo`. The refinement
  maps the array to the sequence of its `len` entries from `head`. The argument is
  arithmetic modulo the size, in lemmas about the next and the i-th index. Types
  are inductive by themselves. Assumed: at least one slot; identifiers exist and
  are no "none".
- **TcbProofs**, the mailbox: `MailboxInvariant`, `MailboxImplementsFifo`, likewise,
  with `UsedSlotsHoldMessages` as the second conjunct: without it `pop` could return
  nothing from a mailbox that is not empty.
- **IpcProofs**, the scheduler: `SchedulerInvariant`, `QueueAlwaysMatchesStates`,
  `SchedulerNeverPanics`, `NobodyIsOvertaken`. `SchedIInv` is `SchedTypeOK`,
  `QueueMatchesStates`, `NoPanic` and `CurrentExists` (a task is current once the
  machine runs). No panic follows since a queued task is Ready and queued once:
  by counting, the queue is never full when a task is pushed, and the head is
  never the running task.
- **IpcProofs**, message passing: `IpcTypeInvariant`, `IpcImplementsScheduler` (the calls use the
  scheduler only through its operations, which carries `SchedIInv` over),
  `NoWakeupIsLost`, `WokenReceiverFindsMessage`, `KernelHaltsQuiescent`,
  `TaskIdentifiersAreUnique`, `IpcImplementsInboxes`. `IpcIInv` adds to the checked
  invariants that unused slots have empty mailboxes (`EmptySlotsAreClean`: a new
  task starts without messages) and that the kernel halts only with an empty queue
  (`HaltedWithoutReady`).
- **KernelProofs**, the bitmap: `BitmapNeverInvalid`, `BitmapImplementsFrameStates`. The
  invariant says that each field of each byte holds 0, 1 or 2; the lemmas are about
  replacing one base-4 digit of a byte.
- **KernelProofs**, the allocator: `CountersAgree`, `OnlyUsableMemoryIsManaged`,
  `AllocatorNeverPanics`, `AllocatorImplementsFramePool`. `FramesIInv` adds that the
  owned frames are the allocated ones, that nothing exists before `new`, that the
  bitmap describes all tracked regions and lies in a usable one, and which kinds
  were reclaimed. Assumed: usable and reclaimable regions of the memory map
  overlap no other (`MemoryMapsAssumption`, what the boot protocol promises), and a
  caller gives back only frames it owns (the contract of `OwnedFrame`).
- **TcbProofs**, the handles: `FramesHaveOneOwner`, `HandlesMatchPageTables`,
  `CallsNeverPanic`, `RefusalLeavesNothing`. `Inv` adds that a handle has the fields of
  its kind and names a space that exists, that a slot without a task has neither handles
  nor a stack, that a space that does not exist maps nothing (`EmptySpaces`), and, for a call
  in progress, which of its locals are set (`CallOK`) and how far the present differs
  from what it began with (`BeforeOK`). From the last it follows that the step that
  undoes a call leads back to where it began. Each step changes one handle, one page and
  one frame at most; the lemmas are about such a single change.

- **KernelProofs**, the kernel entry: `GsFollowsMode`, `KernelIsMasked`, `TasksResume`. `IInv` says
  what the code that runs finds on its stack (`CodeOK`), that both ways into the
  kernel lead to the stack of the current task (`StackOK`), and that the stack of
  each waiting task holds the frames it left, with its context at the last of them
  (`WaitingOK`). Without the last, a switch could return into a stale frame.
  Assumed: the boot path is no task.

- **KernelStacksProofs**: `FramesAreOnce`, `StacksAreApart`, `ClearSlotsAreUnmapped`,
  `NeverPanics`. `IInv` adds to the checked invariants that each task's stack is in a
  slot whose bit is set, that no two tasks share one, that no guard page is
  mapped, and that the call in progress has a slot to itself, in which exactly the pages
  below `mapped_pages` are mapped. Without the first, giving a stack back could clear the slot of another.
  The lemmas are arithmetic of slots: a top belongs to one slot (`SlotOfTop`), and
  slots have no page in common (`SlotsApart`). Assumed: at least two slots and a page
  in each, and frames enough for the boot stack and the first task's.
- **PageTableProofs**: `TablesFormAForest`, `KernelHalfIsShared`, `UserBitsAreRight`,
  `UserTlbIsCoherent`, `RefinesPageMap`. The checked properties speak of walks, and a
  walk is recursive; a step changes some entries, and what it does to all walks would
  be an induction for each action. `IInv` instead gives each table in use a home, the
  space and the indices that lead to it (`Shape`): roots are at home at level 0 of
  their space, an entry points to the table whose home extends its own, each table
  but a root has a parent and an entry, no two tables have one home, and tables under
  the kernel's half belong to the kernel whichever root they are reached from. One
  induction (`WalkAt`) shows that a walk ends at the table whose home is the way
  taken. After that, `map` grafts a branch of new tables at the depth where the walk
  ended, `unmap` prunes the branch above a table that it emptied, and
  `destroy_user` removes all tables whose home is in the space; each has a lemma that
  the homes still agree, and one that says which pages changed, from which the
  refinement of PageMap follows step by step (`RefinesStep`). `ImageFirst` says that
  the kernel's image is mapped before stacks and user spaces exist: that is why
  mapping a stack never makes a new entry in the kernel's root, which `new_user` has
  copied already. Assumed: at least one level; user and kernel pages differ in their
  first index, and stacks lie under a root entry of the image
  (`StacksBesideImage`, by KERNEL_STACK_BASE); names are distinct.
- **SystemProofs**: `CalibrationIsMeasured`, `PitIsRoutedByTable`, of System as a whole, so that no step of a loader or a program disturbs them.
  - `CalibrationInv` says for each place of the calibration what flag, stored count,
    counter and entry can be (`Measuring`), that no interrupt is stored before the
    line is opened (`Quiet`), and that no task runs during start-up (`BootAlone`).
  - `RoutingInv` says what each walk over the MADT has found so far, in terms of the
    entries before the place it has reached (`Walked`), that the tables before the
    index of `find_table` are not the MADT (`Searching`), and which part of the
    redirection entry is written (`EntryWritten`). `PitRoutedByTable` states the
    result without walking; the two meet at the end of the walks, where "before the
    place reached" is all of the table.
  - Assumed (`FirmwareAssumption`): the tables are memory, so that a walk that looks
    for an entry reads one, and the record of a table holds the entries that such a
    walk can meet, without overlap. Lengths, kinds, signatures and sums are arbitrary.
- **LoaderProofs**: `UserRangeIsExact`, `LoadersAreExact`.
  - `UserRangeIsExact` needs no induction: the pages that are looked up are exactly
    those that hold a byte of the range, by division with remainder (`Division`,
    `RangePages`). `AddressAssumption`: user space ends below the largest address.
  - `LoadersAreExact` is `ImageMatchesFile`. The property looks at one place, the end of
    the loading; the copying happens before it, a page at a time, in an order that
    depends on the image. `LoaderInv` therefore describes a loader that is half done:
    the segments before the current one are in memory as a whole and the current one up
    to the page reached, each byte being the one that the file puts there; what is mapped
    besides are the stack (and the archive, for omega3 itself), which no page of a
    segment meets; and the file is the first of its name in the archive. It says so for
    the kernel's loader (`KernelLoader`) and for omega3's (`OmegaLoader`), which checks
    less, copies through a scratch page and learns that a page is taken only from the
    failing `map`. The lemmas are about one page: which of its bytes come from the file
    (`load_page` of each loader against `FileByte`), that the pages of a segment are
    those from its first to its last address, and that both `find_file` find the first
    member of a name.
  - Assumed: `ImagesAssumption`, the numbers in program headers are arbitrary naturals,
    and in the images that omega3 loads no segment has more data than memory, which
    omega3 does not check (the kernel does, for its own); `ArchivesAssumption`, the numbers
    in the archive are arbitrary, and if the kernel finds omega3 in it the members lie
    within its length, since omega3's `find_file` has no length to compare with;
    `StackAssumption`, a stack has a page.
- **EndProofs**: `MachineEndsAsItShould`, which is `EndsAsItShould`. The property speaks of
  the last state only. Two things must be known of all states before it.
  - Where everybody is. `Story` lists the scenes: the start-up, in which no task has run
    (`BootStory`); omega3 loading, with nobody, echo or both waiting in the queue
    (`OmegaStory`); omega3 gone with exit code 1 or by a page fault (`GaveUp`); and the nine states of the
    conversation from echo's start to client's exit (`Talking`), each with the ready queue,
    and with state, place and mailbox of echo and of client. The kernel's
    part in a scene is taken from Ipc: falling asleep, taking a message, waking a
    receiver, starting a task. In each scene one program can act, in one way.
  - That a reason is a true one. `KernelReasons` and `OmegaReasons` go through all places at
    which the kernel and omega3 give up, and need `LoaderInv` (a page is taken only if two
    segments, or a segment and the stack, overlap) and three more invariants. `HandlesInv`:
    omega3 holds a frame that is not mapped only between `frame_alloc` and `map`, so that a
    table that is full where a handle is asked for is full of handles in use. `EntrySeen`:
    the flag of the kernel's loader misses no executable segment around the entry point
    among those it has passed. `StackWritable`: what omega3 has mapped besides the image is
    writable, as `sys_task_create` asks of the stack.
    `ArchiveLeft`: a copy that leaves the archive belongs to a segment whose data is not
    in the file, since the file is in the archive; so only such an image makes omega3
    fault.
    That a search ends without a file only if the archive does not hold it whole, before
    its trailer, is an induction over the archive, in LoaderProofs (`WholeAhead`).
  - `EndInv` is the conjunction of these, and inductive.
  - Assumed besides: entry points are arbitrary naturals (`ImagesAssumption`); the top of
    the stack and the end of user space are page borders, and the stack lies below that
    end (`StackAssumption`, `AddressAssumption`).

The provers cannot use the library's induction theorems, whose parameter is an
operator. Where an induction was needed it is written with a least counterexample:
a set of numbers that is not empty has a least member (`Least` in PageTableProofs,
from the library's theorem on well-founded relations, which takes sets only).

Only model-checked is liveness (`NoStarvation`, `MessagesArrive`, `SystemSettles`), since
TLAPS reasons neither about fairness nor about ENABLED.

## What is not modelled

- The GDT, the layout of gates, detection of CPU features and control registers:
  constant tables and register loads.
- Serial port, port I/O and output: device I/O and formatting.
- The copies of the boot loader's responses, and the contents of the memory that is
  reclaimed from it: frames have no contents but in the loaders.
- The bytes of ACPI checksums and of header fields: a sum is zero or not, the fixed
  fields of an ELF header are right or not. Numbers in the headers of the archive
  are well formed.
- The copies to and from user memory, which follow `validate_user_range`. Outside
  System a pointer is valid or refused, and the refusals take the paths of the code.
- Rights of handles: every handle is made with all rights that its calls ask for
  and no call reduces them.
- In PageTable: large pages, which occur only in tables of the boot loader,
  arguments refused before any table is read, and the loop of `map_range`, each
  step of which is a `map` or an `unmap`; its callers run at start-up and panic on an
  error.
- Contents of messages, and the truncation of a message to the receiver's buffer.
