------------------------------- MODULE System -------------------------------
(***************************************************************************)
(* The whole machine, from the firmware's tables to the last exit:         *)
(* kernel_main sets up the interrupt controller, spawns omega3 from the    *)
(* archive and starts the scheduler; omega3 loads echo and client with     *)
(* system calls and ends with a call that does not exist; client sends     *)
(* echo a message and waits for the answer.                                *)
(*                                                                         *)
(* step goes on from "calibrated" through bootstrap::spawn.  at[t] is the  *)
(* place of user program t in its _start.  loader is the state of          *)
(* whichever load_elf runs; only one does at a time.  Frames, tables and   *)
(* stacks may run out wherever they are asked for.  cause records the      *)
(* first unwrap, expect or error that ended a program or the kernel.       *)
(***************************************************************************)
EXTENDS Ipc, InterruptController, Initramfs

CONSTANTS Archives,      \* archives the boot loader may hand over
          Images,        \* Images[name]: what the file of that name may contain
          MAX_HANDLES,   \* entries of a handle table, scaled down
          STACK_PAGES,   \* pages of a user stack, scaled down
          STACK_TOP, INITRAMFS_START,   \* places in the user address space, scaled down
          USIZE_MAX      \* the largest address, scaled down

omega3 == 0
echo == 1
client == 2

ASSUME ThreePrograms == {omega3, echo, client} \subseteq TaskId

\* The numbers in the headers of files are arbitrary, but for what omega3 relies on without
\* a check: a segment's data is no longer than its memory, and the members up to the
\* trailer are in the archive.
ProgramHeader == [type : STRING, address : Nat, offset : Nat, file_size : Nat, memory_size : Nat,
                  alignment : Nat, writable : BOOLEAN, executable : BOOLEAN]
MemberHeader == [name : STRING, name_len : Nat, file_len : Nat]

ASSUME ImagesAssumption ==
    \A name \in {"omega3.elf", "echo.elf", "client.elf"} : \A image \in Images[name] :
        /\ image.segments \in Seq(ProgramHeader) /\ image.entry \in Nat
        /\ name # "omega3.elf" =>
              \A i \in DOMAIN image.segments :
                  image.segments[i].type = "Load" => image.segments[i].file_size <= image.segments[i].memory_size

ASSUME ArchivesAssumption ==
    \A a \in Archives :
        /\ a.length \in Nat /\ a.members \in Seq(MemberHeader)
        /\ find_file(a, "omega3.elf") # None =>
              \A k \in DOMAIN a.members :
                  a.members[k].name # TRAILER =>
                      DataAt(a.members, k) + Align4(a.members[k].file_len) <= a.length

ASSUME StackAssumption ==
    /\ STACK_TOP \in Nat /\ STACK_PAGES \in Nat \ {0}
    /\ STACK_TOP % FRAME_SIZE = 0 /\ 0 < STACK_TOP /\ STACK_TOP <= USER_SPACE_END
ASSUME AddressAssumption ==
    /\ USER_SPACE_END \in Nat /\ USIZE_MAX \in Nat
    /\ USER_SPACE_END % FRAME_SIZE = 0 /\ USER_SPACE_END <= USIZE_MAX

VARIABLES archive,
          loader,
          handles,   \* omega3's handle table: the kinds of its objects
          at,        \* at[t]: the place of program t
          exit,      \* exit[t]: how program t ended
          out,       \* out[t]: the message in t's buffer
          cause

userVars == <<at, exit, out>>
sysVars == <<vars, bootVars, archive, loader, handles, userVars, cause>>

NoImage == [header_ok |-> FALSE, table_ok |-> FALSE, entry |-> 0, segments |-> <<>>]
NoPages == [page \in {} |-> Blank(Zero)]
Idle == [name |-> "none", file |-> [start |-> 0, length |-> 0], image |-> NoImage, segment |-> 1,
         page |-> 0, pages |-> NoPages, scratch |-> Blank(Stale), executable_entry |-> FALSE]

SystemInit ==
    /\ Init
    /\ ControllerInit
    /\ archive = Nothing
    /\ loader = Idle
    /\ handles = <<>>
    /\ at = [t \in TaskId |-> "start"]
    /\ exit = [t \in TaskId |-> "none"]
    /\ out = [t \in TaskId |-> <<>>]
    /\ cause = "none"

-----------------------------------------------------------------------------
\* kernel_main up to init_interrupt_controller; an expect that fails panics.
StartUp ==
    /\ machine = "boot"
    /\ BootPath
    /\ machine' = IF step' = "failed" THEN "panic" ELSE machine
    /\ cause' = IF step' = "failed" THEN "hardware" ELSE cause
    /\ UNCHANGED <<current, state, ready, mailbox, pc, reply, archive, loader, handles, userVars>>

\* The devices; once the line is masked and the timer stopped nothing can be heard of them.
Hardware ==
    /\ machine = "boot" /\ redirection # Nothing
    /\ Devices
    /\ UNCHANGED <<vars, archive, loader, handles, userVars, cause>>

\* A request that was pending when calibration closed its window is delivered in user
\* mode, where interrupts are enabled.
LateInterrupt ==
    /\ InUserMode /\ timer.pending
    /\ LAPIC_COUNT_AT_PIT' = timer.count
    /\ PIT_FIRED' = TRUE
    /\ timer' = [timer EXCEPT !.pending = FALSE]
    /\ UNCHANGED <<step, machineVars, table, entry_addr, info, redirection, pit, interrupts, seen>>
    /\ UNCHANGED <<vars, archive, loader, handles, userVars, cause>>

\* init_interrupt_controller has returned: nothing reads the tables and the count again,
\* and the archive, which the boot loader has left in memory, is read from here on.
Handover ==
    /\ step = "calibrated"
    /\ step' = "spawn"
    /\ firmware' = Nothing /\ cpu' = Nothing /\ chip' = Nothing
    /\ table' = 0 /\ entry_addr' = 0 /\ info' = Nothing
    /\ redirection' = Nothing /\ pit' = "one_shot"
    /\ PIT_FIRED' = TRUE /\ LAPIC_COUNT_AT_PIT' = 0
    /\ seen' = [edge |-> NoCount, close |-> NoCount]
    /\ archive' \in Archives
    /\ UNCHANGED <<timer, interrupts>>
    /\ UNCHANGED <<vars, loader, handles, userVars, cause>>

-----------------------------------------------------------------------------
\* One step of bootstrap::spawn; the kernel panics with a cause or goes on to next.
Booting(here) == machine = "boot" /\ step = here

Continue(next) ==
    /\ step' = next
    /\ UNCHANGED <<machineVars, table, entry_addr, info, redirection, timer, pit, interrupts, flags, seen>>
    /\ UNCHANGED <<vars, archive, handles, userVars, cause>>

KernelPanic(why) ==
    /\ machine' = "panic" /\ cause' = why
    /\ UNCHANGED <<current, state, ready, mailbox, pc, reply>>
    /\ UNCHANGED <<bootVars, archive, loader, handles, userVars>>

spawn_find ==
    /\ Booting("spawn")
    /\ LET file == find_file(archive, "omega3.elf")
       IN  \/ file = None /\ KernelPanic("archive")
           \/ /\ file # None
              /\ \E image \in Images["omega3.elf"] :
                    loader' = [Idle EXCEPT !.name = "omega3.elf", !.file = file, !.image = image]
              /\ Continue("resources")

\* The pages of a stack below its top.
StackPages == {STACK_TOP - i * FRAME_SIZE : i \in 1..STACK_PAGES}

Page(bytes, writable, executable) ==
    [bytes |-> bytes, writable |-> writable, executable |-> executable]

\* The kernel stack, the address space, the archive's mapping and the user stack.
spawn_resources ==
    /\ Booting("resources")
    /\ \/ KernelPanic("memory")
       \/ /\ loader' = [loader EXCEPT !.pages =
                 [page \in StackPages \cup {INITRAMFS_START} |-> Page(Blank(Stale), TRUE, FALSE)]]
          /\ Continue("parse")

\* load_elf of the kernel, from here to load_page.
spawn_parse ==
    /\ Booting("parse")
    /\ \/ ~parse(loader.image) /\ KernelPanic("image")
       \/ parse(loader.image) /\ UNCHANGED loader /\ Continue("segment")

\* The segment that load_elf is at, and the state after it and after a page of it.
Segment == loader.image.segments[loader.segment]
SegmentEnd == Segment.address + Segment.memory_size
Skipped == [loader EXCEPT !.segment = @ + 1]
Mapped(page) ==
    LET pages == [p \in DOMAIN loader.pages \cup {loader.page} |->
                     IF p = loader.page THEN page ELSE loader.pages[p]]
        more == loader.page + FRAME_SIZE < SegmentEnd
    IN  [loader EXCEPT !.pages = pages, !.page = IF more THEN @ + FRAME_SIZE ELSE 0,
                       !.segment = IF more THEN @ ELSE @ + 1]

\* One round of the loop over the segments: an error, nothing to load, or the first page.
load_segment ==
    /\ Booting("segment")
    /\ loader.segment <= Len(loader.image.segments)
    /\ \/ Segment.type # "Load" /\ loader' = Skipped /\ Continue("segment")
       \/ /\ Segment.type = "Load"
          /\ ~SegmentOk(Segment, loader.file.length) \/ SegmentEnd > USER_SPACE_END
          /\ KernelPanic("image")
       \/ /\ Segment.type = "Load"
          /\ SegmentOk(Segment, loader.file.length) /\ SegmentEnd <= USER_SPACE_END
          /\ \/ Segment.memory_size = 0 /\ loader' = Skipped /\ Continue("segment")
             \/ /\ Segment.memory_size > 0
                /\ loader' = [loader EXCEPT
                       !.page = PageOf(Segment.address),
                       !.executable_entry = \/ @
                                            \/ /\ Segment.executable
                                               /\ Segment.address <= loader.image.entry
                                               /\ loader.image.entry < SegmentEnd]
                /\ Continue("page")

\* One page: a frame, its contents, and map(), which refuses a page that is in use.
spawn_page ==
    /\ Booting("page")
    /\ \/ KernelPanic("memory")
       \/ loader.page \in DOMAIN loader.pages /\ KernelPanic("image")
       \/ /\ loader.page \notin DOMAIN loader.pages
          /\ loader' = Mapped(Page(load_page(Segment, loader.file.start, loader.page),
                                   Segment.writable, Segment.executable))
          /\ Continue(IF loader'.segment = loader.segment THEN "page" ELSE "segment")

load_elf_end ==
    /\ Booting("segment")
    /\ loader.segment > Len(loader.image.segments)
    /\ \/ ~loader.executable_entry /\ KernelPanic("image")
       \/ loader.executable_entry /\ UNCHANGED loader /\ Continue("insert")

\* insert_address_space, Tcb::new_user with its two handles, and add_task.
spawn_insert ==
    /\ Booting("insert")
    /\ Spawn
    /\ step' = "start"
    /\ loader' = Idle
    /\ handles' = <<"AddressSpace", "Thread">>
    /\ UNCHANGED <<machineVars, table, entry_addr, info, redirection, timer, pit, interrupts, flags, seen>>
    /\ UNCHANGED <<mailbox, pc, reply, archive, userVars, cause>>

scheduler_start ==
    /\ Booting("start")
    /\ start
    /\ step' = "user"
    /\ UNCHANGED <<machineVars, table, entry_addr, info, redirection, timer, pit, interrupts, flags, seen>>
    /\ UNCHANGED <<mailbox, pc, reply, archive, loader, handles, userVars, cause>>

bootstrap_spawn ==
    \/ Handover \/ spawn_find \/ spawn_resources \/ spawn_parse \/ load_segment \/ spawn_page
    \/ load_elf_end \/ spawn_insert \/ scheduler_start

-----------------------------------------------------------------------------
\* Program t is at a place of its _start and runs in user mode.
Running(t, place) == InUserMode /\ current = t /\ at[t] = place

Goto(t, place) == at' = [at EXCEPT ![t] = place]

\* A step of omega3 that neither ends nor creates a task.
OmegaGoto(place) ==
    /\ Goto(omega3, place)
    /\ UNCHANGED <<vars, bootVars, archive, exit, out, cause>>

\* omega3 ends before its work is done; nothing looks at its handles any more.
OmegaStops(how, why) ==
    /\ exit_current
    /\ Goto(omega3, "gone")
    /\ exit' = [exit EXCEPT ![omega3] = how]
    /\ cause' = why
    /\ reply' = NoReply
    /\ UNCHANGED <<mailbox, pc, bootVars, archive, loader, handles, out>>

\* unwrap fails, or a sum overflows: the panic handler is sys_exit(1).
OmegaPanic(why) == OmegaStops("1", why)

\* A page fault in user mode: the kernel's handler ends the task.
OmegaFault(why) == OmegaStops("SegmentationFault", why)

\* HandleTable::push finds the first free entry; omega3 never closes a handle.
TableFull == Len(handles) = MAX_HANDLES
Push(kind) == handles' = Append(handles, kind)
\* sys_map and sys_unmap turn the newest handle, a frame, into a mapping and back.
Becomes(kind) == handles' = [handles EXCEPT ![Len(handles)] = kind]

\* The next program that omega3 loads.
Target == IF loader.name = "none" THEN "echo.elf" ELSE "client.elf"

omega_find ==
    /\ Running(omega3, "start")
    /\ LET file == omega_find_file(archive, Target)
       IN  \/ file = None /\ OmegaPanic("archive")
           \/ /\ file # None
              /\ \E image \in Images[Target] :
                    loader' = [Idle EXCEPT !.name = Target, !.file = file, !.image = image]
              /\ OmegaGoto("parse")
              /\ UNCHANGED handles

omega_parse ==
    /\ Running(omega3, "parse")
    /\ \/ ~loader.image.header_ok /\ OmegaPanic("image")
       \/ loader.image.header_ok /\ OmegaGoto("as_create") /\ UNCHANGED <<loader, handles>>

omega_as_create ==
    /\ Running(omega3, "as_create")
    /\ \/ OmegaPanic("memory")
       \/ TableFull /\ OmegaPanic("handles")
       \/ ~TableFull /\ Push("AddressSpace") /\ OmegaGoto("header") /\ UNCHANGED loader

\* program_headers() and one round of load_elf's loop over them.  The end of a segment may
\* not be an address.
omega_header ==
    /\ Running(omega3, "header")
    /\ UNCHANGED handles
    /\ \/ ~loader.image.table_ok /\ OmegaPanic("image")
       \/ /\ loader.image.table_ok
          /\ loader.segment > Len(loader.image.segments)
          /\ loader' = [loader EXCEPT !.page = STACK_TOP - FRAME_SIZE]
          /\ OmegaGoto("stack_frame")
       \/ /\ loader.image.table_ok
          /\ loader.segment <= Len(loader.image.segments)
          /\ \/ /\ Segment.type # "Load" \/ Segment.memory_size = 0
                /\ loader' = Skipped
                /\ OmegaGoto("header")
             \/ /\ Segment.type = "Load" /\ Segment.memory_size > 0 /\ SegmentEnd > USIZE_MAX
                /\ OmegaPanic("image")
             \/ /\ Segment.type = "Load" /\ Segment.memory_size > 0 /\ SegmentEnd <= USIZE_MAX
                /\ loader' = [loader EXCEPT !.page = PageOf(Segment.address)]
                /\ OmegaGoto("frame")

\* sys_frame_alloc, for a page of the image or of the stack.
FrameAlloc(here, next) ==
    /\ Running(omega3, here)
    /\ \/ OmegaPanic("memory")
       \/ TableFull /\ OmegaPanic("handles")
       \/ ~TableFull /\ Push("Frame") /\ OmegaGoto(next) /\ UNCHANGED loader

\* The frame is mapped at the scratch page, for whose tables memory may run out, and filled.
\* The end of the page may not be an address.  A copy that leaves the archive faults, panics
\* over its own address, or reads what else is mapped there.
LeavesArchive == leaves_archive(Segment, loader.file.start, loader.page, archive.length)

omega_scratch ==
    /\ Running(omega3, "scratch")
    /\ \/ OmegaPanic("memory")
       \/ loader.page + FRAME_SIZE > USIZE_MAX /\ OmegaPanic("image")
       \/ /\ loader.page + FRAME_SIZE <= USIZE_MAX /\ LeavesArchive
          /\ OmegaPanic("image") \/ OmegaFault("image")
       \/ /\ loader.page + FRAME_SIZE <= USIZE_MAX
          /\ Becomes("Mapping")
          /\ loader' = [loader EXCEPT !.scratch = omega_load_page(Segment, loader.file.start, loader.page)]
          /\ OmegaGoto("unmap")

omega_unmap ==
    /\ Running(omega3, "unmap")
    /\ Becomes("Frame") /\ UNCHANGED loader
    /\ OmegaGoto("map")

\* sys_map into the new address space: the page must be the user's and not in use.
CannotMap == loader.page + FRAME_SIZE > USER_SPACE_END \/ loader.page \in DOMAIN loader.pages

omega_map ==
    /\ Running(omega3, "map")
    /\ \/ OmegaPanic("memory")
       \/ CannotMap /\ OmegaPanic("image")
       \/ /\ ~CannotMap
          /\ Becomes("Mapping")
          /\ loader' = Mapped(Page(loader.scratch, Segment.writable, Segment.executable))
          /\ OmegaGoto(IF loader'.segment = loader.segment THEN "frame" ELSE "header")

\* map_stack
omega_stack_map ==
    /\ Running(omega3, "stack_map")
    /\ \/ OmegaPanic("memory")
       \/ CannotMap /\ OmegaPanic("image")
       \/ /\ ~CannotMap
          /\ Becomes("Mapping")
          /\ loader' = [loader EXCEPT !.page = @ - FRAME_SIZE,
                    !.pages = [p \in DOMAIN @ \cup {loader.page} |->
                                  IF p = loader.page THEN Page(Blank(Zero), TRUE, FALSE) ELSE @[p]]]
          /\ OmegaGoto(IF loader'.page < STACK_TOP - STACK_PAGES * FRAME_SIZE THEN "create" ELSE "stack_frame")

-----------------------------------------------------------------------------
\* AddressSpace::mapping allows the access, for any address of the page.
Allowed(pages, address, writable) ==
    PageOf(address) \in DOMAIN pages /\ (writable => pages[PageOf(address)].writable)

\* Variant: the pages are counted from the first byte, which need not begin one.
validate_user_range_unaligned(pages, first, len, writable) ==
    /\ first + len <= USIZE_MAX
    /\ first < USER_SPACE_END /\ first + len <= USER_SPACE_END
    /\ \A i \in 0..len :
          first + i * FRAME_SIZE < first + len => Allowed(pages, first + i * FRAME_SIZE, writable)

\* validate_user_range: an empty range passes, otherwise every page from that of the
\* first byte on is looked up.
validate_user_range(pages, first, len, writable) ==
    /\ first + len <= USIZE_MAX
    /\ first < USER_SPACE_END /\ first + len <= USER_SPACE_END
    /\ len # 0 =>
          \A i \in 0..len :
              PageOf(first) + i * FRAME_SIZE < first + len =>
                  Allowed(pages, PageOf(first) + i * FRAME_SIZE, writable)

\* The checks of sys_task_create on the entry point and the stack.
EntryValid ==
    LET entry == loader.image.entry
        pages == loader.pages
    IN  /\ entry # 0 /\ entry < USER_SPACE_END
        /\ validate_user_range(pages, STACK_TOP - 1, 1, TRUE)
        /\ PageOf(entry) \in DOMAIN pages /\ pages[PageOf(entry)].executable

\* sys_task_create: refused, added, or undone because the creator has no free handle.
\* A call that fails is unwrapped in the next step, Leave.
omega_create ==
    /\ Running(omega3, "create")
    /\ reply' = NoReply
    /\ \/ /\ CreateRefused
          /\ Goto(omega3, "panic")
          /\ cause' = IF EntryValid THEN "memory" ELSE "image"
          /\ UNCHANGED <<loader, handles>>
       \/ /\ EntryValid /\ TableFull
          /\ CreateUndone
          /\ Goto(omega3, "panic")
          /\ cause' = "handles"
          /\ UNCHANGED <<loader, handles>>
       \/ /\ EntryValid /\ ~TableFull
          /\ CreateAdded
          /\ Push("Thread")
          /\ Goto(omega3, IF loader.name = "echo.elf" THEN "start" ELSE "bogus")
          /\ loader' = [Idle EXCEPT !.name = loader.name]
          /\ UNCHANGED cause
    /\ UNCHANGED <<bootVars, archive, exit, out>>

\* System call 134 does not exist: dispatch ends the task.
omega_bogus_call ==
    /\ Running(omega3, "bogus")
    /\ exit_current
    /\ Goto(omega3, "gone")
    /\ exit' = [exit EXCEPT ![omega3] = "BadSystemCall"]
    /\ reply' = NoReply
    /\ loader' = Idle
    /\ UNCHANGED <<mailbox, pc, bootVars, archive, handles, out, cause>>

Omega3 ==
    \/ omega_find \/ omega_parse \/ omega_as_create \/ omega_header
    \/ FrameAlloc("frame", "scratch") \/ omega_scratch \/ omega_unmap \/ omega_map
    \/ FrameAlloc("stack_frame", "stack_map") \/ omega_stack_map
    \/ omega_create \/ omega_bogus_call

-----------------------------------------------------------------------------
\* sys_recv of program t with a buffer that is its own, so that only the mailbox decides.
\* It blocks, comes back with a message, or comes back with an error that is unwrapped.
Receive(t, place, next) ==
    /\ current = t /\ at[t] = place
    /\ \/ InUserMode /\ RecvBlock
       \/ InUserMode /\ mailbox[t] # <<>> /\ FinishRecv
       \/ RecvResume
    /\ reply'.status \notin {"InvalidArgument", "BadAddress"}
    /\ \/ reply' = NoReply /\ UNCHANGED <<at, out>>
       \/ /\ reply' # NoReply
          /\ Goto(t, IF reply'.status = "Ok" THEN next ELSE "panic")
          /\ out' = [out EXCEPT ![t] = reply'.msg]
    /\ UNCHANGED <<bootVars, archive, loader, handles, exit, cause>>

\* sys_send of program t, unwrapped as well.
SendTo(t, place, dest, data, next) ==
    /\ Running(t, place)
    /\ SendNoSuchTask(dest) \/ MailboxFull(dest) \/ Enqueue(dest, data)
    /\ Goto(t, IF reply'.status = "Ok" THEN next ELSE "panic")
    /\ UNCHANGED <<bootVars, archive, loader, handles, exit, out, cause>>

\* sys_exit of a program that is done, or of its panic handler.
Leave(t) ==
    /\ InUserMode /\ current = t /\ at[t] \in {"exit", "panic"}
    /\ exit_current
    /\ Goto(t, "gone")
    /\ exit' = [exit EXCEPT ![t] = IF at[t] = "exit" THEN "0" ELSE "1"]
    /\ cause' = IF at[t] = "panic" /\ cause = "none" THEN "conversation" ELSE cause
    /\ reply' = NoReply
    /\ UNCHANGED <<mailbox, pc, bootVars, archive, loader, handles, out>>

\* echo: receive, and send the same bytes back to the sender, for ever.
Echo ==
    \/ Receive(echo, "start", "answer")
    \/ at[echo] = "answer" /\ SendTo(echo, "answer", out[echo][1].sender, out[echo][1].data, "start")

Hello == CHOOSE data \in Payload : TRUE

\* client: send to task 1, receive the answer, exit(0).
Client ==
    \/ SendTo(client, "start", echo, Hello, "receive")
    \/ Receive(client, "receive", "exit")

Halted_forever ==
    /\ Halt
    /\ UNCHANGED <<bootVars, archive, loader, handles, userVars, cause>>

-----------------------------------------------------------------------------
Software ==
    StartUp \/ bootstrap_spawn \/ Omega3 \/ Echo \/ Client \/ \E t \in TaskId : Leave(t)

SystemNext == Software \/ Hardware \/ LateInterrupt \/ Halted_forever

\* The one CPU always executes, and the local timer counts.  The PIT may never answer.
SystemSpec ==
    /\ SystemInit /\ [][SystemNext]_sysVars
    /\ WF_sysVars(Software)
    /\ WF_sysVars(Hardware /\ timer'.count < timer.count)

-----------------------------------------------------------------------------
\* What an image must be to be loaded, without loading it: the pages of its segments are
\* the user's, are nobody else's, and the entry point is in code.
Loaded(image) == {i \in DOMAIN image.segments : image.segments[i].type = "Load" /\ image.segments[i].memory_size > 0}
PagesOf(s) == {PageOf(a) : a \in s.address..(s.address + s.memory_size - 1)}

Fits(image, reserved) ==
    \A i \in Loaded(image) :
        LET s == image.segments[i]
        IN  /\ s.address + s.memory_size <= USER_SPACE_END
            /\ PagesOf(s) \cap reserved = {}
            /\ \A j \in Loaded(image) \ {i} : PagesOf(s) \cap PagesOf(image.segments[j]) = {}

InCode(image) ==
    \E i \in Loaded(image) :
        LET s == image.segments[i]
        IN  s.executable /\ s.address <= image.entry /\ image.entry < s.address + s.memory_size

KernelLoads(image) ==
    /\ parse(image)
    /\ Fits(image, StackPages \cup {INITRAMFS_START})
    /\ InCode(image)
    /\ \A i \in DOMAIN image.segments :
          image.segments[i].type = "Load" => /\ SegmentOk(image.segments[i], loader.file.length)
                                            /\ image.segments[i].address + image.segments[i].memory_size <= USER_SPACE_END

DataInFile(image) ==
    \A i \in Loaded(image) : image.segments[i].offset + image.segments[i].file_size <= loader.file.length

OmegaLoads(image) ==
    /\ image.header_ok /\ image.table_ok
    /\ Fits(image, StackPages)
    /\ DataInFile(image)
    /\ image.entry # 0
    /\ \E i \in Loaded(image) :
          image.segments[i].executable /\ PageOf(image.entry) \in PagesOf(image.segments[i])

\* Where the data of a program, the first member of its name, is in the archive, by the
\* layout of the format.
FirstOfName(members, name, k) == members[k].name = name /\ \A j \in 1..(k - 1) : members[j].name # name

Stored(name) ==
    LET members == archive.members
        k == CHOOSE k \in DOMAIN members : FirstOfName(members, name, k)
    IN  DataAt(members, k)

\* Both loaders put into memory what the file says and nothing else (bootstrap.rs and
\* omega3's main.rs, load_elf): when a program is about to run, each byte of its pages is
\* the byte of the archive that a segment puts there, or zero, never what the frame held
\* before; every page has the permissions of its segment, and no byte of a segment is missing.
\* For the kernel that byte is one of the program's own file.  omega3 does not look whether
\* it is: counted from the start of the file it is the right one, in the file or behind it.
ImageMatchesFile ==
    (machine = "boot" /\ step = "insert") \/ at[omega3] = "create" =>
        LET image == loader.image
            reserved == StackPages \cup (IF step = "insert" THEN {INITRAMFS_START} ELSE {})
            loaded == DOMAIN loader.pages \ reserved
        IN  /\ Fits(image, reserved)
            /\ loaded = UNION {PagesOf(image.segments[i]) : i \in Loaded(image)}
            /\ \A p \in loaded, b \in 0..(FRAME_SIZE - 1) :
                  loader.pages[p].bytes[b] = FileByte(image, Stored(loader.name), p + b)
            /\ step = "insert" => DataInFile(image)
            /\ \A i \in Loaded(image) : \A p \in PagesOf(image.segments[i]) :
                  /\ loader.pages[p].writable = image.segments[i].writable
                  /\ loader.pages[p].executable = image.segments[i].executable

\* The kernel accepts a buffer exactly when every byte of it is the user's, mapped and, if
\* need be, writable (user.rs, validate_user_range): at the end of user space, across the
\* boundary of two pages of which one is not mapped, and empty.  The address spaces are
\* those that omega3 builds.
UserRangeExact ==
    at[omega3] = "create" =>
        \A first \in 0..USIZE_MAX, writable \in BOOLEAN :
            \A len \in 0..(2 * FRAME_SIZE + 1) \cup {USIZE_MAX} :
                validate_user_range(loader.pages, first, len, writable) <=>
                    /\ first < USER_SPACE_END
                    /\ \A a \in first..(first + len - 1) :
                          a < USER_SPACE_END /\ Allowed(loader.pages, a, writable)

\* The archive holds the file of that name, before its trailer and with all of its bytes.
Whole(a, name) ==
    \E k \in DOMAIN a.members :
        /\ a.members[k].name = name
        /\ \A j \in 1..(k - 1) : a.members[j].name # TRAILER
        /\ DataAt(a.members, k) + a.members[k].file_len <= a.length

\* How the machine ends, and why (kernel_main, and _start of the three programs).  If
\* nothing was wrong, client has its own message back and has exited with 0, omega3 was
\* ended by its last call, and echo waits for more.  Nobody gives up without a reason: an
\* archive without the program, an image that cannot be loaded, a handle table full of
\* handles in use, or memory; and then the kernel panics, or omega3 exits with 1 and leaves
\* echo, if it was created, waiting for a client that never comes.  omega3 may also be ended
\* by a page fault, but only over an image whose data is not in its file.  The conversation
\* itself never fails.
EndsAsItShould ==
    machine \in Halted =>
        \/ /\ cause = "none" /\ machine = "exited"
           /\ exit = [t \in TaskId |-> IF t = omega3 THEN "BadSystemCall" ELSE IF t = client THEN "0" ELSE "none"]
           /\ out[client] = <<[sender |-> echo, data |-> Hello]>>
           /\ state[echo] = "Blocked" /\ mailbox[echo] = <<>>
        \/ /\ cause \in {"hardware", "memory", "archive", "image"}
           /\ machine = "panic" /\ current = NoTask
           /\ cause = "archive" => ~Whole(archive, "omega3.elf")
           /\ cause = "image" => ~KernelLoads(loader.image)
        \/ /\ cause \in {"memory", "archive", "image", "handles"}
           /\ exit[omega3] \in {"1", "SegmentationFault"}
           /\ \A t \in TaskId \ {omega3} : exit[t] = "none"
           /\ exit[omega3] = "SegmentationFault" => cause = "image" /\ ~DataInFile(loader.image)
           /\ machine = IF state[echo] = "None" THEN "exited" ELSE "deadlock"
           /\ cause = "archive" => ~Whole(archive, Target)
           /\ cause = "image" => ~OmegaLoads(loader.image)
           /\ cause = "handles" => TableFull /\ \A i \in DOMAIN handles : handles[i] # "Frame"

\* The machine comes to an end: whatever the firmware, the archive and the files contain,
\* no loop of the start-up or of the programs runs for ever, and the wait for the PIT is
\* bounded by the local timer even if the PIT never answers.
SystemSettles == <>(machine \in Halted)
=============================================================================
