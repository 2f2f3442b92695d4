--------------------------------- MODULE Ipc ---------------------------------
(***************************************************************************)
(* The system calls through which tasks give up the CPU and talk to each   *)
(* other (src/src/syscall/table.rs), on top of the scheduler.              *)
(*                                                                         *)
(* A task is either in user mode or inside sys_recv, waiting for the CPU   *)
(* after block_current; a resumed task finishes sys_recv before any other  *)
(* code runs.  A mailbox is the FIFO queue that module Mailbox implements. *)
(* Payload stands for the bytes and the length of a message.  Whether a    *)
(* pointer argument is valid is decided by the address space of the        *)
(* caller, which is not part of this module: both answers are possible.    *)
(***************************************************************************)
EXTENDS Scheduler

CONSTANTS MAILBOX_CAPACITY,   \* messages a mailbox holds
          Payload             \* contents a message may have

ASSUME MailboxAssumption == MAILBOX_CAPACITY \in Nat \ {0}

VARIABLES mailbox,     \* mailbox[t]: messages for t, oldest first
          pc,          \* pc[t]: "recv" while t is inside sys_recv
          reply        \* what the system call of this step answered, if any

vars == <<current, state, ready, machine, mailbox, pc, reply>>

Message == [sender : TaskId, data : Payload]
Status == {"Ok", "InvalidArgument", "BadAddress", "NoSuchTask", "OutOfMemory"}

\* The status word of a finished call and the message it copied out.
Reply(call, task, status, msg) ==
    [call |-> call, task |-> task, status |-> status, msg |-> msg]

NoReply == Reply("none", NoTask, "Ok", <<>>)

\* A destination may be any number; one that is no slot stands for the rest.
Destination == 0..MAX_TASKS

Init ==
    /\ SchedInit
    /\ mailbox = [t \in TaskId |-> <<>>]
    /\ pc = [t \in TaskId |-> "user"]
    /\ reply = NoReply

\* The current task runs its own code and may enter the kernel.
InUserMode == machine = "running" /\ pc[current] = "user"

-----------------------------------------------------------------------------
\* bootstrap::spawn and scheduler::start.
Boot ==
    /\ Spawn \/ start
    /\ reply' = NoReply
    /\ UNCHANGED <<mailbox, pc>>

sys_yield ==
    /\ InUserMode
    /\ yield_current
    /\ reply' = NoReply
    /\ UNCHANGED <<mailbox, pc>>

\* sys_exit, an unknown system call number, and an exception in user mode.
sys_exit ==
    /\ InUserMode
    /\ exit_current
    /\ reply' = NoReply
    /\ UNCHANGED <<mailbox, pc>>

Halt ==
    /\ hcf
    /\ reply' = NoReply
    /\ UNCHANGED <<mailbox, pc>>

-----------------------------------------------------------------------------
\* with_task and with_task_mut find a task in the slot.
Exists(t) == t \in TaskId /\ state[t] # "None"

\* The message is longer than MAX_MSG_SIZE, or its bytes cannot be read.
SendBadArgument ==
    /\ \E status \in {"InvalidArgument", "BadAddress"} :
          reply' = Reply("send", current, status, <<>>)
    /\ UNCHANGED <<schedVars, mailbox, pc>>

\* There is no such slot, or no task in it.
SendNoSuchTask(dest) ==
    /\ ~Exists(dest)
    /\ reply' = Reply("send", current, "NoSuchTask", <<>>)
    /\ UNCHANGED <<schedVars, mailbox, pc>>

MailboxFull(dest) ==
    /\ Exists(dest)
    /\ Len(mailbox[dest]) = MAILBOX_CAPACITY
    /\ reply' = Reply("send", current, "OutOfMemory", <<>>)
    /\ UNCHANGED <<schedVars, mailbox, pc>>

\* Variant: the message is queued and nobody is woken.
Enqueue_no_wakeup(dest, data) ==
    /\ Exists(dest)
    /\ Len(mailbox[dest]) < MAILBOX_CAPACITY
    /\ mailbox' = [mailbox EXCEPT ![dest] =
                      Append(@, [sender |-> current, data |-> data])]
    /\ reply' = Reply("send", current, "Ok", <<>>)
    /\ UNCHANGED <<schedVars, pc>>

\* The message is queued and a receiver blocked in sys_recv is woken.
Enqueue(dest, data) ==
    /\ Exists(dest)
    /\ Len(mailbox[dest]) < MAILBOX_CAPACITY
    /\ mailbox' = [mailbox EXCEPT ![dest] =
                      Append(@, [sender |-> current, data |-> data])]
    /\ IF state[dest] = "Blocked" THEN unblock(dest) ELSE UNCHANGED schedVars
    /\ reply' = Reply("send", current, "Ok", <<>>)
    /\ UNCHANGED pc

sys_send(dest, data) ==
    /\ InUserMode
    /\ \/ SendBadArgument
       \/ SendNoSuchTask(dest)
       \/ MailboxFull(dest)
       \/ Enqueue(dest, data)

-----------------------------------------------------------------------------
\* Variant: the message is taken before the pointers are validated.
FinishRecv_pop_first ==
    /\ pc' = [pc EXCEPT ![current] = "user"]
    /\ mailbox' = [mailbox EXCEPT ![current] = IF @ = <<>> THEN @ ELSE Tail(@)]
    /\ \/ \E status \in {"InvalidArgument", "BadAddress"} :
             reply' = Reply("recv", current, status, <<>>)
       \/ reply' = IF mailbox[current] = <<>>
                   THEN Reply("recv", current, "NoSuchTask", <<>>)
                   ELSE Reply("recv", current, "Ok", <<Head(mailbox[current])>>)
    /\ UNCHANGED schedVars

\* The rest of sys_recv, after the mailbox was seen not to be empty or the
\* task was woken: the pointers are validated, then the message is taken.
FinishRecv ==
    /\ pc' = [pc EXCEPT ![current] = "user"]
    /\ \/ /\ \E status \in {"InvalidArgument", "BadAddress"} :
                reply' = Reply("recv", current, status, <<>>)
          /\ UNCHANGED mailbox
       \/ /\ mailbox' = [mailbox EXCEPT ![current] = IF @ = <<>> THEN @ ELSE Tail(@)]
          /\ reply' = IF mailbox[current] = <<>>
                      THEN Reply("recv", current, "NoSuchTask", <<>>)
                      ELSE Reply("recv", current, "Ok", <<Head(mailbox[current])>>)
    /\ UNCHANGED schedVars

\* out_ptr is null.
RecvNullPointer ==
    /\ reply' = Reply("recv", current, "InvalidArgument", <<>>)
    /\ UNCHANGED <<schedVars, mailbox, pc>>

\* Variant: the task blocks whether or not a message is waiting.
RecvBlock_always ==
    /\ block_current
    /\ pc' = [pc EXCEPT ![current] = "recv"]
    /\ reply' = NoReply
    /\ UNCHANGED mailbox

\* Variant: the task gives way but stays ready.
RecvBlock_yields ==
    /\ mailbox[current] = <<>>
    /\ yield_current
    /\ pc' = [pc EXCEPT ![current] = "recv"]
    /\ reply' = NoReply
    /\ UNCHANGED mailbox

RecvBlock ==
    /\ mailbox[current] = <<>>
    /\ block_current
    /\ pc' = [pc EXCEPT ![current] = "recv"]
    /\ reply' = NoReply
    /\ UNCHANGED mailbox

sys_recv ==
    /\ InUserMode
    /\ \/ RecvNullPointer
       \/ RecvBlock
       \/ mailbox[current] # <<>> /\ FinishRecv

\* The scheduler has switched back to a task inside sys_recv.
RecvResume ==
    /\ machine = "running"
    /\ pc[current] = "recv"
    /\ FinishRecv

-----------------------------------------------------------------------------
\* Arguments that are not valid, no kernel stack, or no empty slot.
CreateRefused == UNCHANGED <<schedVars, mailbox, pc>>

CreateAdded ==
    /\ \E t \in TaskId : add_task(t) /\ mailbox' = [mailbox EXCEPT ![t] = <<>>]
    /\ UNCHANGED pc

\* Variant: the new task's slot is emptied but its queue entry is kept.
CreateUndone_stale ==
    /\ \E t \in TaskId :
          /\ FirstFree(t)
          /\ ready' = PushBack(ready, t)
    /\ UNCHANGED <<current, state, machine, mailbox, pc>>

\* add_task succeeds, the creator has no free handle, remove_task follows.
CreateUndone ==
    /\ \E t \in TaskId :
          /\ FirstFree(t)
          /\ ready' = ReadyWithout(PushBack(ready, t), t)
          /\ Assert(~Full(ready))
    /\ UNCHANGED <<current, state, mailbox, pc>>

sys_task_create ==
    /\ InUserMode
    /\ CreateRefused \/ CreateAdded \/ CreateUndone
    /\ reply' = NoReply

-----------------------------------------------------------------------------
Next ==
    \/ Boot
    \/ sys_yield
    \/ sys_exit
    \/ \E dest \in Destination, data \in Payload : sys_send(dest, data)
    \/ sys_recv
    \/ RecvResume
    \/ sys_task_create
    \/ Halt

Spec == Init /\ [][Next]_vars

\* The tasks cooperate, as in Scheduler, and the kernel finishes sys_recv.
LeaveCpu == sys_yield \/ sys_exit \/ (InUserMode /\ RecvBlock)

FairSpec == Spec /\ WF_vars(LeaveCpu \/ RecvResume)

-----------------------------------------------------------------------------
\* The variables have their types and no mailbox is over its capacity.
TypeOK ==
    /\ SchedTypeOK
    /\ mailbox \in [TaskId -> Seq(Message)]
    /\ \A t \in TaskId : Len(mailbox[t]) <= MAILBOX_CAPACITY
    /\ pc \in [TaskId -> {"user", "recv"}]
    /\ reply.status \in Status

\* No wakeup is lost: a task that sleeps in sys_recv has no message waiting.
\* Otherwise nothing but a second message could ever wake it.
NoLostWakeup ==
    \A t \in TaskId :
        state[t] = "Blocked" => pc[t] = "recv" /\ mailbox[t] = <<>>

\* A task that comes back from block_current inside sys_recv finds a message:
\* the pop that follows (table.rs, `ok_or(Status::NoSuchTask)`) has one to take.
WokenFindsMessage ==
    machine \notin Halted =>
        \A t \in TaskId :
            pc[t] = "recv" /\ state[t] # "Blocked" => mailbox[t] # <<>>

\* When the kernel halts because nobody is ready, nothing is left to do: every
\* other task is dead or sleeps with an empty mailbox.
HaltIsQuiescent ==
    machine \in {"deadlock", "exited"} =>
        \A t \in TaskId \ {current} :
            \/ state[t] \in {"None", "Dead"}
            \/ state[t] = "Blocked" /\ mailbox[t] = <<>>

\* A task identifier is never given to a second task and a dead task stays
\* dead, so a message or a Thread handle never reaches a later task.
IdentifiersNeverReused ==
    [][\A t \in TaskId :
          /\ state[t] # "None" => state'[t] # "None"
          /\ state[t] = "Dead" => state'[t] = "Dead" /\ ~Queued(ready', t)]_vars

Abstract == INSTANCE Inboxes WITH
    Capacity <- MAILBOX_CAPACITY, inbox <- mailbox

\* Through all the switching of tasks, sys_send and sys_recv are operations on
\* inboxes: an accepted message is received once, by its destination, in the
\* order of sending; a call that fails has no effect; sys_recv never fails for
\* want of a message.
ImplementsInboxes == Abstract!Spec

\* Every step of the system calls is a step of the scheduler or leaves it alone.
ImplementsScheduler == SchedSpec

\* A receiver that sleeps in sys_recv and is sent a message returns to user
\* mode, whatever the other tasks send, create and yield meanwhile.
MessagesArrive ==
    \A t \in TaskId :
        pc[t] = "recv" /\ mailbox[t] # <<>> ~> pc[t] = "user"
=============================================================================
