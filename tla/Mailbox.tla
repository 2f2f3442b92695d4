------------------------------- MODULE Mailbox -------------------------------
(***************************************************************************)
(* A task's ring of undelivered messages (src/src/task/tcb.rs, struct      *)
(* Mailbox): an array of MAILBOX_CAPACITY optional messages.  pop copies   *)
(* the oldest one out and leaves the copy in its slot.                     *)
(***************************************************************************)
EXTENDS Integers, Sequences

CONSTANTS MAILBOX_CAPACITY,   \* slots of the ring
          Message             \* messages that may be sent

ASSUME CapacityAssumption == MAILBOX_CAPACITY \in Nat \ {0}
ASSUME MessageAssumption == "none" \notin Message

VARIABLES messages,    \* the array
          head,        \* index of the oldest message
          len,         \* messages in use
          ret          \* what the last operation returned

mailboxVars == <<messages, head, len, ret>>

\* The None of Option<Message>.
NoMessage == "none"
Slots == 0..(MAILBOX_CAPACITY - 1)

\* The slot that is i places behind the oldest message.
Slot(i) == (head + i) % MAILBOX_CAPACITY

MailboxInit ==
    /\ messages = [s \in Slots |-> NoMessage]
    /\ head = 0
    /\ len = 0
    /\ ret = NoMessage

-----------------------------------------------------------------------------
\* pop returns what the slot holds, an Option.
pop ==
    \/ /\ len = 0
       /\ ret' = NoMessage
       /\ UNCHANGED <<messages, head, len>>
    \/ /\ len # 0
       /\ ret' = messages[head]
       /\ head' = (head + 1) % MAILBOX_CAPACITY
       /\ len' = len - 1
       /\ UNCHANGED messages

\* Variant: the oldest message is overwritten when the mailbox is full.
push_overwrite(msg) ==
    /\ messages' = [messages EXCEPT ![Slot(len)] = msg]
    /\ len' = IF len = MAILBOX_CAPACITY THEN len ELSE len + 1
    /\ ret' = "true"
    /\ UNCHANGED head

push(msg) ==
    \/ /\ len = MAILBOX_CAPACITY
       /\ ret' = "false"
       /\ UNCHANGED <<messages, head, len>>
    \/ /\ len # MAILBOX_CAPACITY
       /\ messages' = [messages EXCEPT ![Slot(len)] = msg]
       /\ len' = len + 1
       /\ ret' = "true"
       /\ UNCHANGED head

MailboxNext == pop \/ \E msg \in Message : push(msg)

MailboxSpec == MailboxInit /\ [][MailboxNext]_mailboxVars

-----------------------------------------------------------------------------
\* The array, the index and the count stay within their bounds.
MailboxTypeOK ==
    /\ messages \in [Slots -> Message \cup {NoMessage}]
    /\ head \in Slots
    /\ len \in 0..MAILBOX_CAPACITY
    /\ ret \in Message \cup {NoMessage, "true", "false"}

\* A slot that counts as in use holds a message: pop never answers None for
\* a mailbox whose len is not 0, so sys_recv, which tests len before it
\* blocks and then pops, does not report an error for a message that is there.
UsedSlotsHoldMessages ==
    \A i \in 0..(len - 1) : messages[Slot(i)] \in Message

\* The queue that the ring stands for.
Contents == [k \in 1..len |-> messages[Slot(k - 1)]]

Abstract == INSTANCE Fifo WITH
    Elem <- Message, Capacity <- MAILBOX_CAPACITY, queue <- Contents, ret <- ret

\* Seen through Contents, push and pop are the operations of a first-in
\* first-out queue: an accepted message is handed out once, in order, and a
\* full mailbox refuses the new message rather than lose an old one.
ImplementsFifo == Abstract!Spec
=============================================================================
