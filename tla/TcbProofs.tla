------------------------------ MODULE TcbProofs ------------------------------
(***************************************************************************)
(* What a thread control block holds (src/src/task/tcb.rs): its mailbox    *)
(* and its handles.                                                        *)
(*                                                                         *)
(* Mailbox, for every capacity and every set of messages: the ring keeps   *)
(* its bounds, the slots in use hold messages, and the ring implements a   *)
(* bounded first-in first-out queue.                                       *)
(*                                                                         *)
(* Capabilities, for any number of tasks, handles, address spaces, frames  *)
(* and pages: every frame has one owner and the page tables agree with the *)
(* handles.                                                                *)
(***************************************************************************)
EXTENDS Mailbox, Capabilities, SequenceTheorems, TLAPS

\* Steps that need arithmetic, or that Zenon does not find, name SMT.
USE Zenon

-----------------------------------------------------------------------------
(* The mailbox.                                                            *)

USE CapacityAssumption

\* Slot(i) is an index of the array: an index less than two laps ahead wraps
\* at most once.
LEMMA SlotProperties ==
    ASSUME MailboxTypeOK, NEW i \in 0..MAILBOX_CAPACITY
    PROVE  /\ Slot(i) = IF head + i < MAILBOX_CAPACITY
                        THEN head + i ELSE head + i - MAILBOX_CAPACITY
           /\ Slot(i) \in Slots
  BY SMT DEF MailboxTypeOK, Slots, Slot

\* Places less than a lap apart have different slots.
LEMMA SlotInjective ==
    ASSUME MailboxTypeOK, NEW i \in Slots, NEW j \in Slots, Slot(i) = Slot(j)
    PROVE  i = j
  <1>1. i \in 0..MAILBOX_CAPACITY /\ j \in 0..MAILBOX_CAPACITY
    BY SMT DEF Slots
  <1>2. (IF head + i < MAILBOX_CAPACITY THEN head + i ELSE head + i - MAILBOX_CAPACITY)
            = (IF head + j < MAILBOX_CAPACITY THEN head + j ELSE head + j - MAILBOX_CAPACITY)
    BY <1>1, SlotProperties
  <1>3. /\ head \in 0..(MAILBOX_CAPACITY - 1)
        /\ i \in 0..(MAILBOX_CAPACITY - 1) /\ j \in 0..(MAILBOX_CAPACITY - 1)
    BY DEF MailboxTypeOK, Slots
  <1> QED
    BY ONLY <1>2, <1>3, CapacityAssumption, SMT

\* Moving the head one place shifts every place by one.
LEMMA SlotAfterPop ==
    ASSUME MailboxTypeOK, NEW i \in Slots, head' = (head + 1) % MAILBOX_CAPACITY
    PROVE  Slot(i)' = Slot(i + 1)
  <1>1. head' = IF head + 1 < MAILBOX_CAPACITY THEN head + 1 ELSE 0
    BY SMT DEF MailboxTypeOK, Slots
  <1>2. head' \in 0..(MAILBOX_CAPACITY - 1) /\ i \in 0..(MAILBOX_CAPACITY - 1)
    BY <1>1, SMT DEF MailboxTypeOK, Slots
  <1>3. (head' + i) % MAILBOX_CAPACITY
            = IF head' + i < MAILBOX_CAPACITY
              THEN head' + i ELSE head' + i - MAILBOX_CAPACITY
    BY <1>2, SMT
  <1>4. Slot(i + 1) = IF head + (i + 1) < MAILBOX_CAPACITY
                      THEN head + (i + 1) ELSE head + (i + 1) - MAILBOX_CAPACITY
    BY <1>2, SlotProperties, SMT
  <1> QED
    BY <1>1, <1>2, <1>3, <1>4, SMT DEF MailboxTypeOK, Slots, Slot

\* The bounds alone do not survive a pop's refinement: the slots in use must
\* also hold messages.
IInv == MailboxTypeOK /\ UsedSlotsHoldMessages

LEMMA MailboxInitIInv == MailboxInit => IInv
  BY SMT DEF MailboxInit, IInv, MailboxTypeOK, UsedSlotsHoldMessages, Slots

LEMMA MailboxStepIInv == IInv /\ [MailboxNext]_mailboxVars => IInv'
  <1> SUFFICES ASSUME IInv, [MailboxNext]_mailboxVars
               PROVE  IInv'
    OBVIOUS
  <1> USE DEF IInv
  <1>1. CASE pop
    <2>1. CASE len = 0
      BY <1>1, <2>1 DEF pop, MailboxTypeOK, UsedSlotsHoldMessages, Slot
    <2>2. CASE len # 0
      <3>1. /\ ret' = messages[head] /\ messages' = messages
            /\ head' = (head + 1) % MAILBOX_CAPACITY /\ len' = len - 1
        BY <1>1, <2>2 DEF pop
      <3>2. (head + 1) % MAILBOX_CAPACITY \in Slots
        BY SMT DEF MailboxTypeOK, Slots
      <3>3. MailboxTypeOK'
        BY <2>2, <3>1, <3>2, SMT DEF MailboxTypeOK
      <3>4. ASSUME NEW i \in 0..(len - 2)
            PROVE  messages'[Slot(i)'] \in Message
        <4>1. i \in Slots /\ i + 1 \in 0..(len - 1)
          BY SMT DEF MailboxTypeOK, Slots
        <4>2. Slot(i)' = Slot(i + 1)
          BY <3>1, <4>1, SlotAfterPop
        <4> QED
          BY <3>1, <4>1, <4>2 DEF UsedSlotsHoldMessages
      <3>5. UsedSlotsHoldMessages'
        BY <3>1, <3>4, SMT DEF UsedSlotsHoldMessages, MailboxTypeOK
      <3> QED
        BY <3>3, <3>5
    <2> QED
      BY <2>1, <2>2
  <1>2. ASSUME NEW msg \in Message, push(msg)
        PROVE  IInv'
    <2>1. CASE len = MAILBOX_CAPACITY
      BY <1>2, <2>1 DEF push, MailboxTypeOK, UsedSlotsHoldMessages, Slot
    <2>2. CASE len # MAILBOX_CAPACITY
      <3>1. /\ messages' = [messages EXCEPT ![Slot(len)] = msg]
            /\ len' = len + 1 /\ ret' = "true" /\ head' = head
        BY <1>2, <2>2 DEF push
      <3>2. MailboxTypeOK'
        <4>1. messages' \in [Slots -> Message \cup {NoMessage}]
          BY <3>1 DEF MailboxTypeOK
        <4>2. len' \in 0..MAILBOX_CAPACITY
          BY <2>2, <3>1, SMT DEF MailboxTypeOK
        <4> QED
          BY <3>1, <4>1, <4>2 DEF MailboxTypeOK
      <3>3. ASSUME NEW i \in 0..len
            PROVE  messages'[Slot(i)] \in Message
        <4>1. Slot(i) \in Slots
          BY SlotProperties, SMT DEF MailboxTypeOK
        <4>2. i = len \/ i \in 0..(len - 1)
          BY SMT DEF MailboxTypeOK
        <4> QED
          BY <1>2, <3>1, <4>1, <4>2 DEF UsedSlotsHoldMessages, MailboxTypeOK
      <3>4. UsedSlotsHoldMessages'
        BY <3>1, <3>3, SMT DEF UsedSlotsHoldMessages, MailboxTypeOK, Slot
      <3> QED
        BY <3>2, <3>4
    <2> QED
      BY <2>1, <2>2
  <1>3. CASE UNCHANGED mailboxVars
    BY <1>3 DEF mailboxVars, MailboxTypeOK, UsedSlotsHoldMessages, Slot
  <1> QED
    BY <1>1, <1>2, <1>3 DEF MailboxNext

\* A mailbox stays within its bounds and every slot in use holds a message,
\* so pop answers Some whenever len is not 0 (tcb.rs, Mailbox::pop and push).
THEOREM MailboxInvariant == MailboxSpec => [](MailboxTypeOK /\ UsedSlotsHoldMessages)
  BY MailboxInitIInv, MailboxStepIInv, PTL DEF MailboxSpec, IInv

-----------------------------------------------------------------------------
\* What Contents is, as a sequence.
ContentsFacts ==
    /\ Contents \in Seq(Message)
    /\ Len(Contents) = len
    /\ DOMAIN Contents = 1..len
    /\ \A k \in 1..len : Contents[k] = messages[Slot(k - 1)]

LEMMA ContentsType == IInv => ContentsFacts
  <1> SUFFICES ASSUME IInv
               PROVE  ContentsFacts
    OBVIOUS
  <1>1. \A k \in 1..len : messages[Slot(k - 1)] \in Message
    BY SMT DEF IInv, MailboxTypeOK, UsedSlotsHoldMessages
  <1> QED
    BY <1>1, SMT DEF IInv, MailboxTypeOK, Contents, ContentsFacts

LEMMA ContentsTypePrime == IInv' => ContentsFacts'
  BY ContentsType, PTL

LEMMA PushRefines ==
    ASSUME IInv, IInv', NEW msg \in Message, push(msg)
    PROVE  Abstract!Push(msg)
  <1>1. CASE len = MAILBOX_CAPACITY
    <2>1. ret' = "false" /\ UNCHANGED <<messages, head, len>>
      BY <1>1 DEF push, MailboxTypeOK
    <2>2. UNCHANGED Contents
      BY <2>1 DEF Contents, Slot
    <2> QED
      BY <1>1, <2>1, <2>2, ContentsType DEF ContentsFacts, Abstract!Push
  <1>2. CASE len # MAILBOX_CAPACITY
    <2>1. /\ messages' = [messages EXCEPT ![Slot(len)] = msg]
          /\ len' = len + 1 /\ ret' = "true" /\ head' = head
      BY <1>2 DEF push
    <2>2. /\ Contents' \in Seq(Message)
          /\ Len(Contents') = len'
          /\ \A k \in 1..len' : Contents'[k] = messages'[Slot(k - 1)]
      BY <2>1, ContentsTypePrime DEF ContentsFacts, Slot
    <2>3. ASSUME NEW k \in 1..(len + 1)
          PROVE  Contents'[k] = Append(Contents, msg)[k]
      <3>1. CASE k = len + 1
        <4>1. Slot(len) \in Slots
          BY SlotProperties DEF IInv, MailboxTypeOK
        <4>2. Contents'[k] = msg
          BY <2>1, <2>2, <3>1, <4>1, SMT DEF IInv, MailboxTypeOK
        <4> QED
          BY <4>2, <3>1, ContentsType, SMT DEF ContentsFacts
      <3>2. CASE k \in 1..len
        <4>1. k - 1 \in Slots /\ len \in Slots /\ k - 1 # len
          BY <1>2, <3>2, SMT DEF IInv, MailboxTypeOK, Slots
        <4>2. Slot(k - 1) # Slot(len)
          BY <4>1, SlotInjective DEF IInv
        <4>3. Contents'[k] = messages[Slot(k - 1)]
          BY <2>1, <2>2, <3>2, <4>2, SMT DEF IInv, MailboxTypeOK
        <4> QED
          BY <4>3, <3>2, ContentsType, SMT DEF ContentsFacts
      <3>3. k = len + 1 \/ k \in 1..len
        BY SMT DEF IInv, MailboxTypeOK
      <3> QED
        BY <3>1, <3>2, <3>3
    <2>4. Contents' = Append(Contents, msg)
      <3>1. Append(Contents, msg) \in Seq(Message) /\ Len(Append(Contents, msg)) = len + 1
        BY ContentsType, SMT DEF ContentsFacts
      <3> QED
        BY <2>1, <2>2, <2>3, <3>1, SeqEqual
    <2> QED
      BY <1>2, <2>1, <2>4, ContentsType DEF ContentsFacts, Abstract!Push
  <1> QED
    BY <1>1, <1>2

LEMMA PopRefines ==
    ASSUME IInv, IInv', pop
    PROVE  Abstract!Pop
  <1>1. CASE len = 0
    <2>1. ret' = NoMessage /\ UNCHANGED <<messages, head, len>>
      BY <1>1 DEF pop
    <2>2. UNCHANGED Contents
      BY <2>1 DEF Contents, Slot
    <2>3. Contents = <<>>
      BY <1>1, ContentsType, SMT DEF ContentsFacts
    <2> QED
      BY <2>1, <2>2, <2>3 DEF Abstract!Pop, NoMessage, Abstract!None
  <1>2. CASE len # 0
    <2>1. /\ ret' = messages[head] /\ messages' = messages
          /\ head' = (head + 1) % MAILBOX_CAPACITY /\ len' = len - 1
      BY <1>2 DEF pop
    <2>2. /\ Contents' \in Seq(Message)
          /\ Len(Contents') = len - 1
          /\ \A k \in 1..(len - 1) : Contents'[k] = messages[Slot(k - 1)']
      BY <2>1, ContentsTypePrime DEF ContentsFacts
    <2>3. Contents # <<>> /\ Contents[1] = messages[head]
      <3>1. Slot(0) = head
        BY SlotProperties, SMT DEF IInv, MailboxTypeOK, Slots
      <3> QED
        BY <1>2, <3>1, ContentsType, SMT DEF ContentsFacts, IInv, MailboxTypeOK
    <2>4. /\ Tail(Contents) \in Seq(Message)
          /\ Len(Tail(Contents)) = len - 1
          /\ \A k \in 1..(len - 1) : Tail(Contents)[k] = Contents[k + 1]
      BY <2>3, ContentsType, HeadTailProperties DEF ContentsFacts
    <2>5. ASSUME NEW k \in 1..(len - 1)
          PROVE  Contents'[k] = Tail(Contents)[k]
      <3>1. k - 1 \in 0..(MAILBOX_CAPACITY - 1) /\ k + 1 \in 1..len /\ (k - 1) + 1 = k
        BY SMT DEF IInv, MailboxTypeOK
      <3>2. Slot(k - 1)' = Slot(k)
        BY <2>1, <3>1, SlotAfterPop DEF IInv, Slots
      <3>3. Contents[k + 1] = messages[Slot(k)]
        BY <3>1, ContentsType, SMT DEF ContentsFacts
      <3> QED
        BY <2>2, <2>4, <3>2, <3>3
    <2>6. Contents' = Tail(Contents)
      BY <2>2, <2>4, <2>5, SeqEqual
    <2> QED
      BY <2>1, <2>3, <2>6 DEF Abstract!Pop
  <1> QED
    BY <1>1, <1>2

\* Mailbox implements a bounded FIFO queue, for every capacity and every set
\* of messages (tcb.rs, Mailbox::push and pop).
THEOREM MailboxImplementsFifo == MailboxSpec => ImplementsFifo
  <1>1. MailboxInit => Abstract!Init
    <2> SUFFICES ASSUME MailboxInit
                 PROVE  Abstract!Init
      OBVIOUS
    <2>1. IInv /\ len = 0 /\ ret = NoMessage
      BY MailboxInitIInv DEF MailboxInit
    <2>2. Contents = <<>>
      BY <2>1, ContentsType, SMT DEF ContentsFacts
    <2> QED
      BY <2>1, <2>2 DEF Abstract!Init, NoMessage, Abstract!None
  <1>2. IInv /\ IInv' /\ [MailboxNext]_mailboxVars => [Abstract!Next]_(Abstract!vars)
    <2> SUFFICES ASSUME IInv, IInv', [MailboxNext]_mailboxVars
                 PROVE  [Abstract!Next]_(Abstract!vars)
      OBVIOUS
    <2>1. CASE UNCHANGED mailboxVars
      BY <2>1 DEF mailboxVars, Abstract!vars, Contents, Slot
    <2> QED
      BY <2>1, PushRefines, PopRefines DEF MailboxNext, Abstract!Next
  <1> QED
    BY <1>1, <1>2, MailboxInitIInv, MailboxStepIInv, PTL DEF MailboxSpec, ImplementsFifo, Abstract!Spec

HIDE CapacityAssumption

-----------------------------------------------------------------------------
(* The handles.                                                            *)

\* Every handle has the fields of its kind, and names a space that exists.
HandleOK(x) ==
    \/ x = None
    \/ x = ThreadHandle
    \/ \E f \in Frame : x = FrameHandle(f)
    \/ \E a \in AddressSpaceId : x = SpaceHandle(a) /\ root[a] # NoFrame
    \/ \E f \in Frame, a \in AddressSpaceId, p \in Page :
          x = MappingHandle(f, a, p) /\ root[a] # NoFrame

HandlesOK == \A t \in TaskId, h \in HandleId : HandleOK(handles[t][h])

\* A slot that holds no task holds no handles and no stack: none can be overwritten.
EmptySlots ==
    \A t \in TaskId : task[t] = "None" =>
        stack[t] = NoFrame /\ \A h \in HandleId : handles[t][h] = None

\* An address space that does not exist maps nothing.
EmptySpaces ==
    \A a \in AddressSpaceId : root[a] = NoFrame => \A p \in Page : mapped[a][p] = NoFrame

\* The space that the call in progress has inserted: no handle names it yet.
NewSpace ==
    /\ as_id \in AddressSpaceId
    /\ root[as_id] \in Frame
    /\ \A p \in Page : mapped[as_id][p] = NoFrame
    /\ \A t \in TaskId, h \in HandleId : handles[t][h].space # as_id

\* The task that the call in progress has added: it has its first two handles.
NewThread ==
    /\ new_task_id # caller
    /\ task[new_task_id] = "Alive"
    /\ stack[new_task_id] \in Frame
    /\ as_id \in AddressSpaceId
    /\ handles[new_task_id] = NewTable(as_id)

\* What a step of a call may rely on.
CallOK ==
    /\ call # "idle" => task[caller] = "Alive"
    /\ IF call \in {"push_frame", "insert_space", "add_task"} THEN held \in Frame ELSE held = NoFrame
    /\ call = "add_task" => as_id \in AddressSpaceId /\ root[as_id] # NoFrame
    /\ call = "push_space" => NewSpace
    /\ call = "push_thread" => NewThread

\* The state, as Snapshot records it.
State(ta, hs, ro, ma, st, fr, lo) ==
    [task |-> ta, handles |-> hs, root |-> ro, mapped |-> ma,
     stack |-> st, free |-> fr, lost |-> lo]

\* What undoing the steps that a call has taken would lead to is what it began with.
BeforeOK ==
    /\ call \in {"push_frame", "insert_space", "add_task"} =>
          before = State(task, handles, root, mapped, stack, free \cup {held}, lost)
    /\ call = "push_space" =>
          before = State(task, handles, [root EXCEPT ![as_id] = NoFrame], mapped, stack,
                         free \cup {root[as_id]}, lost)
    /\ call = "push_thread" =>
          before = State([task EXCEPT ![new_task_id] = "None"],
                         [handles EXCEPT ![new_task_id] = EmptyHandles], root, mapped,
                         [stack EXCEPT ![new_task_id] = NoFrame],
                         free \cup {stack[new_task_id]}, lost)

Inv ==
    /\ TypeOK /\ HandlesOK /\ EmptySlots /\ EmptySpaces
    /\ FramesOwnedOnce /\ MappingsMatchHandles /\ NoPanic
    /\ CallOK /\ BeforeOK

-----------------------------------------------------------------------------
\* A step writes x to handle h of task t, and to no other.
Writes(t, h, x) ==
    \/ handles' = [handles EXCEPT ![t] = At(@, h, x)]
    \/ handles' = [handles EXCEPT ![t] = At(Take(@, h), h, x)]

Written(t, h, x) ==
    /\ handles' \in [TaskId -> [HandleId -> Handle]]
    /\ \A u \in TaskId, g \in HandleId :
          handles'[u][g] = IF u = t /\ g = h THEN x ELSE handles[u][g]

\* Writing one handle changes that handle only.
LEMMA OneHandle ==
    ASSUME TypeOK, NEW t \in TaskId, NEW h \in HandleId, NEW x \in Handle, Writes(t, h, x)
    PROVE  Written(t, h, x)
  <1>1. None \in Handle
    BY NamesAssumption DEF None, Object, Handle
  <1>2. handles \in [TaskId -> [HandleId -> Handle]]
    BY DEF TypeOK
  <1>3. ASSUME NEW tbl \in [HandleId -> Handle],
               handles' = [handles EXCEPT ![t] = [tbl EXCEPT ![h] = x]],
               \A g \in HandleId : g # h => tbl[g] = handles[t][g]
        PROVE  Written(t, h, x)
    BY ONLY <1>2, <1>3, t \in TaskId, h \in HandleId, x \in Handle DEF Written
  <1>4. handles[t] \in [HandleId -> Handle]
    BY <1>2
  <1>5. [handles[t] EXCEPT ![h] = None] \in [HandleId -> Handle]
    BY <1>1, <1>4
  <1>6. CASE handles' = [handles EXCEPT ![t] = At(@, h, x)]
    BY <1>3, <1>4, <1>6 DEF At
  <1>7. CASE handles' = [handles EXCEPT ![t] = At(Take(@, h), h, x)]
    <2>1. \A g \in HandleId : g # h => [handles[t] EXCEPT ![h] = None][g] = handles[t][g]
      BY <1>4
    <2>2. handles' = [handles EXCEPT ![t] = [[handles[t] EXCEPT ![h] = None] EXCEPT ![h] = x]]
      BY <1>7 DEF At, Take
    <2> QED
      BY <1>3, <1>5, <2>1, <2>2
  <1> QED
    BY <1>6, <1>7 DEF Writes

\* The handles that the calls make are handles.
LEMMA HandleTypes ==
    /\ None \in Handle /\ ThreadHandle \in Handle
    /\ \A f \in Frame : FrameHandle(f) \in Handle
    /\ \A a \in AddressSpaceId : SpaceHandle(a) \in Handle
    /\ \A f \in Frame, a \in AddressSpaceId, p \in Page : MappingHandle(f, a, p) \in Handle
  BY DEF None, ThreadHandle, FrameHandle, SpaceHandle, MappingHandle, Object, Handle

\* Handles of different kinds differ, and so do two mappings.
LEMMA HandleKinds ==
    /\ None.kind = "None" /\ ThreadHandle.kind = "Thread"
    /\ \A f : FrameHandle(f).kind = "Frame" /\ FrameHandle(f).frame = f
    /\ \A a : SpaceHandle(a).kind = "AddressSpace" /\ SpaceHandle(a).space = a
    /\ \A f, a, p : /\ MappingHandle(f, a, p).kind = "Mapping"
                    /\ MappingHandle(f, a, p).frame = f
                    /\ MappingHandle(f, a, p).space = a
                    /\ MappingHandle(f, a, p).page = p
  BY DEF None, ThreadHandle, FrameHandle, SpaceHandle, MappingHandle, Object

\* The kind of a well-formed handle gives its shape.
LEMMA HandleShape ==
    ASSUME NEW x, HandleOK(x)
    PROVE  /\ x.kind = "None" => x = None
           /\ x.kind = "Frame" => x.frame \in Frame /\ x = FrameHandle(x.frame)
           /\ x.kind = "AddressSpace" => x.space \in AddressSpaceId /\ root[x.space] # NoFrame
           /\ x.kind = "Mapping" =>
                 /\ x.frame \in Frame /\ x.space \in AddressSpaceId /\ x.page \in Page
                 /\ root[x.space] # NoFrame
                 /\ x = MappingHandle(x.frame, x.space, x.page)
           /\ x.kind \in {"Frame", "Mapping"} => x.frame \in Frame
  BY HandleKinds, SMT DEF HandleOK

-----------------------------------------------------------------------------
(* Ownership.  FramesOwnedOnce in a form the provers can work with: one of  *)
(* six claims on a frame holds, and the handles, roots and stacks that     *)
(* claim it are one.                                                       *)

Handled(f) == \E t \in TaskId, h \in HandleId : HandleOwns(t, h, f)
Rooted(f) == \E a \in AddressSpaceId : root[a] = f
Stacked(f) == \E t \in TaskId : stack[t] = f

One(a, b, c, d, e, g) ==
    \/ a /\ ~b /\ ~c /\ ~d /\ ~e /\ ~g
    \/ b /\ ~a /\ ~c /\ ~d /\ ~e /\ ~g
    \/ c /\ ~a /\ ~b /\ ~d /\ ~e /\ ~g
    \/ d /\ ~a /\ ~b /\ ~c /\ ~e /\ ~g
    \/ e /\ ~a /\ ~b /\ ~c /\ ~d /\ ~g
    \/ g /\ ~a /\ ~b /\ ~c /\ ~d /\ ~e

Alone(f) == One(f \in free, f \in lost, held = f, Handled(f), Rooted(f), Stacked(f))

HandlesApart ==
    \A f \in Frame, t, u \in TaskId, h, g \in HandleId :
        HandleOwns(t, h, f) /\ HandleOwns(u, g, f) => t = u /\ h = g
RootsApart == \A f \in Frame, a, b \in AddressSpaceId : root[a] = f /\ root[b] = f => a = b
StacksApart == \A f \in Frame, t, u \in TaskId : stack[t] = f /\ stack[u] = f => t = u

OneOwner == (\A f \in Frame : Alone(f)) /\ HandlesApart /\ RootsApart /\ StacksApart

\* The two forms say the same.
LEMMA Owners ==
    /\ FramesOwnedOnce <=> OneOwner
    /\ FramesOwnedOnce' <=> OneOwner'
  <1>1. \A f \in Frame :
           /\ In("free", f) <=> f \in free
           /\ In("lost", f) <=> f \in lost
           /\ In("call", f) <=> held = f
           /\ In("handle", f) <=> Handled(f)
           /\ In("root", f) <=> Rooted(f)
           /\ In("stack", f) <=> Stacked(f)
    BY SMT DEF In, Handled, Rooted, Stacked
  <1>2. \A f \in Frame :
           /\ In("free", f)' <=> f \in free'
           /\ In("lost", f)' <=> f \in lost'
           /\ In("call", f)' <=> held' = f
           /\ In("handle", f)' <=> Handled(f)'
           /\ In("root", f)' <=> Rooted(f)'
           /\ In("stack", f)' <=> Stacked(f)'
    BY SMT DEF In, Handled, Rooted, Stacked
  <1>3. \A f \in Frame :
           (\E place \in Place : \A other \in Place : In(other, f) <=> other = place) <=> Alone(f)
    BY <1>1, SMT DEF Alone, One, Place
  <1>4. \A f \in Frame :
           (\E place \in Place : \A other \in Place : In(other, f)' <=> other = place) <=> Alone(f)'
    BY <1>2, SMT DEF Alone, One, Place
  <1>5. FramesOwnedOnce <=> OneOwner
    BY <1>3 DEF FramesOwnedOnce, OneOwner, HandlesApart, RootsApart, StacksApart
  <1>6. FramesOwnedOnce' <=> OneOwner'
    BY <1>4 DEF FramesOwnedOnce, OneOwner, HandlesApart, RootsApart, StacksApart
  <1> QED
    BY <1>5, <1>6

\* A step that moves at most frame f keeps every other frame where it is.
Stays(f) ==
    \A e \in Frame : e # f =>
        /\ e \in free' <=> e \in free
        /\ e \in lost' <=> e \in lost
        /\ held' = e <=> held = e
        /\ Handled(e)' <=> Handled(e)
        /\ Rooted(e)' <=> Rooted(e)
        /\ Stacked(e)' <=> Stacked(e)

\* If the frame that moves has one owner afterwards, so has every frame.
LEMMA OneMoves ==
    ASSUME FramesOwnedOnce, NEW f \in Frame, Stays(f), Alone(f)',
           HandlesApart', RootsApart', StacksApart'
    PROVE  FramesOwnedOnce'
  <1>1. \A e \in Frame : Alone(e)
    BY Owners DEF OneOwner
  <1>2. \A e \in Frame : e # f => Alone(e)'
    BY <1>1, SMT DEF Stays, Alone, One
  <1> QED
    BY <1>2, Owners DEF OneOwner

\* When handles own what they owned, so do all but the variables that hold a frame.
HandlesKeep ==
    \A u \in TaskId, g \in HandleId, e \in Frame : HandleOwns(u, g, e)' <=> HandleOwns(u, g, e)

LEMMA HandlesKept ==
    ASSUME HandlesKeep, FramesOwnedOnce
    PROVE  HandlesApart' /\ \A e \in Frame : Handled(e)' <=> Handled(e)
  <1>1. HandlesApart'
    BY Owners DEF HandlesKeep, OneOwner, HandlesApart
  <1>2. \A e \in Frame : Handled(e)' <=> Handled(e)
    BY SMT DEF HandlesKeep, Handled
  <1> QED
    BY <1>1, <1>2

LEMMA RootsKept ==
    ASSUME root' = root, FramesOwnedOnce
    PROVE  RootsApart' /\ \A e \in Frame : Rooted(e)' <=> Rooted(e)
  BY Owners DEF OneOwner, RootsApart, Rooted

LEMMA StacksKept ==
    ASSUME stack' = stack, FramesOwnedOnce
    PROVE  StacksApart' /\ \A e \in Frame : Stacked(e)' <=> Stacked(e)
  BY Owners DEF OneOwner, StacksApart, Stacked

\* A step in which no frame moves.
LEMMA NoneMoves ==
    ASSUME FramesOwnedOnce, HandlesKeep, UNCHANGED <<root, stack, free, lost, held>>
    PROVE  FramesOwnedOnce'
  <1>1. \A e \in Frame : Alone(e)
    BY Owners DEF OneOwner
  <1>2. \A e \in Frame : (Handled(e)' <=> Handled(e)) /\ (Rooted(e)' <=> Rooted(e))
                                                    /\ (Stacked(e)' <=> Stacked(e))
    BY HandlesKept, RootsKept, StacksKept
  <1>3. \A e \in Frame : Alone(e)'
    BY <1>1, <1>2, SMT DEF Alone, One
  <1> QED
    BY <1>3, HandlesKept, RootsKept, StacksKept, Owners DEF OneOwner

-----------------------------------------------------------------------------
\* bootstrap::spawn establishes the invariant.
THEOREM Initially == Init => Inv
  <1> SUFFICES ASSUME Init PROVE Inv
    OBVIOUS
  <1>0. 0 \in TaskId /\ 0 \in HandleId /\ 1 \in HandleId /\ 0 \in AddressSpaceId
    BY LimitsAssumption, SMT DEF TaskId, HandleId, AddressSpaceId
  <1>1. \A t \in TaskId, h \in HandleId :
           handles[t][h] = IF t # 0 \/ h \notin {0, 1} THEN None
                           ELSE IF h = 0 THEN SpaceHandle(0) ELSE ThreadHandle
    BY <1>0, SMT DEF Init, NewTable, At, EmptyHandles
  <1>2. handles \in [TaskId -> [HandleId -> Handle]]
    BY <1>0, HandleTypes DEF Init, NewTable, At, EmptyHandles
  <1>3. PICK r \in Frame, k \in Frame :
           /\ r # k
           /\ root = [a \in AddressSpaceId |-> IF a = 0 THEN r ELSE NoFrame]
           /\ stack = [t \in TaskId |-> IF t = 0 THEN k ELSE NoFrame]
           /\ free = Frame \ {r, k}
    BY DEF Init
  <1>4. TypeOK
    BY <1>0, <1>2, <1>3 DEF Init, TypeOK
  <1>5. HandlesOK
    BY <1>0, <1>1, <1>3, NamesAssumption DEF HandlesOK, HandleOK
  <1>6. EmptySlots
    BY <1>1, <1>3 DEF EmptySlots, Init
  <1>7. EmptySpaces
    BY <1>3, NamesAssumption DEF EmptySpaces, Init
  <1>8. FramesOwnedOnce
    <2>1. \A t \in TaskId, h \in HandleId, f \in Frame : ~HandleOwns(t, h, f)
      BY <1>1, HandleKinds, SMT DEF HandleOwns
    <2>2. /\ \A a \in AddressSpaceId, f \in Frame : root[a] = f <=> a = 0 /\ f = r
          /\ \A t \in TaskId, f \in Frame : stack[t] = f <=> t = 0 /\ f = k
      BY <1>3, NamesAssumption
    <2>3. HandlesApart /\ RootsApart /\ StacksApart
      BY <2>1, <2>2 DEF HandlesApart, RootsApart, StacksApart
    <2>4. \A f \in Frame : ~Handled(f) /\ (Rooted(f) <=> f = r) /\ (Stacked(f) <=> f = k)
      BY <1>0, <2>1, <2>2 DEF Handled, Rooted, Stacked
    <2>5. held = NoFrame /\ lost = {}
      BY DEF Init
    <2>6. \A f \in Frame : Alone(f)
      BY <1>3, <2>4, <2>5, NamesAssumption DEF Alone, One
    <2> QED
      BY <2>3, <2>6, Owners DEF OneOwner
  <1>9. MappingsMatchHandles
    BY <1>1, HandleKinds, NamesAssumption, SMT DEF MappingsMatchHandles, Init
  <1>10. CallOK /\ BeforeOK
    BY DEF CallOK, BeforeOK, Init
  <1> QED
    BY <1>4, <1>5, <1>6, <1>7, <1>8, <1>9, <1>10 DEF Inv, NoPanic, Init

-----------------------------------------------------------------------------
(* The calls of one step.                                                  *)

\* The answers of a call.
Status == {"Ok", "InvalidArgument", "BadAddress", "BadHandle", "OutOfMemory"}

\* Between calls nothing is remembered.
LEMMA Idle ==
    ASSUME call' = "idle", held' = NoFrame
    PROVE  CallOK' /\ BeforeOK'
  BY DEF CallOK, BeforeOK

\* The call begins and ends in this step.
AtOnce == call = "idle" /\ UNCHANGED <<stack, lost, callVars>> /\ status' \in Status

LEMMA AtOnceOK ==
    ASSUME Inv, AtOnce
    PROVE  CallOK' /\ BeforeOK'
  <1>1. call' = "idle" /\ held' = NoFrame
    BY DEF Inv, CallOK, AtOnce, callVars
  <1> QED
    BY <1>1, Idle

\* A step that changes nothing but the answer keeps the invariant.
LEMMA NothingChanges ==
    ASSUME Inv, UNCHANGED resources, AtOnce, machine' = machine
    PROVE  Inv'
  <1> USE DEF resources
  <1>1. TypeOK'
    BY DEF Inv, TypeOK, Status, AtOnce, callVars
  <1>2. HandlesOK' /\ EmptySlots' /\ EmptySpaces'
    BY DEF Inv, HandlesOK, HandleOK, EmptySlots, EmptySpaces
  <1>3. FramesOwnedOnce'
    <2>1. HandlesKeep /\ UNCHANGED <<root, stack, free, lost, held>>
      BY DEF HandlesKeep, HandleOwns, AtOnce, callVars
    <2> QED
      BY <2>1, NoneMoves DEF Inv
  <1>4. MappingsMatchHandles'
    BY SMT DEF Inv, MappingsMatchHandles
  <1> QED
    BY <1>1, <1>2, <1>3, <1>4, AtOnceOK DEF Inv, NoPanic

\* A step that neither adds nor removes a mapping, in tables or in handles.
MappingsKeep ==
    \A u \in TaskId, g \in HandleId, e \in Frame, b \in AddressSpaceId, p \in Page :
        handles'[u][g] = MappingHandle(e, b, p) <=> handles[u][g] = MappingHandle(e, b, p)

LEMMA MappingsKept ==
    ASSUME MappingsMatchHandles, MappingsKeep, mapped' = mapped
    PROVE  MappingsMatchHandles'
  <1> SUFFICES ASSUME NEW b \in AddressSpaceId, NEW q \in Page, NEW e \in Frame
               PROVE  mapped'[b][q] = e <=>
                         \E u \in TaskId, g \in HandleId :
                            handles'[u][g] = MappingHandle(e, b, q)
    BY DEF MappingsMatchHandles
  <1>1. mapped[b][q] = e <=>
           \E u \in TaskId, g \in HandleId : handles[u][g] = MappingHandle(e, b, q)
    BY SMT DEF MappingsMatchHandles
  <1>2. (\E u \in TaskId, g \in HandleId : handles'[u][g] = MappingHandle(e, b, q)) <=>
           \E u \in TaskId, g \in HandleId : handles[u][g] = MappingHandle(e, b, q)
    BY SMT DEF MappingsKeep
  <1> QED
    BY <1>1, <1>2

\* The frame of a Frame handle goes back to the pool.
LEMMA FrameGoesBack ==
    ASSUME Inv, NEW t \in TaskId, NEW h \in HandleId, Calls(t), FrameDealloc(t, h)
    PROVE  Inv'
  <1>0. handles[t][h].kind = "Frame" /\ task[t] = "Alive"
    BY DEF FrameDealloc, Kind, Calls
  <1>1. PICK f \in Frame : f = handles[t][h].frame /\ handles[t][h] = FrameHandle(f)
    BY <1>0, HandleShape DEF Inv, HandlesOK
  <1>2. \A e \in Frame : Alone(e)
    BY Owners DEF Inv, OneOwner
  <1>3. HandleOwns(t, h, f) /\ Handled(f)
    BY <1>0, <1>1 DEF HandleOwns, Handled
  <1>4. f \notin free /\ f \notin lost /\ held # f /\ ~Rooted(f) /\ ~Stacked(f) /\ f # NoFrame
    BY <1>1, <1>2, <1>3, NamesAssumption, SMT DEF Alone, One
  <1>5. /\ free' = free \cup {f}
        /\ machine' = machine
        /\ UNCHANGED <<task, root, mapped, stack, lost, held>>
        /\ AtOnce
        /\ handles' = [handles EXCEPT ![t] = At(@, h, None)]
    BY <1>1, <1>4 DEF FrameDealloc, GivesBack, Assert, AtOnce, Calls, Status, callVars, Take
  <1>6. Written(t, h, None)
    <2>1. TypeOK /\ None \in Handle
      BY HandleTypes DEF Inv
    <2>2. Writes(t, h, None)
      BY <1>5 DEF Writes
    <2> QED
      BY <2>1, <2>2, OneHandle
  <1> USE DEF Written
  <1>7. TypeOK'
    BY <1>1, <1>5, <1>6 DEF Inv, TypeOK, AtOnce, Status, callVars
  <1>8. HandlesOK'
    BY <1>5, <1>6, SMT DEF Inv, HandlesOK, HandleOK
  <1>9. EmptySlots' /\ EmptySpaces'
    BY <1>5, <1>6, SMT DEF Inv, EmptySlots, EmptySpaces
  <1>10. \A u \in TaskId, g \in HandleId, e \in Frame :
            HandleOwns(u, g, e)' <=> HandleOwns(u, g, e) /\ ~(u = t /\ g = h)
    BY <1>6, HandleKinds, SMT DEF HandleOwns
  <1>11. FramesOwnedOnce'
    <2>1. HandlesApart
      BY Owners DEF Inv, OneOwner
    <2>2. HandlesApart'
      BY <1>10, <2>1, SMT DEF HandlesApart
    <2>3. ~Handled(f)'
      BY <1>1, <1>3, <1>10, <2>1, SMT DEF Handled, HandlesApart
    <2>4. \A e \in Frame : HandleOwns(t, h, e) => e = f
      BY <1>1, HandleKinds, SMT DEF HandleOwns
    <2>5. \A e \in Frame : e # f => (Handled(e)' <=> Handled(e))
      BY <1>10, <2>4, SMT DEF Handled
    <2>6. RootsApart' /\ StacksApart' /\ \A e \in Frame : (Rooted(e)' <=> Rooted(e)) /\ (Stacked(e)' <=> Stacked(e))
      BY <1>5, RootsKept, StacksKept DEF Inv
    <2>7. Stays(f)
      BY <1>5, <2>5, <2>6 DEF Stays
    <2>8. f \in free' /\ f \notin lost' /\ held' # f /\ ~Rooted(f)' /\ ~Stacked(f)'
      BY <1>1, <1>4, <1>5, <2>6
    <2>9. Alone(f)'
      BY <2>3, <2>8 DEF Alone, One
    <2>10. FramesOwnedOnce
      BY DEF Inv
    <2> QED
      BY ONLY <1>1, <2>2, <2>6, <2>7, <2>9, <2>10, OneMoves
  <1>12. MappingsMatchHandles'
    <2>1. MappingsKeep
      <3>1. handles[t][h].kind = "Frame" /\ handles'[t][h].kind = "None"
        BY <1>0, <1>6, HandleKinds
      <3>2. \A e, b, q : MappingHandle(e, b, q).kind = "Mapping"
        BY HandleKinds
      <3>3. \A u \in TaskId, g \in HandleId : ~(u = t /\ g = h) => handles'[u][g] = handles[u][g]
        BY <1>6
      <3> QED
        BY ONLY <3>1, <3>2, <3>3, SMT DEF MappingsKeep
    <2> QED
      BY <1>5, <2>1, MappingsKept DEF Inv
  <1> QED
    BY <1>5, <1>7, <1>8, <1>9, <1>11, <1>12, AtOnceOK DEF Inv, NoPanic

\* A frame is mapped: its handle and the page change together.
LEMMA FrameIsMapped ==
    ASSUME Inv, NEW t \in TaskId, NEW ha \in HandleId, NEW h \in HandleId, NEW p \in Page,
           Calls(t),
           Kind(t, ha) = "AddressSpace", Kind(t, h) = "Frame", MapOk(t, ha, h, p)
    PROVE  Inv'
  <1> DEFINE f == handles[t][h].frame
             a == handles[t][ha].space
  <1>0. handles[t][h].kind = "Frame" /\ handles[t][ha].kind = "AddressSpace"
    BY DEF Kind
  <1>1. f \in Frame /\ handles[t][h] = FrameHandle(f) /\ a \in AddressSpaceId /\ root[a] # NoFrame
    BY <1>0, HandleShape DEF Inv, HandlesOK
  <1>2. /\ mapped[a][p] = NoFrame
        /\ mapped' = [mapped EXCEPT ![a] = [@ EXCEPT ![p] = f]]
        /\ handles' = [handles EXCEPT ![t] = At(Take(@, h), h, MappingHandle(f, a, p))]
        /\ machine' = machine /\ AtOnce
        /\ UNCHANGED <<task, root, stack, free, lost, held>>
    BY <1>1 DEF MapOk, Assert, Status, AtOnce, Calls, callVars
  <1> HIDE DEF f, a
  <1>3. Written(t, h, MappingHandle(f, a, p))
    <2>1. TypeOK /\ MappingHandle(f, a, p) \in Handle
      BY <1>1, HandleTypes DEF Inv
    <2>2. Writes(t, h, MappingHandle(f, a, p))
      BY <1>2 DEF Writes
    <2> QED
      BY <2>1, <2>2, OneHandle
  <1> USE <1>3 DEF Written
  <1>4. mapped \in [AddressSpaceId -> [Page -> Frame \cup {NoFrame, BootFrame}]]
    BY DEF Inv, TypeOK
  <1>5. \A b \in AddressSpaceId, q \in Page :
           mapped'[b][q] = IF b = a /\ q = p THEN f ELSE mapped[b][q]
    BY <1>1, <1>2, <1>4
  <1>6. TypeOK'
    <2>1. mapped' \in [AddressSpaceId -> [Page -> Frame \cup {NoFrame, BootFrame}]]
      BY <1>1, <1>2, <1>4
    <2> QED
      BY <1>2, <2>1 DEF Inv, TypeOK, AtOnce, Status, callVars
  <1>7. HandlesOK'
    BY <1>1, <1>2, SMT DEF Inv, HandlesOK, HandleOK
  <1>8. EmptySlots' /\ EmptySpaces'
    <2>1. task[t] = "Alive"
      BY DEF Calls
    <2>2. EmptySlots'
      BY <1>2, <1>3, <2>1 DEF Inv, EmptySlots
    <2>3. EmptySpaces'
      BY <1>1, <1>2, <1>5, SMT DEF Inv, EmptySpaces
    <2> QED
      BY <2>2, <2>3
  <1>9. HandlesKeep
    BY <1>1, HandleKinds, SMT DEF HandlesKeep, HandleOwns
  <1>10. FramesOwnedOnce /\ UNCHANGED <<root, stack, free, lost, held>>
    BY <1>2 DEF Inv
  <1>11. FramesOwnedOnce'
    BY <1>9, <1>10, NoneMoves
  <1>12. \A u \in TaskId, g \in HandleId, e \in Frame, b \in AddressSpaceId, q \in Page :
            handles'[u][g] = MappingHandle(e, b, q) <=>
               \/ handles[u][g] = MappingHandle(e, b, q)
               \/ u = t /\ g = h /\ e = f /\ b = a /\ q = p
    BY <1>1, HandleKinds, SMT
  <1>13. MappingsMatchHandles'
    BY <1>1, <1>2, <1>5, <1>12, NamesAssumption, SMT DEF Inv, MappingsMatchHandles
  <1> QED
    BY <1>2, <1>6, <1>7, <1>8, <1>11, <1>13, AtOnceOK DEF Inv, NoPanic

\* A page is unmapped: the frame's only mapping goes, and nothing panics.
LEMMA FrameIsUnmapped ==
    ASSUME Inv, NEW t \in TaskId, NEW h \in HandleId, Calls(t),
           Kind(t, h) = "Mapping", Unmapped(t, h)
    PROVE  Inv' /\ status' = "Ok"
  <1> DEFINE f == handles[t][h].frame
             a == handles[t][h].space
             p == handles[t][h].page
  <1>0. handles[t][h].kind = "Mapping"
    BY DEF Kind
  <1>1. /\ f \in Frame /\ a \in AddressSpaceId /\ p \in Page /\ root[a] # NoFrame
        /\ handles[t][h] = MappingHandle(f, a, p)
    BY <1>0, HandleShape DEF Inv, HandlesOK
  <1>2. mapped[a][p] = f
    BY <1>1, SMT DEF Inv, MappingsMatchHandles
  <1>3. /\ mapped' = [mapped EXCEPT ![a] = [@ EXCEPT ![p] = NoFrame]]
        /\ handles' = [handles EXCEPT ![t] = At(Take(@, h), h, FrameHandle(f))]
        /\ machine' = machine /\ status' = "Ok" /\ AtOnce
        /\ UNCHANGED <<task, root, stack, free, lost, held>>
    BY <1>1, <1>2 DEF Unmapped, Assert, Status, AtOnce, Calls, callVars
  <1> HIDE DEF f, a, p
  <1>4. Written(t, h, FrameHandle(f))
    <2>1. TypeOK /\ FrameHandle(f) \in Handle
      BY <1>1, HandleTypes DEF Inv
    <2>2. Writes(t, h, FrameHandle(f))
      BY <1>3 DEF Writes
    <2> QED
      BY <2>1, <2>2, OneHandle
  <1> USE <1>4 DEF Written
  <1>5. mapped \in [AddressSpaceId -> [Page -> Frame \cup {NoFrame, BootFrame}]]
    BY DEF Inv, TypeOK
  <1>6. \A b \in AddressSpaceId, q \in Page :
           mapped'[b][q] = IF b = a /\ q = p THEN NoFrame ELSE mapped[b][q]
    BY <1>1, <1>3, <1>5
  <1>7. TypeOK'
    <2>1. mapped' \in [AddressSpaceId -> [Page -> Frame \cup {NoFrame, BootFrame}]]
      BY <1>1, <1>3, <1>5
    <2> QED
      BY <1>3, <2>1 DEF Inv, TypeOK, AtOnce, Status, callVars
  <1>8. HandlesOK'
    BY <1>1, <1>3, SMT DEF Inv, HandlesOK, HandleOK
  <1>9. EmptySlots' /\ EmptySpaces'
    <2>1. task[t] = "Alive"
      BY DEF Calls
    <2>2. EmptySlots'
      BY <1>3, <1>4, <2>1 DEF Inv, EmptySlots
    <2>3. EmptySpaces'
      BY <1>1, <1>3, <1>6, SMT DEF Inv, EmptySpaces
    <2> QED
      BY <2>2, <2>3
  <1>10. HandlesKeep
    BY <1>1, HandleKinds, SMT DEF HandlesKeep, HandleOwns
  <1>11. FramesOwnedOnce /\ UNCHANGED <<root, stack, free, lost, held>>
    BY <1>3 DEF Inv
  <1>12. FramesOwnedOnce'
    BY <1>10, <1>11, NoneMoves
  <1>13. \A u \in TaskId, g \in HandleId, e \in Frame, b \in AddressSpaceId, q \in Page :
            handles'[u][g] = MappingHandle(e, b, q) <=>
               handles[u][g] = MappingHandle(e, b, q) /\ ~(u = t /\ g = h)
    BY <1>1, HandleKinds, SMT
  <1>14. \A u \in TaskId, g \in HandleId, e \in Frame :
            handles[u][g] = MappingHandle(e, a, p) => u = t /\ g = h
    <2> SUFFICES ASSUME NEW u \in TaskId, NEW g \in HandleId, NEW e \in Frame,
                        handles[u][g] = MappingHandle(e, a, p)
                 PROVE  u = t /\ g = h
      OBVIOUS
    <2>1. e = f
      BY <1>1, <1>2, SMT DEF Inv, MappingsMatchHandles
    <2>2. HandleOwns(u, g, f) /\ HandleOwns(t, h, f)
      BY <1>1, <2>1, HandleKinds, SMT DEF HandleOwns
    <2>3. HandlesApart
      BY Owners DEF Inv, OneOwner
    <2> QED
      BY <1>1, <2>2, <2>3 DEF HandlesApart
  <1>15. \A u \in TaskId, g \in HandleId, e \in Frame, b \in AddressSpaceId, q \in Page :
            handles[u][g] = MappingHandle(e, b, q) /\ u = t /\ g = h => b = a /\ q = p
    BY <1>1, HandleKinds, SMT
  <1>16. MappingsMatchHandles'
    <2> SUFFICES ASSUME NEW b \in AddressSpaceId, NEW q \in Page, NEW e \in Frame
                 PROVE  mapped'[b][q] = e <=>
                           \E u \in TaskId, g \in HandleId :
                              handles'[u][g] = MappingHandle(e, b, q)
      BY DEF MappingsMatchHandles
    <2>1. mapped[b][q] = e <=>
             \E u \in TaskId, g \in HandleId : handles[u][g] = MappingHandle(e, b, q)
      BY SMT DEF Inv, MappingsMatchHandles
    <2>2. CASE b = a /\ q = p
      BY <1>6, <1>13, <1>14, <2>2, NamesAssumption, SMT
    <2>3. CASE ~(b = a /\ q = p)
      BY <1>6, <1>13, <1>15, <2>1, <2>3, SMT
    <2> QED
      BY <2>2, <2>3
  <1> QED
    BY <1>3, <1>7, <1>8, <1>9, <1>12, <1>16, AtOnceOK DEF Inv, NoPanic

-----------------------------------------------------------------------------
(* The steps of the calls that make something.                             *)

\* A call takes a frame: it moves from the pool to the call.
LEMMA TakesStep ==
    ASSUME Inv, NEW t \in TaskId, Calls(t), NEW f \in free,
           NEW next \in {"push_frame", "insert_space", "add_task"}, Takes(t, f, next),
           as_id' \in AddressSpaceId \cup {NoSpace},
           next = "add_task" => as_id' \in AddressSpaceId /\ root[as_id'] # NoFrame
    PROVE  Inv'
  <1>0. f \in Frame
    BY DEF Inv, TypeOK
  <1>1. /\ free' = free \ {f} /\ call' = next /\ caller' = t /\ held' = f /\ new_task_id' = 0
        /\ before' = Snapshot
        /\ UNCHANGED <<task, handles, root, mapped, stack, lost, status, machine>>
    BY DEF Takes
  <1>2. TypeOK'
    <2>1. 0 \in TaskId
      BY LimitsAssumption, SMT DEF TaskId
    <2> QED
      BY <1>0, <1>1, <2>1 DEF Inv, TypeOK
  <1>3. HandlesOK' /\ EmptySlots' /\ EmptySpaces'
    BY <1>1 DEF Inv, HandlesOK, HandleOK, EmptySlots, EmptySpaces
  <1>4. FramesOwnedOnce'
    <2>1. HandlesKeep /\ FramesOwnedOnce
      BY <1>1 DEF HandlesKeep, HandleOwns, Inv
    <2>2. /\ HandlesApart' /\ RootsApart' /\ StacksApart'
          /\ \A e \in Frame : /\ Handled(e)' <=> Handled(e)
                              /\ Rooted(e)' <=> Rooted(e)
                              /\ Stacked(e)' <=> Stacked(e)
      BY <1>1, <2>1, HandlesKept, RootsKept, StacksKept
    <2>3. held = NoFrame
      BY DEF Inv, CallOK, Calls
    <2>4. Stays(f)
      BY <1>1, <2>2, <2>3, NamesAssumption DEF Stays
    <2>5. Alone(f)
      BY <1>0, <2>1, Owners DEF OneOwner
    <2>6. f \notin lost /\ ~Handled(f) /\ ~Rooted(f) /\ ~Stacked(f)
      BY <2>5 DEF Alone, One
    <2>7. Alone(f)'
      BY <1>0, <1>1, <2>2, <2>6 DEF Alone, One
    <2> QED
      BY <1>0, <2>1, <2>2, <2>4, <2>7, OneMoves
  <1>5. MappingsMatchHandles'
    <2>1. MappingsKeep /\ mapped' = mapped
      BY <1>1 DEF MappingsKeep
    <2> QED
      BY <2>1, MappingsKept DEF Inv
  <1>6. CallOK'
    BY <1>0, <1>1 DEF CallOK, Calls
  <1>7. BeforeOK'
    <2>1. free' \cup {held'} = free
      BY <1>1
    <2>2. before' = State(task', handles', root', mapped', stack', free' \cup {held'}, lost')
      BY <1>1, <2>1 DEF Snapshot, State
    <2> QED
      BY <1>1, <2>2 DEF BeforeOK
  <1> QED
    BY <1>1, <1>2, <1>3, <1>4, <1>5, <1>6, <1>7 DEF Inv, NoPanic

\* What a call leaves when it ends.
LEMMA EndsOK ==
    ASSUME NEW answer, Ends(answer)
    PROVE  CallOK' /\ BeforeOK'
  <1>1. call' = "idle" /\ held' = NoFrame
    BY DEF Ends
  <1> QED
    BY <1>1, Idle

\* The types of what a call leaves.
LEMMA EndsTypes ==
    ASSUME NEW answer \in Status, Ends(answer)
    PROVE  /\ status' \in Status /\ call' = "idle" /\ caller' \in TaskId /\ new_task_id' \in TaskId
           /\ held' = NoFrame /\ as_id' = NoSpace
  <1>1. 0 \in TaskId
    BY LimitsAssumption, SMT DEF TaskId
  <1> QED
    BY <1>1 DEF Ends

\* The call gives its frame back, and what it began with is restored.
LEMMA HeldGoesBack ==
    ASSUME Inv, call \in {"push_frame", "insert_space", "add_task"},
           GivesBack(held), Ends("OutOfMemory"),
           UNCHANGED <<task, handles, root, mapped, stack, lost>>
    PROVE  Inv' /\ Snapshot' = before
  <1>1. PICK f \in Frame : f = held
    BY DEF Inv, CallOK
  <1>2. Alone(f) /\ FramesOwnedOnce
    BY Owners DEF Inv, OneOwner
  <1>3. f \notin free /\ f \notin lost /\ ~Handled(f) /\ ~Rooted(f) /\ ~Stacked(f) /\ f # NoFrame
    BY <1>1, <1>2, NamesAssumption DEF Alone, One
  <1>4. free' = free \cup {f} /\ machine' = machine
    BY <1>1, <1>3 DEF GivesBack, Assert
  <1>5. /\ status' \in Status /\ call' = "idle" /\ caller' \in TaskId /\ new_task_id' \in TaskId
        /\ held' = NoFrame /\ as_id' = NoSpace
    BY EndsTypes DEF Status
  <1>6. TypeOK'
    BY <1>4, <1>5 DEF Inv, TypeOK, Status
  <1>7. HandlesOK' /\ EmptySlots' /\ EmptySpaces'
    BY DEF Inv, HandlesOK, HandleOK, EmptySlots, EmptySpaces
  <1>8. FramesOwnedOnce'
    <2>1. HandlesKeep
      BY DEF HandlesKeep, HandleOwns
    <2>2. /\ HandlesApart' /\ RootsApart' /\ StacksApart'
          /\ \A e \in Frame : /\ Handled(e)' <=> Handled(e)
                              /\ Rooted(e)' <=> Rooted(e)
                              /\ Stacked(e)' <=> Stacked(e)
      BY <1>2, <2>1, HandlesKept, RootsKept, StacksKept
    <2>3. Stays(f)
      BY <1>1, <1>4, <1>5, <2>2, NamesAssumption DEF Stays
    <2>4. Alone(f)'
      BY <1>3, <1>4, <1>5, <2>2 DEF Alone, One
    <2> QED
      BY <1>2, <2>2, <2>3, <2>4, OneMoves
  <1>9. MappingsMatchHandles'
    <2>1. MappingsKeep
      BY DEF MappingsKeep
    <2> QED
      BY <2>1, MappingsKept DEF Inv
  <1>10. Snapshot' = before
    <2>1. before = State(task, handles, root, mapped, stack, free \cup {f}, lost)
      BY <1>1 DEF Inv, BeforeOK
    <2>2. Snapshot' = State(task', handles', root', mapped', stack', free', lost')
      BY DEF Snapshot, State
    <2> QED
      BY <1>4, <2>1, <2>2
  <1> QED
    BY <1>4, <1>6, <1>7, <1>8, <1>9, <1>10, EndsOK DEF Inv, NoPanic

\* The entry of the caller's table that a call fills.
LEMMA PushWrites ==
    ASSUME Inv, call # "idle", NEW x \in Handle, Pushes(x)
    PROVE  /\ Ends("Ok") /\ UNCHANGED <<task, root, mapped, stack, free, lost, machine>>
           /\ caller \in TaskId /\ task[caller] = "Alive"
           /\ \E h \in HandleId : handles[caller][h] = None /\ Written(caller, h, x)
  <1>1. caller \in TaskId /\ task[caller] = "Alive"
    BY DEF Inv, TypeOK, CallOK
  <1>2. PICK h \in HandleId : /\ handles[caller][h] = None
                              /\ handles' = [handles EXCEPT ![caller] = At(@, h, x)]
    BY DEF Pushes, FirstEmpty
  <1>3. Writes(caller, h, x) /\ TypeOK
    BY <1>2 DEF Writes, Inv
  <1>4. Written(caller, h, x)
    BY <1>1, <1>3, OneHandle
  <1> QED
    BY <1>1, <1>2, <1>4 DEF Pushes

\* What holds after a push whatever is pushed, except who owns what.
LEMMA PushKeeps ==
    ASSUME Inv, call # "idle", NEW x \in Handle, HandleOK(x), x.kind # "Mapping", Pushes(x)
    PROVE  /\ TypeOK' /\ HandlesOK' /\ EmptySlots' /\ EmptySpaces' /\ NoPanic'
           /\ MappingsMatchHandles' /\ CallOK' /\ BeforeOK'
  <1>1. /\ Ends("Ok") /\ UNCHANGED <<task, root, mapped, stack, free, lost, machine>>
        /\ caller \in TaskId /\ task[caller] = "Alive"
    BY PushWrites
  <1>2. PICK h \in HandleId : handles[caller][h] = None /\ Written(caller, h, x)
    BY PushWrites
  <1>3. /\ handles' \in [TaskId -> [HandleId -> Handle]]
        /\ \A u \in TaskId, g \in HandleId :
              handles'[u][g] = IF u = caller /\ g = h THEN x ELSE handles[u][g]
    BY <1>2 DEF Written
  <1>4. TypeOK'
    BY <1>1, <1>3, EndsTypes DEF Inv, TypeOK, Status
  <1>5. HandlesOK'
    <2> SUFFICES ASSUME NEW u \in TaskId, NEW g \in HandleId
                 PROVE  HandleOK(handles[u][g])'
      BY DEF HandlesOK
    <2>1. HandleOK(handles[u][g]) /\ root' = root
      BY <1>1 DEF Inv, HandlesOK
    <2>2. handles'[u][g] \in {x, handles[u][g]}
      BY <1>3
    <2> QED
      BY <2>1, <2>2 DEF HandleOK
  <1>6. EmptySlots'
    BY <1>1, <1>3 DEF Inv, EmptySlots
  <1>7. EmptySpaces'
    BY <1>1 DEF Inv, EmptySpaces
  <1>8. MappingsMatchHandles'
    <2>1. handles[caller][h].kind = "None" /\ handles'[caller][h].kind # "Mapping"
      BY <1>1, <1>2, <1>3, HandleKinds
    <2>2. \A e, b, q : MappingHandle(e, b, q).kind = "Mapping"
      BY HandleKinds
    <2>3. \A u \in TaskId, g \in HandleId :
             ~(u = caller /\ g = h) => handles'[u][g] = handles[u][g]
      BY <1>3
    <2>4. MappingsKeep
      BY ONLY <2>1, <2>2, <2>3, SMT DEF MappingsKeep
    <2> QED
      BY <1>1, <2>4, MappingsKept DEF Inv
  <1> QED
    BY <1>1, <1>4, <1>5, <1>6, <1>7, <1>8, EndsOK DEF Inv, NoPanic

\* The frame that the call holds goes to a handle.
LEMMA HeldGoesToHandle ==
    ASSUME Inv, call = "push_frame", Pushes(FrameHandle(held))
    PROVE  Inv'
  <1>1. PICK f \in Frame : f = held
    BY DEF Inv, CallOK
  <1>2. /\ FrameHandle(f) \in Handle /\ HandleOK(FrameHandle(f)) /\ Pushes(FrameHandle(f))
        /\ FrameHandle(f).kind = "Frame" /\ FrameHandle(f).frame = f
    BY <1>1, HandleTypes, HandleKinds DEF HandleOK
  <1>3. /\ TypeOK' /\ HandlesOK' /\ EmptySlots' /\ EmptySpaces' /\ NoPanic'
        /\ MappingsMatchHandles' /\ CallOK' /\ BeforeOK'
    BY <1>2, PushKeeps
  <1>4. /\ UNCHANGED <<root, stack, free, lost>> /\ held' = NoFrame /\ caller \in TaskId
    BY <1>2, PushWrites DEF Ends
  <1>5. PICK h \in HandleId : handles[caller][h] = None /\ Written(caller, h, FrameHandle(f))
    BY <1>2, PushWrites
  <1>6. PICK t \in TaskId : t = caller
    BY <1>4
  <1>7. \A u \in TaskId, g \in HandleId, e \in Frame :
           HandleOwns(u, g, e)' <=> HandleOwns(u, g, e) \/ (u = t /\ g = h /\ e = f)
    BY <1>2, <1>5, <1>6, HandleKinds, SMT DEF HandleOwns, Written
  <1>8. FramesOwnedOnce /\ Alone(f) /\ HandlesApart
    BY Owners DEF Inv, OneOwner
  <1>9. f \notin free /\ f \notin lost /\ ~Handled(f) /\ ~Rooted(f) /\ ~Stacked(f)
    BY <1>1, <1>8 DEF Alone, One
  <1>10. \A u \in TaskId, g \in HandleId : ~HandleOwns(u, g, f)
    BY <1>9 DEF Handled
  <1>11. HandlesApart'
    BY <1>7, <1>8, <1>10, SMT DEF HandlesApart
  <1>12. \A e \in Frame : Handled(e)' <=> Handled(e) \/ e = f
    BY <1>7, SMT DEF Handled
  <1>13. /\ RootsApart' /\ StacksApart'
         /\ \A e \in Frame : (Rooted(e)' <=> Rooted(e)) /\ (Stacked(e)' <=> Stacked(e))
    BY <1>4, <1>8, RootsKept, StacksKept
  <1>14. Stays(f)
    BY <1>1, <1>4, <1>12, <1>13, NamesAssumption DEF Stays
  <1>15. Alone(f)'
    BY <1>4, <1>9, <1>12, <1>13, NamesAssumption DEF Alone, One
  <1>16. FramesOwnedOnce'
    BY <1>8, <1>11, <1>13, <1>14, <1>15, OneMoves
  <1> QED
    BY <1>3, <1>16 DEF Inv

\* A handle that owns no frame is pushed.
LEMMA NothingGoesToHandle ==
    ASSUME Inv, call \in {"push_space", "push_thread"}, NEW x \in Handle, HandleOK(x),
           x.kind \notin {"Frame", "Mapping"}, Pushes(x)
    PROVE  Inv'
  <1>1. /\ TypeOK' /\ HandlesOK' /\ EmptySlots' /\ EmptySpaces' /\ NoPanic'
        /\ MappingsMatchHandles' /\ CallOK' /\ BeforeOK'
    BY PushKeeps
  <1>2. /\ UNCHANGED <<root, stack, free, lost>> /\ held' = NoFrame /\ caller \in TaskId
    BY PushWrites DEF Ends
  <1>3. held = NoFrame
    BY DEF Inv, CallOK
  <1>4. PICK h \in HandleId : handles[caller][h] = None /\ Written(caller, h, x)
    BY PushWrites
  <1>5. HandlesKeep
    BY <1>2, <1>4, HandleKinds, SMT DEF HandlesKeep, HandleOwns, Written
  <1>6. FramesOwnedOnce /\ UNCHANGED <<root, stack, free, lost, held>>
    BY <1>2, <1>3 DEF Inv
  <1>7. FramesOwnedOnce'
    BY <1>5, <1>6, NoneMoves
  <1> QED
    BY <1>1, <1>7 DEF Inv

\* The frame that the call holds becomes the root of a space in an empty entry.
LEMMA HeldBecomesRoot ==
    ASSUME Inv, call = "insert_space", NEW a \in AddressSpaceId, FirstSpace(a),
           root' = [root EXCEPT ![a] = held],
           mapped' = [mapped EXCEPT ![a] = [p \in Page |-> NoFrame]],
           as_id' = a, call' = "push_space", held' = NoFrame,
           UNCHANGED <<task, handles, stack, free, lost, status, machine, caller, new_task_id, before>>
    PROVE  Inv'
  <1>1. PICK f \in Frame : f = held
    BY DEF Inv, CallOK
  <1>2. root[a] = NoFrame
    BY DEF FirstSpace
  <1>3. /\ root \in [AddressSpaceId -> Frame \cup {NoFrame}]
        /\ mapped \in [AddressSpaceId -> [Page -> Frame \cup {NoFrame, BootFrame}]]
    BY DEF Inv, TypeOK
  <1>4. /\ \A b \in AddressSpaceId : root'[b] = IF b = a THEN f ELSE root[b]
        /\ root' \in [AddressSpaceId -> Frame \cup {NoFrame}]
    BY <1>1, <1>3
  <1>5. mapped' = mapped
    <2>1. \A p \in Page : mapped[a][p] = NoFrame
      BY <1>2 DEF Inv, EmptySpaces
    <2>2. mapped[a] \in [Page -> Frame \cup {NoFrame, BootFrame}]
      BY <1>3
    <2>3. mapped[a] = [p \in Page |-> NoFrame]
      BY <2>1, <2>2
    <2> QED
      BY <1>3, <2>3
  <1>6. TypeOK'
    BY <1>4, <1>5 DEF Inv, TypeOK
  <1>7. HandlesOK'
    <2>1. \A b \in AddressSpaceId : root[b] # NoFrame => root'[b] # NoFrame
      BY <1>4, NamesAssumption
    <2> QED
      BY <2>1, SMT DEF Inv, HandlesOK, HandleOK
  <1>8. EmptySlots'
    BY DEF Inv, EmptySlots
  <1>9. EmptySpaces'
    BY <1>4, <1>5, NamesAssumption DEF Inv, EmptySpaces
  <1>10. FramesOwnedOnce /\ Alone(f) /\ RootsApart
    BY Owners DEF Inv, OneOwner
  <1>11. f \notin free /\ f \notin lost /\ ~Handled(f) /\ ~Rooted(f) /\ ~Stacked(f)
    BY <1>1, <1>10 DEF Alone, One
  <1>12. FramesOwnedOnce'
    <2>1. HandlesKeep
      BY DEF HandlesKeep, HandleOwns
    <2>2. /\ HandlesApart' /\ StacksApart'
          /\ \A e \in Frame : (Handled(e)' <=> Handled(e)) /\ (Stacked(e)' <=> Stacked(e))
      BY <1>10, <2>1, HandlesKept, StacksKept
    <2>3. \A b \in AddressSpaceId : root[b] # f
      BY <1>11 DEF Rooted
    <2>4. RootsApart'
      BY <1>4, <1>10, <2>3, SMT DEF RootsApart
    <2>5. \A e \in Frame : Rooted(e)' <=> Rooted(e) \/ e = f
      BY <1>2, <1>4, NamesAssumption, SMT DEF Rooted
    <2>6. Stays(f)
      BY <1>1, <2>2, <2>5, NamesAssumption DEF Stays
    <2>7. Alone(f)'
      BY <1>11, <2>2, <2>5, NamesAssumption DEF Alone, One
    <2> QED
      BY <1>10, <2>2, <2>4, <2>6, <2>7, OneMoves
  <1>13. MappingsMatchHandles'
    <2>1. MappingsKeep
      BY DEF MappingsKeep
    <2> QED
      BY <1>5, <2>1, MappingsKept DEF Inv
  <1>14. CallOK'
    <2>1. \A t \in TaskId, h \in HandleId : handles[t][h].space # a
      <3> SUFFICES ASSUME NEW t \in TaskId, NEW h \in HandleId, handles[t][h].space = a
                   PROVE  FALSE
        OBVIOUS
      <3>1. HandleOK(handles[t][h])
        BY DEF Inv, HandlesOK
      <3>2. NoSpace \notin AddressSpaceId
        BY LimitsAssumption, SMT DEF NoSpace, AddressSpaceId
      <3>3. /\ None.space = NoSpace /\ ThreadHandle.space = NoSpace
            /\ \A e : FrameHandle(e).space = NoSpace
        BY DEF None, ThreadHandle, FrameHandle, Object
      <3> QED
        BY <1>2, <3>1, <3>2, <3>3, HandleKinds, SMT DEF HandleOK
    <2>2. \A p \in Page : mapped'[a][p] = NoFrame
      <3>1. \A p \in Page : mapped[a][p] = NoFrame
        BY <1>2 DEF Inv, EmptySpaces
      <3> QED
        BY ONLY <1>5, <3>1
    <2>3. NewSpace'
      BY <1>4, <2>1, <2>2 DEF NewSpace
    <2> QED
      BY <2>3 DEF Inv, CallOK
  <1>15. BeforeOK'
    <2>1. before = State(task, handles, root, mapped, stack, free \cup {f}, lost)
      BY <1>1 DEF Inv, BeforeOK
    <2>2. root'[a] = f
      BY <1>4
    <2>3. [root' EXCEPT ![a] = NoFrame] = root
      BY <1>1, <1>2, <1>3
    <2>4. before' = State(task', handles', [root' EXCEPT ![as_id'] = NoFrame], mapped', stack',
                          free' \cup {root'[as_id']}, lost')
      BY <1>5, <2>1, <2>2, <2>3
    <2> QED
      BY <2>4 DEF BeforeOK
  <1> QED
    BY <1>6, <1>7, <1>8, <1>9, <1>12, <1>13, <1>14, <1>15 DEF Inv, NoPanic

\* The space that was just inserted is removed: its root goes back.
LEMMA RootGoesBack ==
    ASSUME Inv, call = "push_space",
           root' = [root EXCEPT ![as_id] = NoFrame], GivesBack(root[as_id]), Ends("OutOfMemory"),
           UNCHANGED <<task, handles, mapped, stack, lost>>
    PROVE  Inv' /\ Snapshot' = before
  <1>1. NewSpace
    BY DEF Inv, CallOK
  <1>2. PICK f \in Frame, a \in AddressSpaceId : f = root[a] /\ a = as_id
    BY <1>1 DEF NewSpace
  <1>3. Alone(f) /\ FramesOwnedOnce /\ RootsApart /\ held = NoFrame
    BY Owners DEF Inv, OneOwner, CallOK
  <1>4. Rooted(f)
    BY <1>2 DEF Rooted
  <1>5. f \notin free /\ f \notin lost /\ ~Handled(f) /\ ~Stacked(f) /\ f # NoFrame
    BY <1>3, <1>4, NamesAssumption DEF Alone, One
  <1>6. free' = free \cup {f} /\ machine' = machine
    BY <1>2, <1>5 DEF GivesBack, Assert
  <1>7. /\ status' \in Status /\ call' = "idle" /\ caller' \in TaskId /\ new_task_id' \in TaskId
        /\ held' = NoFrame /\ as_id' = NoSpace
    BY EndsTypes DEF Status
  <1>8. root \in [AddressSpaceId -> Frame \cup {NoFrame}]
    BY DEF Inv, TypeOK
  <1>9. /\ \A b \in AddressSpaceId : root'[b] = IF b = a THEN NoFrame ELSE root[b]
        /\ root' \in [AddressSpaceId -> Frame \cup {NoFrame}]
    BY <1>2, <1>8
  <1>10. TypeOK'
    BY <1>6, <1>7, <1>9 DEF Inv, TypeOK, Status
  <1>11. HandlesOK'
    <2> SUFFICES ASSUME NEW t \in TaskId, NEW h \in HandleId
                 PROVE  HandleOK(handles[t][h])'
      BY DEF HandlesOK
    <2>1. HandleOK(handles[t][h]) /\ handles[t][h].space # a
      BY <1>1, <1>2 DEF Inv, HandlesOK, NewSpace
    <2> QED
      BY <1>9, <2>1, HandleKinds, SMT DEF HandleOK
  <1>12. EmptySlots'
    BY DEF Inv, EmptySlots
  <1>13. EmptySpaces'
    BY <1>1, <1>2, <1>9, SMT DEF Inv, EmptySpaces, NewSpace
  <1>14. FramesOwnedOnce'
    <2>1. HandlesKeep
      BY DEF HandlesKeep, HandleOwns
    <2>2. /\ HandlesApart' /\ StacksApart'
          /\ \A e \in Frame : (Handled(e)' <=> Handled(e)) /\ (Stacked(e)' <=> Stacked(e))
      BY <1>3, <2>1, HandlesKept, StacksKept
    <2>3. RootsApart'
      BY <1>3, <1>9, NamesAssumption, SMT DEF RootsApart
    <2>4. ~Rooted(f)'
      BY <1>2, <1>3, <1>9, NamesAssumption, SMT DEF Rooted, RootsApart
    <2>5. \A e \in Frame : e # f => (Rooted(e)' <=> Rooted(e))
      BY <1>2, <1>9, NamesAssumption, SMT DEF Rooted
    <2>6. Stays(f)
      BY <1>3, <1>6, <1>7, <2>2, <2>5 DEF Stays
    <2>7. Alone(f)'
      BY <1>5, <1>6, <1>7, <2>2, <2>4 DEF Alone, One
    <2> QED
      BY <1>3, <2>2, <2>3, <2>6, <2>7, OneMoves
  <1>15. MappingsMatchHandles'
    <2>1. MappingsKeep
      BY DEF MappingsKeep
    <2> QED
      BY <2>1, MappingsKept DEF Inv
  <1>16. Snapshot' = before
    <2>1. before = State(task, handles, root', mapped, stack, free \cup {f}, lost)
      BY <1>2 DEF Inv, BeforeOK
    <2>2. Snapshot' = State(task', handles', root', mapped', stack', free', lost')
      BY DEF Snapshot, State
    <2> QED
      BY <1>6, <2>1, <2>2
  <1> QED
    BY <1>6, <1>10, <1>11, <1>12, <1>13, <1>14, <1>15, <1>16, EndsOK DEF Inv, NoPanic

\* The handles of a new task own nothing.
LEMMA NewHandles ==
    ASSUME NEW a \in AddressSpaceId
    PROVE  /\ NewTable(a) \in [HandleId -> Handle]
           /\ \A g \in HandleId : NewTable(a)[g] \in {SpaceHandle(a), ThreadHandle, None}
           /\ \A g \in HandleId : NewTable(a)[g].kind \notin {"Frame", "Mapping"}
  <1>1. 0 \in HandleId /\ 1 \in HandleId
    BY LimitsAssumption, SMT DEF HandleId
  <1>2. /\ NewTable(a) \in [HandleId -> Handle]
        /\ \A g \in HandleId : NewTable(a)[g] \in {SpaceHandle(a), ThreadHandle, None}
    BY <1>1, HandleTypes DEF NewTable, At, EmptyHandles
  <1>3. \A x \in {SpaceHandle(a), ThreadHandle, None} : x.kind \notin {"Frame", "Mapping"}
    BY HandleKinds, SMT
  <1> QED
    BY <1>2, <1>3

\* The handle table of one task is replaced by another, and neither owns a frame.
LEMMA TableReplaced ==
    ASSUME TypeOK, FramesOwnedOnce, MappingsMatchHandles, mapped' = mapped,
           NEW n \in TaskId, NEW tbl \in [HandleId -> Handle], handles' = [handles EXCEPT ![n] = tbl],
           \A g \in HandleId : handles[n][g].kind \notin {"Frame", "Mapping"},
           \A g \in HandleId : tbl[g].kind \notin {"Frame", "Mapping"}
    PROVE  /\ handles' \in [TaskId -> [HandleId -> Handle]]
           /\ handles'[n] = tbl /\ \A u \in TaskId : u # n => handles'[u] = handles[u]
           /\ HandlesKeep /\ MappingsMatchHandles'
  <1>1. handles \in [TaskId -> [HandleId -> Handle]]
    BY DEF TypeOK
  <1>2. /\ handles' \in [TaskId -> [HandleId -> Handle]]
        /\ handles'[n] = tbl /\ \A u \in TaskId : u # n => handles'[u] = handles[u]
    BY <1>1
  <1>3. HandlesKeep
    BY <1>2, SMT DEF HandlesKeep, HandleOwns
  <1>4. \A e, b, q : MappingHandle(e, b, q).kind = "Mapping"
    BY HandleKinds
  <1>5. MappingsKeep
    BY <1>2, <1>4, SMT DEF MappingsKeep
  <1> QED
    BY <1>2, <1>3, <1>5, MappingsKept

\* The frame that the call holds becomes the stack of a new task in an empty slot.
LEMMA HeldBecomesStack ==
    ASSUME Inv, call = "add_task", NEW n \in TaskId, FirstTask(n),
           task' = [task EXCEPT ![n] = "Alive"],
           handles' = [handles EXCEPT ![n] = NewTable(as_id)],
           stack' = [stack EXCEPT ![n] = held],
           new_task_id' = n, call' = "push_thread", held' = NoFrame,
           UNCHANGED <<root, mapped, free, lost, status, machine, caller, as_id, before>>
    PROVE  Inv'
  <1>1. PICK f \in Frame, a \in AddressSpaceId : f = held /\ a = as_id /\ root[a] # NoFrame
    BY DEF Inv, CallOK
  <1>2. /\ task[n] = "None" /\ task[caller] = "Alive" /\ caller # n
        /\ stack[n] = NoFrame /\ \A h \in HandleId : handles[n][h] = None
    BY DEF FirstTask, Inv, CallOK, EmptySlots
  <1>3. /\ task \in [TaskId -> {"None", "Alive", "Dead"}]
        /\ stack \in [TaskId -> Frame \cup {NoFrame}]
        /\ handles \in [TaskId -> [HandleId -> Handle]]
    BY DEF Inv, TypeOK
  <1>4. /\ handles' \in [TaskId -> [HandleId -> Handle]]
        /\ handles'[n] = NewTable(a) /\ \A u \in TaskId : u # n => handles'[u] = handles[u]
        /\ HandlesKeep /\ MappingsMatchHandles'
    <2>1. \A g \in HandleId : handles[n][g].kind \notin {"Frame", "Mapping"}
      BY <1>2, HandleKinds, SMT
    <2>2. TypeOK /\ FramesOwnedOnce /\ MappingsMatchHandles /\ mapped' = mapped
      BY DEF Inv
    <2>3. handles' = [handles EXCEPT ![n] = NewTable(a)]
      BY <1>1
    <2> QED
      BY ONLY <2>1, <2>2, <2>3, n \in TaskId, a \in AddressSpaceId, NewHandles, TableReplaced
  <1>5. /\ \A u \in TaskId : task'[u] = IF u = n THEN "Alive" ELSE task[u]
        /\ task' \in [TaskId -> {"None", "Alive", "Dead"}]
    BY <1>3
  <1>6. /\ \A u \in TaskId : stack'[u] = IF u = n THEN f ELSE stack[u]
        /\ stack' \in [TaskId -> Frame \cup {NoFrame}]
    BY <1>1, <1>3
  <1>7. TypeOK'
    BY <1>4, <1>5, <1>6 DEF Inv, TypeOK
  <1>8. HandlesOK'
    <2> SUFFICES ASSUME NEW u \in TaskId, NEW g \in HandleId
                 PROVE  HandleOK(handles[u][g])'
      BY DEF HandlesOK
    <2>1. HandleOK(handles[u][g]) /\ root' = root
      BY DEF Inv, HandlesOK
    <2>2. CASE u = n
      <3>1. handles'[u][g] \in {SpaceHandle(a), ThreadHandle, None}
        BY <1>4, <2>2, NewHandles
      <3> QED
        BY <1>1, <2>1, <3>1 DEF HandleOK
    <2>3. CASE u # n
      <3>1. handles'[u][g] = handles[u][g]
        BY <1>4, <2>3
      <3> QED
        BY <2>1, <3>1 DEF HandleOK
    <2> QED
      BY <2>2, <2>3
  <1>9. EmptySlots'
    <2> SUFFICES ASSUME NEW u \in TaskId, task'[u] = "None"
                 PROVE  stack'[u] = NoFrame /\ \A h \in HandleId : handles'[u][h] = None
      BY DEF EmptySlots
    <2>1. u # n /\ task[u] = "None"
      BY <1>5
    <2>2. stack[u] = NoFrame /\ \A h \in HandleId : handles[u][h] = None
      BY <2>1 DEF Inv, EmptySlots
    <2> QED
      BY <1>4, <1>6, <2>1, <2>2
  <1>10. EmptySpaces'
    BY DEF Inv, EmptySpaces
  <1>11. FramesOwnedOnce /\ Alone(f) /\ StacksApart
    BY Owners DEF Inv, OneOwner
  <1>12. f \notin free /\ f \notin lost /\ ~Handled(f) /\ ~Rooted(f) /\ ~Stacked(f)
    BY <1>1, <1>11 DEF Alone, One
  <1>13. FramesOwnedOnce'
    <2>1. /\ HandlesApart' /\ RootsApart'
          /\ \A e \in Frame : (Handled(e)' <=> Handled(e)) /\ (Rooted(e)' <=> Rooted(e))
      BY <1>4, <1>11, HandlesKept, RootsKept
    <2>2. \A u \in TaskId : stack[u] # f
      BY <1>12 DEF Stacked
    <2>3. StacksApart'
      BY <1>6, <1>11, <2>2, SMT DEF StacksApart
    <2>4. \A e \in Frame : Stacked(e)' <=> Stacked(e) \/ e = f
      BY <1>2, <1>6, NamesAssumption, SMT DEF Stacked
    <2>5. Stays(f)
      BY <1>1, <2>1, <2>4, NamesAssumption DEF Stays
    <2>6. Alone(f)'
      BY <1>12, <2>1, <2>4, NamesAssumption DEF Alone, One
    <2> QED
      BY <1>11, <2>1, <2>3, <2>5, <2>6, OneMoves
  <1>14. CallOK'
    <2>1. NewThread'
      BY <1>1, <1>2, <1>4, <1>5, <1>6 DEF NewThread
    <2>2. task'[caller] = "Alive"
      <3>1. caller \in TaskId
        BY DEF Inv, TypeOK
      <3> QED
        BY <1>2, <1>5, <3>1
    <2> QED
      BY <2>1, <2>2 DEF CallOK
  <1>15. BeforeOK'
    <2>1. before = State(task, handles, root, mapped, stack, free \cup {f}, lost)
      BY <1>1 DEF Inv, BeforeOK
    <2>2. stack'[n] = f
      BY <1>6
    <2>3. [task' EXCEPT ![n] = "None"] = task
      BY <1>2, <1>3
    <2>4. [stack' EXCEPT ![n] = NoFrame] = stack
      BY <1>2, <1>3
    <2>5. handles[n] = EmptyHandles
      <3>1. handles[n] \in [HandleId -> Handle]
        BY <1>3
      <3> QED
        BY <1>2, <3>1 DEF EmptyHandles
    <2>6. [handles' EXCEPT ![n] = EmptyHandles] = handles
      BY <1>3, <2>5
    <2>7. before' = State([task' EXCEPT ![new_task_id'] = "None"],
                          [handles' EXCEPT ![new_task_id'] = EmptyHandles], root', mapped',
                          [stack' EXCEPT ![new_task_id'] = NoFrame],
                          free' \cup {stack'[new_task_id']}, lost')
      BY <2>1, <2>2, <2>3, <2>4, <2>6
    <2> QED
      BY <2>7 DEF BeforeOK
  <1> QED
    BY <1>4, <1>7, <1>8, <1>9, <1>10, <1>13, <1>14, <1>15 DEF Inv, NoPanic

\* No slot is left: the stack of the new task is lost, and nothing else changes.
LEMMA StackIsLost ==
    ASSUME Inv, call = "add_task", lost' = lost \cup {held}, Ends("OutOfMemory"),
           UNCHANGED <<task, handles, root, mapped, stack, free, machine>>
    PROVE  /\ Inv'
           /\ Snapshot' = [before EXCEPT !.free = @ \ {held}, !.lost = @ \cup {held}]
  <1>1. PICK f \in Frame : f = held
    BY DEF Inv, CallOK
  <1>2. Alone(f) /\ FramesOwnedOnce
    BY Owners DEF Inv, OneOwner
  <1>3. f \notin free /\ f \notin lost /\ ~Handled(f) /\ ~Rooted(f) /\ ~Stacked(f)
    BY <1>1, <1>2 DEF Alone, One
  <1>4. /\ status' \in Status /\ call' = "idle" /\ caller' \in TaskId /\ new_task_id' \in TaskId
        /\ held' = NoFrame /\ as_id' = NoSpace
    BY EndsTypes DEF Status
  <1>5. TypeOK'
    BY <1>1, <1>4 DEF Inv, TypeOK, Status
  <1>6. HandlesOK' /\ EmptySlots' /\ EmptySpaces'
    BY DEF Inv, HandlesOK, HandleOK, EmptySlots, EmptySpaces
  <1>7. FramesOwnedOnce'
    <2>1. HandlesKeep
      BY DEF HandlesKeep, HandleOwns
    <2>2. /\ HandlesApart' /\ RootsApart' /\ StacksApart'
          /\ \A e \in Frame : /\ Handled(e)' <=> Handled(e)
                              /\ Rooted(e)' <=> Rooted(e)
                              /\ Stacked(e)' <=> Stacked(e)
      BY <1>2, <2>1, HandlesKept, RootsKept, StacksKept
    <2>3. Stays(f)
      BY <1>1, <1>4, <2>2, NamesAssumption DEF Stays
    <2>4. Alone(f)'
      BY <1>1, <1>3, <1>4, <2>2, NamesAssumption DEF Alone, One
    <2> QED
      BY <1>2, <2>2, <2>3, <2>4, OneMoves
  <1>8. MappingsMatchHandles'
    <2>1. MappingsKeep
      BY DEF MappingsKeep
    <2> QED
      BY <2>1, MappingsKept DEF Inv
  <1>9. Snapshot' = [before EXCEPT !.free = @ \ {held}, !.lost = @ \cup {held}]
    <2>1. before = State(task, handles, root, mapped, stack, free \cup {f}, lost)
      BY <1>1 DEF Inv, BeforeOK
    <2>2. Snapshot' = State(task, handles, root, mapped, stack, free, lost \cup {f})
      BY <1>1 DEF Snapshot, State
    <2>3. before.free \ {f} = free /\ before.lost = lost
      BY ONLY <1>3, <2>1, SMT DEF State
    <2>4. [before EXCEPT !.free = @ \ {f}, !.lost = @ \cup {f}]
             = [[before EXCEPT !.free = free] EXCEPT !.lost = lost \cup {f}]
      BY ONLY <2>3
    <2>5. [before EXCEPT !.free = free] = State(task, handles, root, mapped, stack, free, lost)
      BY ONLY <2>1, SMT DEF State
    <2>6. \A l : [State(task, handles, root, mapped, stack, free, lost) EXCEPT !.lost = l]
                   = State(task, handles, root, mapped, stack, free, l)
      BY SMT DEF State
    <2> QED
      BY <1>1, <2>2, <2>4, <2>5, <2>6
  <1> QED
    BY <1>5, <1>6, <1>7, <1>8, <1>9, EndsOK DEF Inv, NoPanic

\* The task that was just added is removed: its handles go, and its stack goes back.
LEMMA StackGoesBack ==
    ASSUME Inv, call = "push_thread",
           task' = [task EXCEPT ![new_task_id] = "None"],
           handles' = [handles EXCEPT ![new_task_id] = EmptyHandles],
           stack' = [stack EXCEPT ![new_task_id] = NoFrame],
           GivesBack(stack[new_task_id]), Ends("OutOfMemory"), UNCHANGED <<root, mapped, lost>>
    PROVE  Inv' /\ Snapshot' = before
  <1>1. NewThread /\ new_task_id \in TaskId /\ held = NoFrame
    BY DEF Inv, CallOK, TypeOK
  <1>2. PICK f \in Frame, n \in TaskId, a \in AddressSpaceId :
           f = stack[n] /\ n = new_task_id /\ a = as_id /\ handles[n] = NewTable(a)
    BY <1>1 DEF NewThread
  <1>3. Alone(f) /\ FramesOwnedOnce /\ StacksApart
    BY Owners DEF Inv, OneOwner
  <1>4. Stacked(f)
    BY <1>2 DEF Stacked
  <1>5. f \notin free /\ f \notin lost /\ ~Handled(f) /\ ~Rooted(f) /\ f # NoFrame
    BY <1>3, <1>4, NamesAssumption DEF Alone, One
  <1>6. free' = free \cup {f} /\ machine' = machine
    BY <1>2, <1>5 DEF GivesBack, Assert
  <1>7. /\ status' \in Status /\ call' = "idle" /\ caller' \in TaskId /\ new_task_id' \in TaskId
        /\ held' = NoFrame /\ as_id' = NoSpace
    BY EndsTypes DEF Status
  <1>8. /\ handles' \in [TaskId -> [HandleId -> Handle]]
        /\ handles'[n] = EmptyHandles /\ \A u \in TaskId : u # n => handles'[u] = handles[u]
        /\ HandlesKeep /\ MappingsMatchHandles'
    <2>1. /\ \A g \in HandleId : handles[n][g].kind \notin {"Frame", "Mapping"}
          /\ \A g \in HandleId : EmptyHandles[g].kind \notin {"Frame", "Mapping"}
          /\ EmptyHandles \in [HandleId -> Handle]
      BY <1>2, NewHandles, HandleKinds, HandleTypes, SMT DEF EmptyHandles
    <2>2. TypeOK /\ FramesOwnedOnce /\ MappingsMatchHandles /\ mapped' = mapped
      BY DEF Inv
    <2>3. handles' = [handles EXCEPT ![n] = EmptyHandles]
      BY <1>2
    <2> QED
      BY ONLY <2>1, <2>2, <2>3, n \in TaskId, TableReplaced
  <1>9. /\ task \in [TaskId -> {"None", "Alive", "Dead"}]
        /\ stack \in [TaskId -> Frame \cup {NoFrame}]
    BY DEF Inv, TypeOK
  <1>10. /\ \A u \in TaskId : task'[u] = IF u = n THEN "None" ELSE task[u]
         /\ task' \in [TaskId -> {"None", "Alive", "Dead"}]
         /\ \A u \in TaskId : stack'[u] = IF u = n THEN NoFrame ELSE stack[u]
         /\ stack' \in [TaskId -> Frame \cup {NoFrame}]
    BY <1>2, <1>9
  <1>11. TypeOK'
    BY <1>6, <1>7, <1>8, <1>10 DEF Inv, TypeOK, Status
  <1>12. HandlesOK'
    <2> SUFFICES ASSUME NEW u \in TaskId, NEW g \in HandleId
                 PROVE  HandleOK(handles[u][g])'
      BY DEF HandlesOK
    <2>1. HandleOK(handles[u][g]) /\ root' = root
      BY DEF Inv, HandlesOK
    <2>2. handles'[u][g] \in {None, handles[u][g]}
      BY <1>8 DEF EmptyHandles
    <2> QED
      BY <2>1, <2>2 DEF HandleOK
  <1>13. EmptySlots'
    <2> SUFFICES ASSUME NEW u \in TaskId, task'[u] = "None"
                 PROVE  stack'[u] = NoFrame /\ \A h \in HandleId : handles'[u][h] = None
      BY DEF EmptySlots
    <2>1. CASE u = n
      BY <1>8, <1>10, <2>1 DEF EmptyHandles
    <2>2. CASE u # n
      <3>1. stack[u] = NoFrame /\ \A h \in HandleId : handles[u][h] = None
        BY <1>10, <2>2 DEF Inv, EmptySlots
      <3> QED
        BY <1>8, <1>10, <2>2, <3>1
    <2> QED
      BY <2>1, <2>2
  <1>14. EmptySpaces'
    BY DEF Inv, EmptySpaces
  <1>15. FramesOwnedOnce'
    <2>1. /\ HandlesApart' /\ RootsApart'
          /\ \A e \in Frame : (Handled(e)' <=> Handled(e)) /\ (Rooted(e)' <=> Rooted(e))
      BY <1>3, <1>8, HandlesKept, RootsKept
    <2>2. StacksApart'
      BY <1>3, <1>10, NamesAssumption, SMT DEF StacksApart
    <2>3. ~Stacked(f)'
      BY <1>2, <1>3, <1>10, NamesAssumption, SMT DEF Stacked, StacksApart
    <2>4. \A e \in Frame : e # f => (Stacked(e)' <=> Stacked(e))
      BY <1>2, <1>10, NamesAssumption, SMT DEF Stacked
    <2>5. Stays(f)
      BY <1>1, <1>6, <1>7, <2>1, <2>4 DEF Stays
    <2>6. Alone(f)'
      BY <1>5, <1>6, <1>7, <2>1, <2>3 DEF Alone, One
    <2> QED
      BY <1>3, <2>1, <2>2, <2>5, <2>6, OneMoves
  <1>16. Snapshot' = before
    <2>1. before = State(task', handles', root, mapped, stack', free \cup {f}, lost)
      BY <1>2 DEF Inv, BeforeOK
    <2>2. Snapshot' = State(task', handles', root', mapped', stack', free', lost')
      BY DEF Snapshot, State
    <2> QED
      BY <1>6, <2>1, <2>2
  <1> QED
    BY <1>6, <1>8, <1>11, <1>12, <1>13, <1>14, <1>15, <1>16, EndsOK DEF Inv, NoPanic

-----------------------------------------------------------------------------
\* What every step keeps: the invariant, and, when it ends a call that is refused, the
\* state in which the call began.
Refusal ==
    status' # "Ok" /\ call' = "idle" =>
        \/ Snapshot' = Began
        \/ /\ call = "add_task" /\ TasksFull
           /\ Snapshot' = [Began EXCEPT !.free = @ \ {held}, !.lost = @ \cup {held}]

Sound == Inv' /\ Refusal

\* A call of one step that changes nothing.
LEMMA SilentStep ==
    ASSUME Inv, UNCHANGED resources, AtOnce, machine' = machine
    PROVE  Sound
  <1>1. Snapshot' = Snapshot /\ Began = Snapshot
    BY DEF resources, Snapshot, Began, AtOnce
  <1> QED
    BY <1>1, NothingChanges DEF Sound, Refusal

\* A call that answers with an error before it does anything.
LEMMA RefusedStep ==
    ASSUME Inv, call = "idle", NEW answer \in Status, Refused(answer)
    PROVE  Sound
  <1>1. UNCHANGED resources /\ AtOnce /\ machine' = machine
    BY DEF Refused, resources, AtOnce, callVars
  <1> QED
    BY <1>1, SilentStep

\* Writing to a handle what it already holds changes nothing.
LEMMA SameHandle ==
    ASSUME Inv, NEW t \in TaskId, NEW h \in HandleId, NEW x, x = handles[t][h],
           handles' = [handles EXCEPT ![t] = At(Take(@, h), h, x)]
    PROVE  handles' = handles
  <1>1. handles \in [TaskId -> [HandleId -> Handle]]
    BY DEF Inv, TypeOK
  <1>2. handles[t] \in [HandleId -> Handle]
    BY <1>1
  <1>3. At(Take(handles[t], h), h, x) = handles[t]
    BY <1>2 DEF At, Take
  <1> QED
    BY <1>1, <1>3

\* sys_frame_dealloc and sys_unmap on a handle of the wrong type.
LEMMA WrongTypeStep ==
    ASSUME Inv, NEW t \in TaskId, NEW h \in HandleId, Calls(t), WrongType(t, h)
    PROVE  Sound
  <1>1. handles' = handles
    BY SameHandle DEF WrongType
  <1>2. UNCHANGED resources /\ AtOnce /\ machine' = machine
    BY <1>1 DEF WrongType, resources, Status, AtOnce, Calls, callVars
  <1> QED
    BY <1>2, SilentStep

\* sys_map whose mapping fails.
LEMMA MapFailsStep ==
    ASSUME Inv, NEW t \in TaskId, NEW ha \in HandleId, NEW h \in HandleId, NEW p \in Page,
           Calls(t), Kind(t, ha) = "AddressSpace", Kind(t, h) = "Frame", MapFails(t, ha, h, p)
    PROVE  Sound
  <1>0. handles[t][h].kind = "Frame" /\ handles[t][ha].kind = "AddressSpace"
    BY DEF Kind
  <1>1. /\ handles[t][h] = FrameHandle(handles[t][h].frame)
        /\ root[handles[t][ha].space] # NoFrame
    BY <1>0, HandleShape DEF Inv, HandlesOK
  <1>2. handles' = handles
    BY <1>1, SameHandle DEF MapFails
  <1>3. status' \in Status
    BY DEF MapFails, MapErrors, Status
  <1>4. UNCHANGED resources /\ AtOnce /\ machine' = machine
    BY <1>1, <1>2, <1>3 DEF MapFails, Assert, resources, AtOnce, Calls, callVars
  <1> QED
    BY <1>4, SilentStep

\* A handle number that has a kind is a handle.
LEMMA KindIsHandle ==
    ASSUME NEW t, NEW h \in AnyHandle, Kind(t, h) # "None"
    PROVE  h \in HandleId
  BY DEF Kind

\* A step that goes on, or that ends a call well, refuses nothing.
LEMMA NotRefused ==
    ASSUME Inv', status' = "Ok" \/ call' # "idle"
    PROVE  Sound
  BY DEF Sound, Refusal

\* sys_frame_alloc takes a frame; it gets a handle or goes back to the pool.
LEMMA FrameAllocSound ==
    ASSUME Inv, NEW t \in TaskId, sys_frame_alloc(t)
    PROVE  Sound
  <1>1. Calls(t) /\ call = "idle"
    BY DEF sys_frame_alloc, Calls
  <1>2. CASE \E answer \in Status : Refused(answer)
    BY <1>1, <1>2, RefusedStep
  <1>3. CASE \E f \in free : Takes(t, f, "push_frame") /\ UNCHANGED as_id
    <2>1. PICK f \in free : Takes(t, f, "push_frame")
      BY <1>3
    <2>2. as_id' \in AddressSpaceId \cup {NoSpace} /\ call' # "idle"
      BY <1>3, <2>1 DEF Inv, TypeOK, Takes
    <2>3. Inv'
      BY <1>1, <2>1, <2>2, TakesStep
    <2> QED
      BY <2>2, <2>3, NotRefused
  <1> QED
    BY <1>2, <1>3 DEF sys_frame_alloc, Status

LEMMA PushFrameSound ==
    ASSUME Inv, PushFrame
    PROVE  Sound
  <1>1. call = "push_frame"
    BY DEF PushFrame, Continues
  <1>2. CASE Pushes(FrameHandle(held))
    <2>1. Inv'
      BY <1>1, <1>2, HeldGoesToHandle
    <2>2. status' = "Ok"
      BY <1>2 DEF Pushes, Ends
    <2> QED
      BY <2>1, <2>2, NotRefused
  <1>3. CASE /\ GivesBack(held) /\ Ends("OutOfMemory")
             /\ UNCHANGED <<task, handles, root, mapped, stack, lost>>
    <2>1. Inv' /\ Snapshot' = before
      BY <1>1, <1>3, HeldGoesBack
    <2> QED
      BY <1>1, <2>1 DEF Sound, Refusal, Began
  <1> QED
    BY <1>2, <1>3 DEF PushFrame

\* sys_frame_dealloc: only a frame that nothing maps goes back.
LEMMA FrameDeallocSound ==
    ASSUME Inv, NEW t \in TaskId, NEW h \in AnyHandle, sys_frame_dealloc(t, h)
    PROVE  Sound
  <1>1. Calls(t) /\ call = "idle"
    BY DEF sys_frame_dealloc, Calls
  <1>2. CASE Refused("BadHandle")
    BY <1>1, <1>2, RefusedStep DEF Status
  <1>3. CASE FrameDealloc(t, h)
    <2>1. h \in HandleId /\ status' = "Ok"
      BY <1>3, KindIsHandle DEF FrameDealloc
    <2>2. Inv'
      BY <1>1, <1>3, <2>1, FrameGoesBack
    <2> QED
      BY <2>1, <2>2, NotRefused
  <1>4. CASE Kind(t, h) # "None" /\ WrongType(t, h)
    BY <1>1, <1>4, KindIsHandle, WrongTypeStep
  <1> QED
    BY <1>2, <1>3, <1>4 DEF sys_frame_dealloc

\* sys_as_create takes a root, enters it in the table of spaces and hands it out.
LEMMA AsCreateSound ==
    ASSUME Inv, NEW t \in TaskId, sys_as_create(t)
    PROVE  Sound
  <1>1. Calls(t) /\ call = "idle"
    BY DEF sys_as_create, Calls
  <1>2. CASE \E answer \in Status : Refused(answer)
    BY <1>1, <1>2, RefusedStep
  <1>3. CASE \E f \in free : Takes(t, f, "insert_space") /\ UNCHANGED as_id
    <2>1. PICK f \in free : Takes(t, f, "insert_space")
      BY <1>3
    <2>2. as_id' \in AddressSpaceId \cup {NoSpace} /\ call' # "idle"
      BY <1>3, <2>1 DEF Inv, TypeOK, Takes
    <2>3. Inv'
      BY <1>1, <2>1, <2>2, TakesStep
    <2> QED
      BY <2>2, <2>3, NotRefused
  <1> QED
    BY <1>2, <1>3 DEF sys_as_create, Status

LEMMA InsertSpaceSound ==
    ASSUME Inv, InsertSpace
    PROVE  Sound
  <1>1. call = "insert_space"
    BY DEF InsertSpace, Continues
  <1>2. ASSUME NEW a \in AddressSpaceId, FirstSpace(a),
               root' = [root EXCEPT ![a] = held],
               mapped' = [mapped EXCEPT ![a] = [p \in Page |-> NoFrame]],
               as_id' = a, call' = "push_space", held' = NoFrame,
               UNCHANGED <<task, handles, stack, free, lost, status, machine, caller, new_task_id, before>>
        PROVE  Sound
    <2>1. Inv'
      BY <1>1, <1>2, HeldBecomesRoot
    <2>2. call' # "idle"
      BY <1>2
    <2> QED
      BY <2>1, <2>2, NotRefused
  <1>3. CASE /\ GivesBack(held) /\ Ends("OutOfMemory")
             /\ UNCHANGED <<task, handles, root, mapped, stack, lost>>
    <2>1. Inv' /\ Snapshot' = before
      BY <1>1, <1>3, HeldGoesBack
    <2> QED
      BY <1>1, <2>1 DEF Sound, Refusal, Began
  <1> QED
    BY <1>2, <1>3 DEF InsertSpace

LEMMA PushSpaceSound ==
    ASSUME Inv, PushSpace
    PROVE  Sound
  <1>1. call = "push_space" /\ NewSpace
    BY DEF PushSpace, Continues, Inv, CallOK
  <1>2. CASE Pushes(SpaceHandle(as_id))
    <2>1. as_id \in AddressSpaceId /\ root[as_id] # NoFrame
      BY <1>1, NamesAssumption DEF NewSpace
    <2>2. /\ SpaceHandle(as_id) \in Handle /\ HandleOK(SpaceHandle(as_id))
          /\ SpaceHandle(as_id).kind = "AddressSpace"
      BY <2>1, HandleTypes, HandleKinds DEF HandleOK
    <2>3. Inv'
      BY <1>1, <1>2, <2>2, NothingGoesToHandle
    <2>4. status' = "Ok"
      BY <1>2 DEF Pushes, Ends
    <2> QED
      BY <2>3, <2>4, NotRefused
  <1>3. CASE /\ root' = [root EXCEPT ![as_id] = NoFrame] /\ GivesBack(root[as_id])
             /\ Ends("OutOfMemory") /\ UNCHANGED <<task, handles, mapped, stack, lost>>
    <2>1. Inv' /\ Snapshot' = before
      BY <1>1, <1>3, RootGoesBack
    <2> QED
      BY <1>1, <2>1 DEF Sound, Refusal, Began
  <1> QED
    BY <1>2, <1>3 DEF PushSpace

\* sys_map: page and handle change together or not at all.
LEMMA MapSound ==
    ASSUME Inv, NEW t \in TaskId, NEW ha \in AnyHandle, NEW hf \in AnyHandle, NEW p \in Page,
           sys_map(t, ha, hf, p)
    PROVE  Sound
  <1>1. Calls(t) /\ call = "idle"
    BY DEF sys_map, Calls
  <1>2. CASE \E answer \in Status : Refused(answer)
    BY <1>1, <1>2, RefusedStep
  <1>3. CASE /\ Kind(t, ha) = "AddressSpace" /\ Kind(t, hf) = "Frame"
             /\ MapOk(t, ha, hf, p) \/ MapFails(t, ha, hf, p)
    <2>1. ha \in HandleId /\ hf \in HandleId
      BY <1>3, KindIsHandle
    <2>2. CASE MapOk(t, ha, hf, p)
      <3>1. Inv'
        BY <1>1, <1>3, <2>1, <2>2, FrameIsMapped
      <3>2. status' = "Ok"
        BY <2>2 DEF MapOk
      <3> QED
        BY <3>1, <3>2, NotRefused
    <2>3. CASE MapFails(t, ha, hf, p)
      BY <1>1, <1>3, <2>1, <2>3, MapFailsStep
    <2> QED
      BY <1>3, <2>2, <2>3
  <1> QED
    BY <1>2, <1>3 DEF sys_map, Status

\* sys_unmap: the page is mapped to the frame of the handle.
LEMMA UnmapSound ==
    ASSUME Inv, NEW t \in TaskId, NEW h \in AnyHandle, sys_unmap(t, h)
    PROVE  Sound
  <1>1. Calls(t) /\ call = "idle"
    BY DEF sys_unmap, Calls
  <1>2. CASE Refused("BadHandle")
    BY <1>1, <1>2, RefusedStep DEF Status
  <1>3. CASE Kind(t, h) = "Mapping" /\ Unmapped(t, h)
    <2>1. Inv' /\ status' = "Ok"
      BY <1>1, <1>3, KindIsHandle, FrameIsUnmapped
    <2> QED
      BY <2>1, NotRefused
  <1>4. CASE Kind(t, h) # "None" /\ WrongType(t, h)
    BY <1>1, <1>4, KindIsHandle, WrongTypeStep
  <1> QED
    BY <1>2, <1>3, <1>4 DEF sys_unmap

\* sys_task_create takes a stack, adds the task and hands out its handle.
LEMMA TaskCreateSound ==
    ASSUME Inv, NEW t \in TaskId, NEW h \in AnyHandle, sys_task_create(t, h)
    PROVE  Sound
  <1>1. Calls(t) /\ call = "idle"
    BY DEF sys_task_create, Calls
  <1>2. CASE \E answer \in Status : Refused(answer)
    BY <1>1, <1>2, RefusedStep
  <1>3. CASE /\ Kind(t, h) = "AddressSpace" /\ \E f \in free : Takes(t, f, "add_task")
             /\ as_id' = handles[t][h].space
    <2>1. h \in HandleId /\ handles[t][h].kind = "AddressSpace"
      BY <1>3, KindIsHandle DEF Kind
    <2>2. handles[t][h].space \in AddressSpaceId /\ root[handles[t][h].space] # NoFrame
      BY <2>1, HandleShape DEF Inv, HandlesOK
    <2>3. PICK f \in free : Takes(t, f, "add_task")
      BY <1>3
    <2>4. as_id' \in AddressSpaceId /\ root[as_id'] # NoFrame /\ call' # "idle"
      BY <1>3, <2>2, <2>3 DEF Takes
    <2>5. Inv'
      BY <1>1, <2>3, <2>4, TakesStep
    <2> QED
      BY <2>4, <2>5, NotRefused
  <1> QED
    BY <1>2, <1>3 DEF sys_task_create, Status

LEMMA AddTaskSound ==
    ASSUME Inv, AddTask
    PROVE  Sound
  <1>1. call = "add_task"
    BY DEF AddTask, Continues
  <1>2. ASSUME NEW n \in TaskId, FirstTask(n),
               task' = [task EXCEPT ![n] = "Alive"],
               handles' = [handles EXCEPT ![n] = NewTable(as_id)],
               stack' = [stack EXCEPT ![n] = held],
               new_task_id' = n, call' = "push_thread", held' = NoFrame,
               UNCHANGED <<root, mapped, free, lost, status, machine, caller, as_id, before>>
        PROVE  Sound
    <2>1. Inv'
      BY <1>1, <1>2, HeldBecomesStack
    <2>2. call' # "idle"
      BY <1>2
    <2> QED
      BY <2>1, <2>2, NotRefused
  <1>3. CASE /\ TasksFull /\ lost' = lost \cup {held} /\ Ends("OutOfMemory")
             /\ UNCHANGED <<task, handles, root, mapped, stack, free, machine>>
    <2>1. /\ Inv'
          /\ Snapshot' = [before EXCEPT !.free = @ \ {held}, !.lost = @ \cup {held}]
      BY <1>1, <1>3, StackIsLost
    <2>2. Began = before
      BY <1>1 DEF Began
    <2> QED
      BY <1>1, <1>3, <2>1, <2>2 DEF Sound, Refusal
  <1> QED
    BY <1>2, <1>3 DEF AddTask

LEMMA PushThreadSound ==
    ASSUME Inv, PushThread
    PROVE  Sound
  <1>1. call = "push_thread"
    BY DEF PushThread, Continues
  <1>2. CASE Pushes(ThreadHandle)
    <2>1. ThreadHandle \in Handle /\ HandleOK(ThreadHandle) /\ ThreadHandle.kind = "Thread"
      BY HandleTypes, HandleKinds DEF HandleOK
    <2>2. Inv'
      BY <1>1, <1>2, <2>1, NothingGoesToHandle
    <2>3. status' = "Ok"
      BY <1>2 DEF Pushes, Ends
    <2> QED
      BY <2>2, <2>3, NotRefused
  <1>3. CASE /\ task' = [task EXCEPT ![new_task_id] = "None"]
             /\ handles' = [handles EXCEPT ![new_task_id] = EmptyHandles]
             /\ stack' = [stack EXCEPT ![new_task_id] = NoFrame]
             /\ GivesBack(stack[new_task_id]) /\ Ends("OutOfMemory")
             /\ UNCHANGED <<root, mapped, lost>>
    <2>1. Inv' /\ Snapshot' = before
      BY <1>1, <1>3, StackGoesBack
    <2> QED
      BY <1>1, <2>1 DEF Sound, Refusal, Began
  <1> QED
    BY <1>2, <1>3 DEF PushThread

\* sys_exit: the handles and the stack of the dead task still own their frames.
LEMMA ExitSound ==
    ASSUME Inv, NEW t \in TaskId, sys_exit(t)
    PROVE  Sound
  <1> USE DEF sys_exit
  <1>1. AtOnce
    BY DEF AtOnce, Calls, Status, callVars
  <1>2. TypeOK'
    BY DEF Inv, TypeOK, callVars
  <1>3. HandlesOK' /\ EmptySpaces'
    BY DEF Inv, HandlesOK, HandleOK, EmptySpaces
  <1>4. EmptySlots'
    <2>1. \A u \in TaskId : task'[u] = "None" => task[u] = "None"
      BY DEF Inv, TypeOK
    <2> QED
      BY <2>1 DEF Inv, EmptySlots
  <1>5. FramesOwnedOnce'
    <2>1. HandlesKeep /\ UNCHANGED <<root, stack, free, lost, held>>
      BY DEF HandlesKeep, HandleOwns, callVars
    <2> QED
      BY <2>1, NoneMoves DEF Inv
  <1>6. MappingsMatchHandles'
    <2>1. MappingsKeep
      BY DEF MappingsKeep
    <2> QED
      BY <2>1, MappingsKept DEF Inv
  <1>7. Inv'
    BY <1>1, <1>2, <1>3, <1>4, <1>5, <1>6, AtOnceOK DEF Inv, NoPanic
  <1> QED
    BY <1>7, NotRefused

\* A stuttering step.
LEMMA StutterSound ==
    ASSUME Inv, UNCHANGED vars
    PROVE  Inv'
  <1> USE DEF vars, resources, callVars
  <1>1. TypeOK' /\ HandlesOK' /\ EmptySlots' /\ EmptySpaces'
    BY DEF Inv, TypeOK, HandlesOK, HandleOK, EmptySlots, EmptySpaces
  <1>2. FramesOwnedOnce'
    <2>1. HandlesKeep /\ UNCHANGED <<root, stack, free, lost, held>>
      BY DEF HandlesKeep, HandleOwns
    <2> QED
      BY <2>1, NoneMoves DEF Inv
  <1>3. MappingsMatchHandles'
    <2>1. MappingsKeep
      BY DEF MappingsKeep
    <2> QED
      BY <2>1, MappingsKept DEF Inv
  <1>4. CallOK' /\ BeforeOK'
    BY DEF Inv, CallOK, NewSpace, NewThread, BeforeOK
  <1> QED
    BY <1>1, <1>2, <1>3, <1>4 DEF Inv, NoPanic

\* Every step keeps the invariant, and a refused call leaves what it found.
LEMMA StepSound ==
    ASSUME Inv, [Next]_vars
    PROVE  Inv' /\ (Refusal \/ UNCHANGED vars)
  <1>1. CASE UNCHANGED vars
    BY <1>1, StutterSound
  <1>2. ASSUME NEW t \in TaskId, sys_frame_alloc(t) \/ sys_as_create(t) \/ sys_exit(t)
        PROVE  Sound
    BY <1>2, FrameAllocSound, AsCreateSound, ExitSound
  <1>3. ASSUME NEW t \in TaskId, NEW h \in AnyHandle,
               sys_frame_dealloc(t, h) \/ sys_unmap(t, h) \/ sys_task_create(t, h)
        PROVE  Sound
    BY <1>3, FrameDeallocSound, UnmapSound, TaskCreateSound
  <1>4. ASSUME NEW t \in TaskId, NEW ha \in AnyHandle, NEW hf \in AnyHandle, NEW p \in Page,
               sys_map(t, ha, hf, p)
        PROVE  Sound
    BY <1>4, MapSound
  <1>5. CASE PushFrame \/ InsertSpace \/ PushSpace \/ AddTask \/ PushThread
    BY <1>5, PushFrameSound, InsertSpaceSound, PushSpaceSound, AddTaskSound, PushThreadSound DEF Sound
  <1> QED
    BY <1>1, <1>2, <1>3, <1>4, <1>5 DEF Next, Halt, Sound

\* The inductive invariant holds in every behaviour.
THEOREM CapabilitiesInvariant == Spec => []Inv
  <1>1. Inv /\ [Next]_vars => Inv'
    BY StepSound
  <1> QED
    BY Initially, <1>1, PTL DEF Spec

\* The frames of handles, roots and kernel stacks: none is owned twice, and only
\* sys_task_create that finds no slot loses one.
THEOREM FramesHaveOneOwner == Spec => []FramesOwnedOnce
  <1>1. Inv => FramesOwnedOnce
    BY DEF Inv
  <1> QED
    BY CapabilitiesInvariant, <1>1, PTL

\* A page is mapped exactly when a handle says so.
THEOREM HandlesMatchPageTables == Spec => []MappingsMatchHandles
  <1>1. Inv => MappingsMatchHandles
    BY DEF Inv
  <1> QED
    BY CapabilitiesInvariant, <1>1, PTL

\* The panics and expects of these calls are unreachable.
THEOREM CallsNeverPanic == Spec => []NoPanic
  <1>1. Inv => NoPanic
    BY DEF Inv
  <1> QED
    BY CapabilitiesInvariant, <1>1, PTL

\* A refused call undoes its steps: it leaves what it began with, but for the kernel stack
\* of a task that found no slot.
THEOREM RefusalLeavesNothing == Spec => RefusedChangesNothing
  <1>1. Inv /\ [Next]_vars => [Refusal]_vars
    BY StepSound
  <1> QED
    BY CapabilitiesInvariant, <1>1, PTL DEF Spec, RefusedChangesNothing, Refusal
==============================================================================
