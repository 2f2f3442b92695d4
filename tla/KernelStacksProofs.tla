------------------------- MODULE KernelStacksProofs -------------------------
(***************************************************************************)
(* Kernel stacks are apart, whole and accounted for, for any number of     *)
(* slots, pages, tasks and frames, at every step of making one, of rolling *)
(* it back and of destroying it.  The inductive invariant adds to the      *)
(* checked invariants that every task owns a slot whose bit is set, that   *)
(* no two tasks own the same one, that no guard page is ever mapped, and   *)
(* how far the call in progress has come: of its stack, which no task      *)
(* has, exactly the first mapped_pages pages are mapped.                   *)
(***************************************************************************)
EXTENDS KernelStacks, TLAPS

USE StacksAssumption DEF GUARD_PAGES

-----------------------------------------------------------------------------
(* Where slots lie.                                                        *)

\* A product grows with its first factor.
LEMMA Monotone ==
    ASSUME NEW a \in Nat, NEW b \in Nat, NEW c \in Nat, a <= b
    PROVE  a * c \in Nat /\ b * c \in Nat /\ a * c <= b * c
  OBVIOUS

\* Where the slots begin.
Base(s) == s * KERNEL_SLOT_SIZE

\* The top of a slot is the base of the next.
LEMMA SlotBounds ==
    ASSUME NEW s \in StackSlot
    PROVE  /\ Base(s) \in Nat /\ TopOf(s) \in Nat
           /\ TopOf(s) = Base(s) + KERNEL_STACK_PAGES + 1
           /\ TopOf(s) <= MAX_KERNEL_STACKS * KERNEL_SLOT_SIZE
           /\ MAX_KERNEL_STACKS * KERNEL_SLOT_SIZE \in Nat
           /\ TopOf(s) # NoStack
  <1>1. KERNEL_SLOT_SIZE \in Nat /\ KERNEL_SLOT_SIZE = KERNEL_STACK_PAGES + 1
    BY DEF KERNEL_SLOT_SIZE
  <1>2. s \in Nat /\ s + 1 \in Nat /\ MAX_KERNEL_STACKS \in Nat /\ s + 1 <= MAX_KERNEL_STACKS
    BY DEF StackSlot
  <1> HIDE DEF KERNEL_SLOT_SIZE
  <1>3. (s + 1) * KERNEL_SLOT_SIZE = s * KERNEL_SLOT_SIZE + KERNEL_SLOT_SIZE
    BY <1>1, <1>2, Z3
  <1>4. s * KERNEL_SLOT_SIZE \in Nat
    BY <1>1, <1>2
  <1>5. (s + 1) * KERNEL_SLOT_SIZE <= MAX_KERNEL_STACKS * KERNEL_SLOT_SIZE
        /\ MAX_KERNEL_STACKS * KERNEL_SLOT_SIZE \in Nat
    BY <1>1, <1>2, Monotone
  <1> QED
    BY <1>1, <1>3, <1>4, <1>5 DEF Base, TopOf, NoStack

\* A stack and its guard page fill the slot.
LEMMA SlotPages ==
    ASSUME NEW s \in StackSlot
    PROVE  /\ StackPages(TopOf(s)) \subseteq Page
           /\ GuardPage(TopOf(s)) \in Page
           /\ GuardPage(TopOf(s)) = Base(s)
           /\ GuardPage(TopOf(s)) \notin StackPages(TopOf(s))
           /\ StackPages(TopOf(s)) = (Base(s) + 1)..(Base(s) + KERNEL_STACK_PAGES)
           /\ TopOf(s) - 1 \in StackPages(TopOf(s))
  BY SlotBounds DEF StackPages, GuardPage, Page

\* Two slots have no page in common.
LEMMA SlotsApart ==
    ASSUME NEW r \in StackSlot, NEW s \in StackSlot, r # s
    PROVE  /\ TopOf(r) # TopOf(s)
           /\ StackPages(TopOf(r)) \cap StackPages(TopOf(s)) = {}
           /\ GuardPage(TopOf(r)) \notin StackPages(TopOf(s))
  <1>1. ASSUME NEW a \in StackSlot, NEW b \in StackSlot, a < b
        PROVE  TopOf(a) <= Base(b)
    <2>1. a + 1 \in Nat /\ b \in Nat /\ a + 1 <= b /\ KERNEL_SLOT_SIZE \in Nat
      BY <1>1 DEF StackSlot, KERNEL_SLOT_SIZE
    <2> QED
      BY <2>1, Monotone DEF TopOf, Base
  <1>2. r < s \/ s < r
    BY DEF StackSlot
  <1>3. TopOf(r) <= Base(s) \/ TopOf(s) <= Base(r)
    BY <1>1, <1>2
  <1>4. /\ Base(r) \in Nat /\ TopOf(r) = Base(r) + KERNEL_STACK_PAGES + 1
        /\ Base(s) \in Nat /\ TopOf(s) = Base(s) + KERNEL_STACK_PAGES + 1
    BY SlotBounds
  <1>5. /\ GuardPage(TopOf(r)) = Base(r)
        /\ StackPages(TopOf(r)) = (Base(r) + 1)..(Base(r) + KERNEL_STACK_PAGES)
        /\ StackPages(TopOf(s)) = (Base(s) + 1)..(Base(s) + KERNEL_STACK_PAGES)
    BY SlotPages
  <1> QED
    BY <1>3, <1>4, <1>5

\* The slot computed back from the top of a stack is the stack's.
LEMMA SlotOfTop ==
    ASSUME NEW s \in StackSlot
    PROVE  SlotOf(TopOf(s)) = s
  <1>1. KERNEL_SLOT_SIZE \in Nat \ {0} /\ s + 1 \in Nat
    BY DEF StackSlot, KERNEL_SLOT_SIZE
  <1>2. ASSUME NEW n \in Nat, NEW c \in Nat \ {0}
        PROVE  (n * c) \div c = n
    BY Z3
  <1>3. ((s + 1) * KERNEL_SLOT_SIZE) \div KERNEL_SLOT_SIZE = s + 1
    BY <1>1, <1>2
  <1> QED
    BY <1>3 DEF SlotOf, TopOf, StackSlot

-----------------------------------------------------------------------------
(* The inductive invariant.                                                *)

\* No guard page is mapped.
GuardsUnmapped == \A s \in StackSlot : mapped[GuardPage(TopOf(s))] = NoFrame

\* The slots whose bit is clear are empty.
ClearEmpty == \A s \in StackSlot \ used : \A p \in StackPages(TopOf(s)) : mapped[p] = NoFrame

\* Every task has a slot of its own, marked as used and mapped.
OwnsSlot(t, s) ==
    /\ s \in used
    /\ stack[t] = TopOf(s)
    /\ \A p \in StackPages(TopOf(s)) : mapped[p] # NoFrame

TasksOwnSlots == \A t \in TaskId : stack[t] # NoStack => \E s \in StackSlot : OwnsSlot(t, s)

TopsDiffer == \A t, v \in TaskId : stack[t] # NoStack /\ stack[t] = stack[v] => t = v

\* Slot s is the one that the call has taken, and its first pages are mapped.
HalfMade(s) ==
    /\ s \in used
    /\ top = TopOf(s)
    /\ \A p \in StackPages(TopOf(s)) : mapped[p] # NoFrame <=> p <= Base(s) + mapped_pages

CallOK ==
    /\ step = "idle" => mapped_pages = 0
    /\ step # "idle" => \E s \in StackSlot : HalfMade(s)
    /\ step \notin {"idle", "push"} => \A t \in TaskId : stack[t] # top
    /\ step = "map" <=> frame # NoFrame
    /\ step \in {"alloc", "map"} => mapped_pages < KERNEL_STACK_PAGES
    /\ step \in {"add", "push"} => mapped_pages = KERNEL_STACK_PAGES
    /\ step = "push" => stack[new_task_id] = top

IInv ==
    /\ TypeOK
    /\ StackFramesOnce
    /\ GuardsUnmapped
    /\ ClearEmpty
    /\ TasksOwnSlots
    /\ TopsDiffer
    /\ CallOK
    /\ machine = "running"

\* The invariant implies what is checked on the small instance.
LEMMA IInvImplies ==
    IInv => StackFramesOnce /\ StacksApart /\ ClearSlotsUnmapped /\ NoPanic
  <1> SUFFICES ASSUME IInv
               PROVE  StackFramesOnce /\ StacksApart /\ ClearSlotsUnmapped /\ NoPanic
    OBVIOUS
  <1>1. StackFramesOnce
    BY DEF IInv
  <1>2. StacksApart
    <2> SUFFICES ASSUME NEW t \in TaskId, stack[t] # NoStack
                 PROVE  /\ \A p \in StackPages(stack[t]) : mapped[p] # NoFrame
                        /\ GuardPage(stack[t]) \in Page /\ mapped[GuardPage(stack[t])] = NoFrame
                        /\ \A u \in TaskId \ {t} : stack[u] # NoStack =>
                              StackPages(stack[t]) \cap StackPages(stack[u]) = {}
      BY DEF StacksApart
    <2>1. PICK s \in StackSlot : OwnsSlot(t, s)
      BY DEF IInv, TasksOwnSlots
    <2>2. ASSUME NEW u \in TaskId \ {t}, stack[u] # NoStack
          PROVE  StackPages(stack[t]) \cap StackPages(stack[u]) = {}
      <3>1. PICK r \in StackSlot : OwnsSlot(u, r)
        BY <2>2 DEF IInv, TasksOwnSlots
      <3>2. r # s
        BY <2>1, <2>2, <3>1 DEF IInv, TopsDiffer, OwnsSlot
      <3> QED
        BY <2>1, <3>1, <3>2, SlotsApart DEF OwnsSlot
    <2> QED
      BY <2>1, <2>2, SlotPages DEF IInv, GuardsUnmapped, OwnsSlot
  <1>3. ClearSlotsUnmapped
    BY DEF IInv, ClearSlotsUnmapped, GuardsUnmapped, ClearEmpty
  <1>4. NoPanic
    BY DEF IInv, NoPanic
  <1> QED
    BY <1>1, <1>2, <1>3, <1>4

\* The first two slots lie at the bottom, and their frames follow each other.
LEMMA BootFrames ==
    /\ 0 \in StackSlot /\ 1 \in StackSlot
    /\ StackPages(TopOf(0)) = 1..KERNEL_STACK_PAGES
    /\ StackPages(TopOf(1)) = (KERNEL_STACK_PAGES + 2)..(2 * KERNEL_STACK_PAGES + 1)
    /\ \A p \in StackPages(TopOf(0)) : BootFrame(p) = p - 1
    /\ \A p \in StackPages(TopOf(1)) : BootFrame(p) = p - 2
    /\ \A p \in Page : p \notin StackPages(TopOf(0)) \cup StackPages(TopOf(1)) => BootFrame(p) = NoFrame
  <1>1. 0 \in StackSlot /\ 1 \in StackSlot
    BY DEF StackSlot
  <1>2. TopOf(0) = KERNEL_STACK_PAGES + 1 /\ TopOf(1) = 2 * KERNEL_STACK_PAGES + 2
    BY DEF TopOf, KERNEL_SLOT_SIZE
  <1> QED
    BY <1>1, <1>2 DEF StackPages, BootFrame

LEMMA IInvInit == Init => IInv
  <1> SUFFICES ASSUME Init
               PROVE  IInv
    OBVIOUS
  <1> DEFINE low == StackPages(TopOf(0))
             high == StackPages(TopOf(1))
  <1>1. \A p \in Page : mapped[p] = BootFrame(p)
    BY DEF Init
  <1>2. \A p \in Page :
            \/ p \in low /\ mapped[p] = p - 1 /\ mapped[p] \in Frame /\ mapped[p] < KERNEL_STACK_PAGES
            \/ p \in high /\ mapped[p] = p - 2 /\ mapped[p] \in Frame /\ mapped[p] >= KERNEL_STACK_PAGES
            \/ p \notin low \cup high /\ mapped[p] = NoFrame
    BY <1>1, BootFrames DEF Frame
  <1>3. TypeOK
    <2>1. mapped \in [Page -> Frame \cup {NoFrame}]
      BY <1>2 DEF Init
    <2>2. TopOf(1) - 1 \in Page /\ TopOf(1) \in {TopOf(s) : s \in StackSlot}
      BY BootFrames, SlotPages
    <2>3. BootFrame(TopOf(1) - 1) \in Frame \cup {NoFrame}
      BY <1>1, <1>2, <2>2
    <2>4. 0 \in TaskId /\ 0 \in 0..KERNEL_STACK_PAGES
      BY DEF TaskId
    <2> QED
      BY <2>1, <2>2, <2>3, <2>4, BootFrames DEF Init, TypeOK
  <1>4. StackFramesOnce
    <2>1. \A f \in Frame : f \in free <=> \A p \in Page : mapped[p] # f
      BY <1>1 DEF Init
    <2>2. \A f \in Frame : \A p, q \in Page : mapped[p] = f /\ mapped[q] = f => p = q
      <3> SUFFICES ASSUME NEW f \in Frame, NEW p \in Page, NEW q \in Page, mapped[p] = f, mapped[q] = f
                   PROVE  p = q
        OBVIOUS
      <3>1. f # NoFrame /\ f \in Int /\ p \in Int /\ q \in Int
        BY DEF Page, Frame
      <3>2. \/ f = p - 1 /\ f < KERNEL_STACK_PAGES
            \/ f = p - 2 /\ f >= KERNEL_STACK_PAGES
        BY <1>2, <3>1
      <3>3. \/ f = q - 1 /\ f < KERNEL_STACK_PAGES
            \/ f = q - 2 /\ f >= KERNEL_STACK_PAGES
        BY <1>2, <3>1
      <3> QED
        BY <3>1, <3>2, <3>3
    <2> QED
      BY <2>1, <2>2 DEF Init, StackFramesOnce
  <1>5. ASSUME NEW s \in StackSlot, s # 0, s # 1
        PROVE  \A p \in StackPages(TopOf(s)) : mapped[p] = NoFrame
    <2>1. \A p \in StackPages(TopOf(s)) : p \in Page /\ p \notin low \cup high
      BY <1>5, BootFrames, SlotsApart, SlotPages
    <2> QED
      BY <1>2, <2>1
  <1>6. GuardsUnmapped
    <2> SUFFICES ASSUME NEW s \in StackSlot
                 PROVE  mapped[GuardPage(TopOf(s))] = NoFrame
      BY DEF GuardsUnmapped
    <2>1. GuardPage(TopOf(s)) \in Page /\ GuardPage(TopOf(s)) \notin low \cup high
      BY BootFrames, SlotsApart, SlotPages
    <2> QED
      BY <1>2, <2>1
  <1>7. TasksOwnSlots
    <2>1. \A p \in high : mapped[p] # NoFrame
      BY <1>1, <1>2, BootFrames, SlotPages DEF Frame
    <2> QED
      BY <2>1, BootFrames, Zenon DEF Init, TasksOwnSlots, OwnsSlot
  <1> QED
    BY <1>3, <1>4, <1>5, <1>6, <1>7 DEF Init, IInv, ClearEmpty, TopsDiffer, CallOK

-----------------------------------------------------------------------------
(* Steps.                                                                  *)

\* A step that leaves slots, pages, frames, tasks and the call alone keeps the invariant.
LEMMA SameStacks ==
    ASSUME IInv, TypeOK', UNCHANGED <<used, mapped, free, owned, stack, machine, callVars>>
    PROVE  IInv'
  BY DEF IInv, StackFramesOnce, GuardsUnmapped, ClearEmpty, TasksOwnSlots, OwnsSlot, TopsDiffer,
         CallOK, HalfMade, callVars

\* What the CPU caches is a frame or nothing.
LEMMA CachedType ==
    ASSUME TypeOK, NEW p \in Page
    PROVE  /\ Translate(p) \in Frame \cup {NoFrame}
           /\ [tlb EXCEPT ![p] = Translate(p)] \in [Page -> Frame \cup {NoFrame}]
  BY DEF TypeOK, Translate

\* The pages of the stack in slot s, counted from the lowest.
LEMMA PageOfStack ==
    ASSUME NEW s \in StackSlot, top = TopOf(s), mapped_pages \in 0..KERNEL_STACK_PAGES
    PROVE  /\ NextPage = Base(s) + mapped_pages + 1
           /\ LastPage = Base(s) + mapped_pages
           /\ mapped_pages < KERNEL_STACK_PAGES => NextPage \in StackPages(TopOf(s))
           /\ mapped_pages > 0 => LastPage \in StackPages(TopOf(s))
           /\ Base(s) \in Nat
           /\ \A p \in StackPages(TopOf(s)) : p \in Nat /\ p > Base(s) /\ p <= Base(s) + KERNEL_STACK_PAGES
  <1>1. /\ Base(s) \in Nat /\ TopOf(s) = Base(s) + KERNEL_STACK_PAGES + 1
        /\ StackPages(TopOf(s)) = (Base(s) + 1)..(Base(s) + KERNEL_STACK_PAGES)
    BY SlotBounds, SlotPages
  <1>2. NextPage = Base(s) + mapped_pages + 1 /\ LastPage = Base(s) + mapped_pages
    BY <1>1 DEF NextPage, LastPage
  <1> QED
    BY <1>1, <1>2

\* What a change of one page of slot s leaves alone.
LEMMA OnePage ==
    ASSUME IInv, NEW s \in StackSlot, NEW q \in StackPages(TopOf(s)), NEW x \in Frame \cup {NoFrame},
           mapped' = [mapped EXCEPT ![q] = x]
    PROVE  /\ mapped' \in [Page -> Frame \cup {NoFrame}]
           /\ q \in Page
           /\ \A p \in Page : mapped'[p] = IF p = q THEN x ELSE mapped[p]
           /\ \A p \in StackPages(TopOf(s)) : mapped'[p] = IF p = q THEN x ELSE mapped[p]
           /\ \A r \in StackSlot \ {s} : \A p \in StackPages(TopOf(r)) : mapped'[p] = mapped[p]
           /\ GuardsUnmapped'
  <1>1. q \in Page /\ mapped \in [Page -> Frame \cup {NoFrame}]
    BY SlotPages DEF IInv, TypeOK
  <1>2. /\ mapped' \in [Page -> Frame \cup {NoFrame}]
        /\ \A p \in Page : mapped'[p] = IF p = q THEN x ELSE mapped[p]
    BY <1>1
  <1>3. ASSUME NEW r \in StackSlot, r # s, NEW p \in StackPages(TopOf(r))
        PROVE  mapped'[p] = mapped[p]
    <2>1. p \in Page /\ p # q
      BY <1>3, SlotPages, SlotsApart
    <2> QED
      BY <1>2, <2>1
  <1>4. ASSUME NEW r \in StackSlot
        PROVE  mapped'[GuardPage(TopOf(r))] = NoFrame
    <2>1. GuardPage(TopOf(r)) \in Page /\ GuardPage(TopOf(r)) # q
      BY SlotPages, SlotsApart
    <2> QED
      BY <1>2, <2>1 DEF IInv, GuardsUnmapped
  <1>5. StackPages(TopOf(s)) \subseteq Page
    BY SlotPages
  <1> QED
    BY <1>1, <1>2, <1>3, <1>4, <1>5 DEF GuardsUnmapped

\* While the stack of the call belongs to no task, the tasks keep theirs.
LEMMA OtherTasks ==
    ASSUME IInv, NEW s \in StackSlot, top = TopOf(s), \A t \in TaskId : stack[t] # top,
           stack' = stack,
           \A r \in used \ {s} : r \in used',
           \A r \in StackSlot \ {s} : \A p \in StackPages(TopOf(r)) : mapped'[p] = mapped[p]
    PROVE  TasksOwnSlots' /\ TopsDiffer'
  <1>1. TasksOwnSlots'
    <2> SUFFICES ASSUME NEW t \in TaskId, stack[t] # NoStack
                 PROVE  \E r \in StackSlot : OwnsSlot(t, r)'
      BY DEF TasksOwnSlots
    <2>1. PICK r \in StackSlot : OwnsSlot(t, r)
      BY DEF IInv, TasksOwnSlots
    <2>2. r # s
      BY <2>1 DEF OwnsSlot
    <2> QED
      BY <2>1, <2>2 DEF OwnsSlot
  <1> QED
    BY <1>1 DEF IInv, TopsDiffer

\* The bit of a clear slot is set: no page of it is mapped and no task has it.
LEMMA ReserveSlotStep ==
    ASSUME IInv, ReserveSlot
    PROVE  IInv'
  <1>1. PICK s \in StackSlot :
           /\ s \notin used /\ used' = used \cup {s}
           /\ top' = TopOf(s) /\ step' = "alloc"
    BY DEF ReserveSlot, FirstSlot, Goto, IInv, GuardsUnmapped
  <1>2. UNCHANGED <<mapped, free, owned, stack, context, tlb, machine, mapped_pages, frame, new_task_id>>
    BY DEF ReserveSlot
  <1>3. step = "idle" /\ mapped_pages = 0 /\ frame = NoFrame
    BY DEF ReserveSlot, At, IInv, CallOK
  <1>4. TypeOK'
    BY <1>1, <1>2 DEF IInv, TypeOK
  <1>5. \A t \in TaskId : stack[t] # TopOf(s)
    <2> SUFFICES ASSUME NEW t \in TaskId, stack[t] = TopOf(s)
                 PROVE  FALSE
      OBVIOUS
    <2>1. PICK r \in StackSlot : r \in used /\ stack[t] = TopOf(r)
      BY SlotBounds DEF IInv, TasksOwnSlots, OwnsSlot
    <2> QED
      BY <1>1, <2>1, SlotsApart
  <1>6. HalfMade(s)'
    <2>1. \A p \in StackPages(TopOf(s)) : mapped[p] = NoFrame /\ ~(p <= Base(s) + 0)
      BY <1>1, SlotBounds, SlotPages DEF IInv, ClearEmpty
    <2> QED
      BY <1>1, <1>2, <1>3, <2>1, SlotBounds DEF HalfMade
  <1>7. CallOK'
    BY <1>1, <1>2, <1>3, <1>5, <1>6 DEF CallOK
  <1>8. StackFramesOnce' /\ GuardsUnmapped' /\ ClearEmpty' /\ TasksOwnSlots' /\ TopsDiffer'
    BY <1>1, <1>2 DEF IInv, StackFramesOnce, GuardsUnmapped, ClearEmpty, TasksOwnSlots, OwnsSlot, TopsDiffer
  <1> QED
    BY <1>2, <1>4, <1>7, <1>8 DEF IInv

\* The call takes a frame for the next page, or finds none.
LEMMA AllocFrameStep ==
    ASSUME IInv, AllocFrame
    PROVE  IInv'
  <1>1. /\ step = "alloc" /\ frame = NoFrame
        /\ UNCHANGED <<used, mapped, owned, stack, context, tlb, machine, top, mapped_pages, new_task_id>>
    BY DEF AllocFrame, At, IInv, CallOK
  <1>2. \/ step' = "rollback" /\ UNCHANGED <<free, frame>>
        \/ step' = "map" /\ \E f \in free : free' = free \ {f} /\ frame' = f
    BY DEF AllocFrame, Goto
  <1>3. TypeOK'
    BY <1>1, <1>2 DEF IInv, TypeOK
  <1>4. StackFramesOnce'
    BY <1>1, <1>2 DEF IInv, TypeOK, StackFramesOnce
  <1>5. CallOK'
    <2>1. frame' # NoFrame <=> step' = "map"
      BY <1>1, <1>2 DEF IInv, TypeOK
    <2> QED
      BY <1>1, <1>2, <2>1 DEF IInv, CallOK, HalfMade
  <1>6. GuardsUnmapped' /\ ClearEmpty' /\ TasksOwnSlots' /\ TopsDiffer'
    BY <1>1 DEF IInv, GuardsUnmapped, ClearEmpty, TasksOwnSlots, OwnsSlot, TopsDiffer
  <1> QED
    BY <1>1, <1>3, <1>4, <1>5, <1>6 DEF IInv

\* The next page is mapped to the frame in hand.
LEMMA MapPageStep ==
    ASSUME IInv, MapPage
    PROVE  IInv'
  <1>1. /\ step = "map" /\ frame \in Frame
        /\ mapped' = [mapped EXCEPT ![NextPage] = frame] /\ mapped[NextPage] = NoFrame
        /\ frame' = NoFrame /\ mapped_pages' = mapped_pages + 1
        /\ step' = IF mapped_pages' < KERNEL_STACK_PAGES THEN "alloc" ELSE "add"
        /\ UNCHANGED <<used, free, owned, stack, context, tlb, top, new_task_id>>
    BY DEF MapPage, At, Goto, IInv, CallOK, TypeOK
  <1>2. PICK s \in StackSlot : HalfMade(s)
    BY <1>1 DEF IInv, CallOK
  <1>3. mapped_pages \in 0..KERNEL_STACK_PAGES /\ mapped_pages < KERNEL_STACK_PAGES /\ top = TopOf(s)
    BY <1>1, <1>2 DEF IInv, CallOK, TypeOK, HalfMade
  <1>4. /\ NextPage \in StackPages(TopOf(s)) /\ NextPage = Base(s) + mapped_pages + 1 /\ Base(s) \in Nat
        /\ \A p \in StackPages(TopOf(s)) : p \in Nat
    BY <1>3, PageOfStack
  <1> DEFINE q == NextPage
  <1>5. /\ mapped' \in [Page -> Frame \cup {NoFrame}]
        /\ q \in Page
        /\ \A p \in Page : mapped'[p] = IF p = q THEN frame ELSE mapped[p]
        /\ \A p \in StackPages(TopOf(s)) : mapped'[p] = IF p = q THEN frame ELSE mapped[p]
        /\ \A r \in StackSlot \ {s} : \A p \in StackPages(TopOf(r)) : mapped'[p] = mapped[p]
        /\ GuardsUnmapped'
    <2>1. q \in StackPages(TopOf(s)) /\ frame \in Frame \cup {NoFrame} /\ mapped' = [mapped EXCEPT ![q] = frame]
      BY <1>1, <1>4
    <2> QED
      BY <2>1, OnePage, Zenon
  <1> HIDE DEF q
  <1>6. machine' = machine
    BY <1>3 DEF MapPage, Assert, IInv, GuardsUnmapped
  <1>7. TypeOK'
    BY <1>1, <1>3, <1>5, <1>6 DEF IInv, TypeOK
  <1>8. StackFramesOnce'
    <2>1. mapped[q] = NoFrame
      BY <1>1 DEF q
    <2> QED
      BY <1>1, <1>5, <2>1 DEF IInv, StackFramesOnce
  <1>9. ClearEmpty'
    BY <1>1, <1>2, <1>5 DEF IInv, ClearEmpty, HalfMade
  <1>10. \A t \in TaskId : stack[t] # top
    BY <1>1 DEF IInv, CallOK
  <1>11. TasksOwnSlots' /\ TopsDiffer'
    BY <1>1, <1>3, <1>5, <1>10, OtherTasks
  <1>12. HalfMade(s)'
    <2>1. \A p \in StackPages(TopOf(s)) : p <= Base(s) + mapped_pages' <=> p = q \/ p <= Base(s) + mapped_pages
      BY <1>1, <1>3, <1>4 DEF q
    <2>2. frame # NoFrame
      BY <1>1
    <2> QED
      BY <1>1, <1>2, <1>5, <2>1, <2>2 DEF HalfMade
  <1>13. CallOK'
    BY <1>1, <1>3, <1>10, <1>12 DEF CallOK
  <1> QED
    BY <1>5, <1>6, <1>7, <1>8, <1>9, <1>11, <1>13 DEF IInv

\* The frame in hand goes back to the pool.
LEMMA MapFailsStep ==
    ASSUME IInv, MapFails
    PROVE  IInv'
  <1>1. /\ step = "map" /\ frame \in Frame
        /\ free' = free \cup {frame} /\ frame' = NoFrame /\ step' = "rollback"
        /\ UNCHANGED <<used, mapped, owned, stack, context, tlb, top, mapped_pages, new_task_id>>
    BY DEF MapFails, At, Goto, IInv, CallOK, TypeOK
  <1>2. machine' = machine
    BY <1>1 DEF MapFails, Assert, IInv, StackFramesOnce
  <1>3. TypeOK'
    BY <1>1, <1>2 DEF IInv, TypeOK
  <1>4. StackFramesOnce'
    BY <1>1 DEF IInv, StackFramesOnce
  <1>5. CallOK'
    BY <1>1 DEF IInv, CallOK, HalfMade
  <1>6. GuardsUnmapped' /\ ClearEmpty' /\ TasksOwnSlots' /\ TopsDiffer'
    BY <1>1 DEF IInv, GuardsUnmapped, ClearEmpty, TasksOwnSlots, OwnsSlot, TopsDiffer
  <1> QED
    BY <1>2, <1>3, <1>4, <1>5, <1>6 DEF IInv

\* The highest page that is mapped is unmapped, and its frame goes back to the pool.
LEMMA UnmapPageStep ==
    ASSUME IInv, step \in {"rollback", "destroy"}, UnmapPage
    PROVE  IInv'
  <1>1. /\ mapped_pages > 0 /\ frame = NoFrame
        /\ mapped' = [mapped EXCEPT ![LastPage] = NoFrame]
        /\ free' = free \cup ({mapped[LastPage]} \ {NoFrame})
        /\ mapped_pages' = mapped_pages - 1
        /\ UNCHANGED <<used, owned, stack, context, tlb, step, top, frame, new_task_id>>
    BY DEF UnmapPage, IInv, CallOK
  <1>2. PICK s \in StackSlot : HalfMade(s)
    BY DEF IInv, CallOK
  <1>3. mapped_pages \in 0..KERNEL_STACK_PAGES /\ top = TopOf(s)
    BY <1>2 DEF IInv, TypeOK, HalfMade
  <1>4. /\ LastPage \in StackPages(TopOf(s)) /\ LastPage = Base(s) + mapped_pages /\ Base(s) \in Nat
        /\ \A p \in StackPages(TopOf(s)) : p \in Nat
    BY <1>1, <1>3, PageOfStack
  <1> DEFINE q == LastPage
             f == mapped[LastPage]
  <1>5. /\ mapped' \in [Page -> Frame \cup {NoFrame}]
        /\ q \in Page
        /\ \A p \in Page : mapped'[p] = IF p = q THEN NoFrame ELSE mapped[p]
        /\ \A p \in StackPages(TopOf(s)) : mapped'[p] = IF p = q THEN NoFrame ELSE mapped[p]
        /\ \A r \in StackSlot \ {s} : \A p \in StackPages(TopOf(r)) : mapped'[p] = mapped[p]
        /\ GuardsUnmapped'
    BY <1>1, <1>4, OnePage
  <1>6. mapped[q] # NoFrame
    BY <1>2, <1>3, <1>4 DEF HalfMade
  <1>7. f \in Frame /\ f \notin free /\ mapped[q] = f
    BY <1>5, <1>6 DEF IInv, TypeOK, StackFramesOnce
  <1>8. machine' = machine
    BY <1>6, <1>7 DEF UnmapPage, Assert
  <1>9. free' = free \cup {f}
    BY <1>1, <1>7
  <1> HIDE DEF q, f
  <1>10. TypeOK'
    BY <1>1, <1>3, <1>5, <1>7, <1>8, <1>9 DEF IInv, TypeOK
  <1>11. StackFramesOnce'
    BY <1>1, <1>5, <1>7, <1>9 DEF IInv, StackFramesOnce
  <1>12. ClearEmpty'
    BY <1>1, <1>2, <1>5 DEF IInv, ClearEmpty, HalfMade
  <1>13. \A t \in TaskId : stack[t] # top
    BY DEF IInv, CallOK
  <1>14. TasksOwnSlots' /\ TopsDiffer'
    BY <1>1, <1>3, <1>5, <1>13, OtherTasks
  <1>15. HalfMade(s)'
    <2>1. \A p \in StackPages(TopOf(s)) : p <= Base(s) + mapped_pages' <=> p # q /\ p <= Base(s) + mapped_pages
      BY <1>1, <1>3, <1>4 DEF q
    <2> QED
      BY <1>1, <1>2, <1>5, <2>1 DEF HalfMade
  <1>16. CallOK'
    BY <1>1, <1>3, <1>13, <1>15 DEF IInv, CallOK
  <1> QED
    BY <1>5, <1>8, <1>10, <1>11, <1>12, <1>14, <1>16 DEF IInv

\* The call ends, and leaves the stacks as they are.
LEMMA EndsStep ==
    ASSUME IInv, frame = NoFrame, TypeOK', Ends, UNCHANGED <<used, mapped, free, owned, stack, machine>>
    PROVE  IInv'
  <1>1. CallOK'
    BY DEF Ends, CallOK
  <1>2. StackFramesOnce' /\ GuardsUnmapped' /\ ClearEmpty' /\ TasksOwnSlots' /\ TopsDiffer'
    BY DEF IInv, StackFramesOnce, GuardsUnmapped, ClearEmpty, TasksOwnSlots, OwnsSlot, TopsDiffer, Ends
  <1> QED
    BY <1>1, <1>2 DEF IInv

\* What the end of a call leaves of its variables has their types.
LEMMA EndsType == Ends => /\ step' = "idle" /\ top' = NoStack /\ mapped_pages' \in 0..KERNEL_STACK_PAGES
                          /\ frame' = NoFrame /\ new_task_id' \in TaskId
  BY DEF Ends, TaskId

\* rollback: page by page, and then the call ends with the bit set.
LEMMA RollbackStep ==
    ASSUME IInv, Rollback
    PROVE  IInv'
  <1>1. step = "rollback" /\ frame = NoFrame
    BY DEF Rollback, At, IInv, CallOK
  <1>2. CASE UnmapPage
    BY <1>1, <1>2, UnmapPageStep
  <1>3. CASE Ends /\ UNCHANGED <<used, mapped, free, owned, stack, context, tlb, machine>>
    <2>1. TypeOK'
      BY <1>3, EndsType DEF IInv, TypeOK
    <2> QED
      BY <1>1, <1>3, <2>1, EndsStep
  <1> QED
    BY <1>2, <1>3 DEF Rollback

\* The finished stack goes to a task, or is forgotten.
LEMMA AddTaskStep ==
    ASSUME IInv, AddTask
    PROVE  IInv'
  <1>1. /\ step = "add" /\ frame = NoFrame /\ mapped_pages = KERNEL_STACK_PAGES
        /\ tlb' = [tlb EXCEPT ![top - 1] = Translate(top - 1)]
        /\ UNCHANGED <<used, mapped, free, owned, machine>>
    BY DEF AddTask, At, WritesContext, IInv, CallOK
  <1>2. PICK s \in StackSlot : HalfMade(s)
    BY <1>1 DEF IInv, CallOK
  <1>3. top = TopOf(s) /\ top - 1 \in Page /\ top # NoStack
    BY <1>2, SlotPages, SlotBounds DEF HalfMade
  <1>4. tlb' \in [Page -> Frame \cup {NoFrame}] /\ Translate(top - 1) \in Frame \cup {NoFrame}
    BY <1>1, <1>3, CachedType DEF IInv
  <1>5. CASE Ends /\ UNCHANGED <<stack, context>>
    <2>1. TypeOK'
      BY <1>1, <1>4, <1>5, EndsType DEF IInv, TypeOK
    <2> QED
      BY <1>1, <1>5, <2>1, EndsStep
  <1>6. CASE /\ \E n \in TaskId :
                   /\ FirstTask(n)
                   /\ stack' = [stack EXCEPT ![n] = top]
                   /\ context' = [context EXCEPT ![n] = Translate(top - 1)]
                   /\ new_task_id' = n
             /\ Goto("push") /\ UNCHANGED <<top, mapped_pages, frame>>
    <2>1. PICK n \in TaskId : /\ stack[n] = NoStack
                              /\ stack' = [stack EXCEPT ![n] = top]
                              /\ context' = [context EXCEPT ![n] = Translate(top - 1)]
                              /\ new_task_id' = n
      BY <1>6 DEF FirstTask
    <2>2. step' = "push" /\ UNCHANGED <<top, mapped_pages, frame>>
      BY <1>6 DEF Goto
    <2>3. \A t \in TaskId : stack'[t] = IF t = n THEN top ELSE stack[t]
      BY <2>1 DEF IInv, TypeOK
    <2>4. TypeOK'
      <3>1. stack' \in [TaskId -> {NoStack} \cup {TopOf(r) : r \in StackSlot}]
        BY <1>3, <2>1 DEF IInv, TypeOK
      <3>2. context' \in [TaskId -> Frame \cup {NoFrame}]
        BY <1>4, <2>1 DEF IInv, TypeOK
      <3> QED
        BY <1>1, <1>4, <2>1, <2>2, <3>1, <3>2 DEF IInv, TypeOK
    <2>5. \A p \in StackPages(TopOf(s)) : mapped[p] # NoFrame
      BY <1>1, <1>2, <1>3, PageOfStack DEF HalfMade
    <2>6. TasksOwnSlots'
      <3> SUFFICES ASSUME NEW t \in TaskId, stack'[t] # NoStack
                   PROVE  \E r \in StackSlot : /\ r \in used /\ stack'[t] = TopOf(r)
                                               /\ \A p \in StackPages(TopOf(r)) : mapped[p] # NoFrame
        BY <1>1 DEF TasksOwnSlots, OwnsSlot
      <3>1. CASE t = n
        BY <1>2, <1>3, <2>3, <2>5, <3>1 DEF HalfMade
      <3>2. CASE t # n
        BY <2>3, <3>2 DEF IInv, TasksOwnSlots, OwnsSlot
      <3> QED
        BY <3>1, <3>2
    <2>7. \A t \in TaskId : stack[t] # top
      BY <1>1 DEF IInv, CallOK
    <2>8. TopsDiffer'
      BY <2>3, <2>7 DEF IInv, TopsDiffer
    <2>9. CallOK'
      BY <1>1, <1>2, <2>1, <2>2, <2>3 DEF CallOK, HalfMade
    <2>10. StackFramesOnce' /\ GuardsUnmapped' /\ ClearEmpty'
      BY <1>1, <2>2 DEF IInv, StackFramesOnce, GuardsUnmapped, ClearEmpty
    <2> QED
      BY <1>1, <2>4, <2>6, <2>8, <2>9, <2>10 DEF IInv
  <1> QED
    BY <1>5, <1>6 DEF AddTask

\* The creator has its handle.
LEMMA PushHandleStep ==
    ASSUME IInv, PushHandle
    PROVE  IInv'
  <1>1. frame = NoFrame
    BY DEF PushHandle, At, IInv, CallOK
  <1>2. TypeOK'
    BY EndsType DEF PushHandle, IInv, TypeOK
  <1> QED
    BY <1>1, <1>2, EndsStep DEF PushHandle

\* The task is taken out of the table; its stack belongs to nobody.
LEMMA RemoveTaskStep ==
    ASSUME IInv, RemoveTask
    PROVE  IInv'
  <1> DEFINE n == new_task_id
  <1>1. /\ step = "push" /\ stack[n] = top /\ n \in TaskId
        /\ stack' = [stack EXCEPT ![n] = NoStack]
        /\ context' = [context EXCEPT ![n] = NoFrame]
        /\ step' = "destroy"
        /\ UNCHANGED <<used, mapped, free, owned, tlb, machine, top, mapped_pages, frame, new_task_id>>
    BY DEF RemoveTask, At, Goto, IInv, CallOK, TypeOK
  <1>2. PICK s \in StackSlot : HalfMade(s)
    BY <1>1 DEF IInv, CallOK
  <1>3. top # NoStack
    BY <1>2, SlotBounds DEF HalfMade
  <1>4. \A t \in TaskId : stack'[t] = IF t = n THEN NoStack ELSE stack[t]
    BY <1>1 DEF IInv, TypeOK
  <1>5. \A t \in TaskId : stack'[t] # top
    BY <1>1, <1>3, <1>4 DEF IInv, TopsDiffer
  <1>6. TypeOK'
    <2>1. stack' \in [TaskId -> {NoStack} \cup {TopOf(r) : r \in StackSlot}]
      BY <1>1 DEF IInv, TypeOK
    <2>2. context' \in [TaskId -> Frame \cup {NoFrame}]
      BY <1>1 DEF IInv, TypeOK
    <2> QED
      BY <1>1, <2>1, <2>2 DEF IInv, TypeOK
  <1>7. TasksOwnSlots' /\ TopsDiffer'
    BY <1>1, <1>4 DEF IInv, TasksOwnSlots, OwnsSlot, TopsDiffer
  <1>8. CallOK'
    BY <1>1, <1>2, <1>5 DEF IInv, CallOK, HalfMade
  <1>9. StackFramesOnce' /\ GuardsUnmapped' /\ ClearEmpty'
    BY <1>1 DEF IInv, StackFramesOnce, GuardsUnmapped, ClearEmpty
  <1> QED
    BY <1>1, <1>6, <1>7, <1>8, <1>9 DEF IInv

\* destroy: page by page, and then the bit of the slot, which is empty, is cleared.
LEMMA FreeStackStep ==
    ASSUME IInv, FreeStack
    PROVE  IInv'
  <1>1. step = "destroy" /\ frame = NoFrame
    BY DEF FreeStack, At, IInv, CallOK
  <1>2. CASE UnmapPage
    BY <1>1, <1>2, UnmapPageStep
  <1>3. CASE /\ mapped_pages = 0
             /\ Assert(mapped[GuardPage(top)] = NoFrame)
             /\ used' = used \ {SlotOf(top)}
             /\ Ends /\ UNCHANGED <<mapped, free, owned, stack, context, tlb>>
    <2>1. PICK s \in StackSlot : HalfMade(s)
      BY <1>1 DEF IInv, CallOK
    <2>2. top = TopOf(s) /\ used' = used \ {s} /\ machine' = machine
      BY <1>3, <2>1, SlotOfTop DEF HalfMade, Assert, IInv, GuardsUnmapped
    <2>3. \A p \in StackPages(TopOf(s)) : mapped[p] = NoFrame
      BY <1>3, <2>1, <2>2, PageOfStack DEF HalfMade
    <2>4. TypeOK'
      BY <1>3, <2>2, EndsType DEF IInv, TypeOK
    <2>5. ClearEmpty'
      BY <1>3, <2>2, <2>3 DEF IInv, ClearEmpty
    <2>6. \A t \in TaskId : stack[t] # top
      BY <1>1 DEF IInv, CallOK
    <2>7. TasksOwnSlots' /\ TopsDiffer'
      BY <1>3, <2>2, <2>6, OtherTasks
    <2>8. CallOK'
      BY <1>3 DEF Ends, CallOK
    <2>9. StackFramesOnce' /\ GuardsUnmapped'
      BY <1>1, <1>3 DEF IInv, StackFramesOnce, GuardsUnmapped, Ends
    <2> QED
      BY <2>2, <2>4, <2>5, <2>7, <2>8, <2>9 DEF IInv
  <1> QED
    BY <1>2, <1>3 DEF FreeStack

\* A task takes a frame of the pool or gives one back.
LEMMA FrameStep ==
    ASSUME IInv, NEW f \in Frame, FrameTaken(f) \/ FrameReturned(f)
    PROVE  IInv'
  <1>1. UNCHANGED <<used, mapped, stack, context, tlb, machine, callVars>>
    BY DEF FrameTaken, FrameReturned
  <1>2. TypeOK'
    BY <1>1 DEF IInv, TypeOK, FrameTaken, FrameReturned, callVars
  <1>3. StackFramesOnce'
    BY <1>1 DEF IInv, StackFramesOnce, FrameTaken, FrameReturned, FirstFrame, callVars
  <1>4. GuardsUnmapped' /\ ClearEmpty' /\ TasksOwnSlots' /\ TopsDiffer' /\ CallOK'
    BY <1>1 DEF IInv, GuardsUnmapped, ClearEmpty, TasksOwnSlots, OwnsSlot, TopsDiffer, CallOK, HalfMade, callVars
  <1> QED
    BY <1>1, <1>2, <1>3, <1>4 DEF IInv

\* The CPU caches or forgets a translation.
LEMMA CpuStep ==
    ASSUME IInv, NEW p \in Page, Evict(p) \/ \E t \in TaskId : Runs(t, p)
    PROVE  IInv'
  <1>1. tlb' \in [Page -> Frame \cup {NoFrame}]
    BY CachedType DEF IInv, TypeOK, Evict, Runs
  <1>2. UNCHANGED <<used, mapped, free, owned, stack, context, machine, callVars>>
    BY DEF Evict, Runs
  <1>3. TypeOK'
    BY <1>1, <1>2 DEF IInv, TypeOK, callVars
  <1> QED
    BY <1>2, <1>3, SameStacks

LEMMA IInvStep == IInv /\ [Next]_vars => IInv'
  <1> SUFFICES ASSUME IInv, [Next]_vars
               PROVE  IInv'
    OBVIOUS
  <1>1. CASE sys_task_create /\ ~OutOfStacks
    BY <1>1, ReserveSlotStep, AllocFrameStep, MapPageStep, MapFailsStep, RollbackStep, AddTaskStep,
       PushHandleStep, RemoveTaskStep, FreeStackStep DEF sys_task_create
  <1>2. CASE \E f \in Frame : FrameTaken(f) \/ FrameReturned(f)
    BY <1>2, FrameStep
  <1>3. CASE \E p \in Page : Evict(p) \/ \E t \in TaskId : Runs(t, p)
    BY <1>3, CpuStep
  <1>4. CASE OutOfStacks \/ UNCHANGED vars
    <2>1. UNCHANGED <<used, mapped, free, owned, stack, context, tlb, machine, callVars>>
      BY <1>4 DEF OutOfStacks, vars
    <2>2. TypeOK'
      BY <2>1 DEF IInv, TypeOK, callVars
    <2> QED
      BY <2>1, <2>2, SameStacks
  <1> QED
    BY <1>1, <1>2, <1>3, <1>4 DEF Next

\* The invariant holds in every state of every behaviour.
THEOREM IInvHolds == Spec => []IInv
  BY IInvInit, IInvStep, PTL DEF Spec

-----------------------------------------------------------------------------
(* What is proved of the kernel's stacks.                                  *)

\* No step of making, rolling back, forgetting and destroying stacks loses a
\* frame, maps it twice, or leaves a mapped one in the pool or with a task.
THEOREM FramesAreOnce == Spec => []StackFramesOnce
  BY IInvHolds, IInvImplies, PTL

\* Stacks of tasks never share a page, and each has an unmapped page below it.
THEOREM StacksAreApart == Spec => []StacksApart
  BY IInvHolds, IInvImplies, PTL

\* The slot that KernelStackPool::allocate picks is always empty, so that
\* StackMapping::allocate never meets a page that is mapped.
THEOREM ClearSlotsAreUnmapped == Spec => []ClearSlotsUnmapped
  BY IInvHolds, IInvImplies, PTL

\* Whichever page an allocation fails at, rollback finds each page below it mapped, and
\* destroy finds every page of a finished stack mapped, to a frame that is not free: their
\* expects, the double-free panic of the allocator and the debug assertions on the guard
\* page are unreachable.
THEOREM NeverPanics == Spec => []NoPanic
  BY IInvHolds, IInvImplies, PTL
=============================================================================
