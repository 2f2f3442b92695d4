----------------------------- MODULE ReadyQueue -----------------------------
(***************************************************************************)
(* The scheduler's ring of runnable tasks (src/src/task/scheduler.rs,      *)
(* struct ReadyQueue): an array of MAX_TASKS identifiers, the index of the *)
(* oldest one and the number of identifiers in use.  A slot that is not in *)
(* use keeps the identifier it held last.                                  *)
(***************************************************************************)
EXTENDS Integers, Sequences

CONSTANTS MAX_TASKS,   \* slots of the ring
          TaskId       \* identifiers that may be queued

ASSUME SlotsAssumption == MAX_TASKS \in Nat \ {0}
ASSUME TaskIdAssumption == TaskId # {} /\ "none" \notin TaskId

VARIABLES entries,     \* the array
          head,        \* index of the oldest identifier
          len,         \* identifiers in use
          ret          \* what the last operation returned

readyVars == <<entries, head, len, ret>>

None == "none"
Slots == 0..(MAX_TASKS - 1)

\* The slot that is i places behind the oldest one.
Slot(i) == (head + i) % MAX_TASKS

\* const fn new: every slot holds TaskId(0).
ReadyInit ==
    /\ \E zero \in TaskId : entries = [s \in Slots |-> zero]
    /\ head = 0
    /\ len = 0
    /\ ret = None

-----------------------------------------------------------------------------
push_back(task) ==
    \/ /\ len = MAX_TASKS
       /\ ret' = "false"
       /\ UNCHANGED <<entries, head, len>>
    \/ /\ len # MAX_TASKS
       /\ entries' = [entries EXCEPT ![Slot(len)] = task]
       /\ len' = len + 1
       /\ ret' = "true"
       /\ UNCHANGED head

pop_front ==
    \/ /\ len = 0
       /\ ret' = None
       /\ UNCHANGED <<entries, head, len>>
    \/ /\ len # 0
       /\ ret' = entries[head]
       /\ head' = (head + 1) % MAX_TASKS
       /\ len' = len - 1
       /\ UNCHANGED entries

\* The i for which the outer loop of remove stops.
FoundAt(task, i) ==
    /\ i \in 0..(len - 1)
    /\ entries[Slot(i)] = task
    /\ \A k \in 0..(i - 1) : entries[Slot(k)] # task

\* Variant: the inner loop of remove stops one place early.
ShiftedFrom_short(i) ==
    [s \in Slots |->
        IF \E j \in i..(len - 3) : s = Slot(j)
        THEN entries[Slot((CHOOSE j \in i..(len - 3) : s = Slot(j)) + 1)]
        ELSE entries[s]]

\* The array after the inner loop of remove: the identifiers behind place i
\* move one place towards the head.
ShiftedFrom(i) ==
    [s \in Slots |->
        IF \E j \in i..(len - 2) : s = Slot(j)
        THEN entries[Slot((CHOOSE j \in i..(len - 2) : s = Slot(j)) + 1)]
        ELSE entries[s]]

remove(task) ==
    \/ \E i \in 0..(len - 1) :
          /\ FoundAt(task, i)
          /\ entries' = ShiftedFrom(i)
          /\ len' = len - 1
          /\ ret' = "true"
          /\ UNCHANGED head
    \/ /\ \A i \in 0..(len - 1) : entries[Slot(i)] # task
       /\ ret' = "false"
       /\ UNCHANGED <<entries, head, len>>

ReadyNext ==
    \/ \E task \in TaskId : push_back(task) \/ remove(task)
    \/ pop_front

ReadySpec == ReadyInit /\ [][ReadyNext]_readyVars

-----------------------------------------------------------------------------
\* The array, the index and the count stay within their bounds: no operation
\* indexes `entries` outside 0..MAX_TASKS-1 and `len` never passes the size.
ReadyTypeOK ==
    /\ entries \in [Slots -> TaskId]
    /\ head \in Slots
    /\ len \in 0..MAX_TASKS
    /\ ret \in TaskId \cup {None, "true", "false"}

\* The queue that the ring stands for.
Contents == [k \in 1..len |-> entries[Slot(k - 1)]]

ReadyFifo == INSTANCE Fifo WITH
    Elem <- TaskId, Capacity <- MAX_TASKS, queue <- Contents, ret <- ret

\* Seen through Contents, push_back, pop_front and remove are the operations
\* of a first-in first-out queue, wherever in the array the ring happens to
\* lie, whatever the unused slots hold, and when it is full or empty.
ImplementsFifo == ReadyFifo!Spec
=============================================================================
