-------------------------------- MODULE Fifo --------------------------------
(***************************************************************************)
(* What the kernel's two ring buffers promise: a first-in first-out queue  *)
(* of bounded capacity whose operations report what they did.  Both        *)
(* ReadyQueue (src/src/task/scheduler.rs) and Mailbox                      *)
(* (src/src/task/tcb.rs) are shown to implement this specification; the    *)
(* modules Scheduler and Ipc are written on top of it.                     *)
(***************************************************************************)
EXTENDS Integers, Sequences

CONSTANTS Elem,      \* what is queued
          Capacity   \* the most elements the queue may hold

VARIABLES queue,     \* the elements, oldest first
          ret        \* what the last operation returned

None == "none"

vars == <<queue, ret>>

Init ==
    /\ queue = <<>>
    /\ ret = None

\* A full queue refuses and keeps its contents.
Push(x) ==
    IF Len(queue) = Capacity
    THEN /\ ret' = "false"
         /\ UNCHANGED queue
    ELSE /\ queue' = Append(queue, x)
         /\ ret' = "true"

Pop ==
    IF queue = <<>>
    THEN /\ ret' = None
         /\ UNCHANGED queue
    ELSE /\ ret' = queue[1]
         /\ queue' = Tail(queue)

\* The sequence s without its i-th element.
WithoutIndex(s, i) ==
    [k \in 1..(Len(s) - 1) |-> IF k < i THEN s[k] ELSE s[k + 1]]

\* i is the place of the oldest copy of x in s.
IsFirst(s, x, i) ==
    /\ i \in 1..Len(s)
    /\ s[i] = x
    /\ \A k \in 1..(i - 1) : s[k] # x

\* The oldest copy of x leaves the queue; the others keep their order.
Remove(x) ==
    \/ \E i \in 1..Len(queue) :
          /\ IsFirst(queue, x, i)
          /\ queue' = WithoutIndex(queue, i)
          /\ ret' = "true"
    \/ /\ \A i \in 1..Len(queue) : queue[i] # x
       /\ ret' = "false"
       /\ UNCHANGED queue

Next ==
    \/ \E x \in Elem : Push(x) \/ Remove(x)
    \/ Pop

Spec == Init /\ [][Next]_vars
=============================================================================
