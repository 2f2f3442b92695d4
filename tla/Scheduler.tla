------------------------------ MODULE Scheduler ------------------------------
(***************************************************************************)
(* The cooperative scheduler (src/src/task/scheduler.rs).                  *)
(*                                                                         *)
(* One CPU runs the kernel with interrupts masked and the timer is never   *)
(* started, so a task keeps the CPU until it calls one of the operations   *)
(* below, and every operation is one atomic step that ends in the context  *)
(* switch.  A slot of the task table is known by the state of the task in  *)
(* it ("None" when the slot is empty); the ready queue is the FIFO queue   *)
(* that module ReadyQueue implements.  An assert!, unwrap or expect that   *)
(* fails puts the machine in "panic".                                      *)
(***************************************************************************)
EXTENDS Integers, Sequences

CONSTANTS MAX_TASKS,   \* slots of the task table
          NoTask       \* Option::None for a task identifier

TaskId == 0..(MAX_TASKS - 1)

ASSUME MaxTasksAssumption == MAX_TASKS \in Nat \ {0}
ASSUME NoTaskAssumption == NoTask \notin TaskId

VARIABLES current,     \* the task that owns the CPU
          state,       \* state[t]: ThreadState of slot t
          ready,       \* identifiers waiting for the CPU, oldest first
          machine      \* what the machine as a whole is doing

schedVars == <<current, state, ready, machine>>

ThreadState == {"None", "Ready", "Running", "Blocked", "Dead"}
Halted == {"deadlock", "exited", "panic"}

SchedInit ==
    /\ current = NoTask
    /\ state = [t \in TaskId |-> "None"]
    /\ ready = <<>>
    /\ machine = "boot"

-----------------------------------------------------------------------------
\* assert!, unwrap and expect: the step panics unless p holds.
Assert(p) == machine' = IF p THEN machine ELSE "panic"

\* ready.push_back(t): a full queue refuses.
Full(q) == Len(q) = MAX_TASKS
PushBack(q, t) == IF Full(q) THEN q ELSE Append(q, t)

\* t is in the queue; no identifier is in it twice.
Queued(q, t) == \E i \in 1..Len(q) : q[i] = t
Distinct(q) == \A i, j \in 1..Len(q) : q[i] = q[j] => i = j

\* ready.remove(t): the oldest copy of t leaves the queue.
ReadyWithout(q, t) ==
    IF Queued(q, t)
    THEN LET i == CHOOSE i \in 1..Len(q) :
                      q[i] = t /\ \A k \in 1..(i - 1) : q[k] # t
         IN  [k \in 1..(Len(q) - 1) |-> IF k < i THEN q[k] ELSE q[k + 1]]
    ELSE q

\* The task table finds the first empty slot.
FirstFree(t) ==
    /\ t \in TaskId
    /\ state[t] = "None"
    /\ \A u \in 0..(t - 1) : state[u] # "None"

\* make_switch and Switch::perform: both tasks exist and differ, and the next
\* one does not come back to the end of exit_current.
MaySwitchTo(next) == next # current /\ state[next] \notin {"None", "Dead"}

-----------------------------------------------------------------------------
\* Ok(t) of add_task; Err(task) when there is no empty slot changes nothing.
add_task(t) ==
    /\ FirstFree(t)
    /\ state' = [state EXCEPT ![t] = "Ready"]
    /\ ready' = PushBack(ready, t)
    /\ Assert(~Full(ready))
    /\ UNCHANGED current

\* The first task is added by bootstrap::spawn; start hands it the CPU.
Spawn ==
    /\ machine = "boot"
    /\ ready = <<>>
    /\ \E t \in TaskId : add_task(t)

start ==
    /\ machine = "boot"
    /\ ready # <<>>
    /\ LET next == Head(ready)
       IN  /\ ready' = Tail(ready)
           /\ state' = [state EXCEPT ![next] = "Running"]
           /\ current' = next
           /\ machine' = IF state[next] # "None" THEN "running" ELSE "panic"

-----------------------------------------------------------------------------
\* remove_task leaves the current task alone and returns false for it and for
\* an empty slot.
remove_task(t) ==
    \/ /\ current = t \/ state[t] = "None"
       /\ UNCHANGED schedVars
    \/ /\ current # t /\ state[t] # "None"
       /\ state' = [state EXCEPT ![t] = "None"]
       /\ ready' = ReadyWithout(ready, t)
       /\ UNCHANGED <<current, machine>>

\* Variant: the blocking task also queues itself.
block_current_requeued ==
    \/ /\ ready = <<>>
       /\ machine' = "deadlock"
       /\ UNCHANGED <<current, state, ready>>
    \/ /\ ready # <<>>
       /\ LET next == Head(ready)
          IN  /\ state' = [state EXCEPT ![current] = "Blocked", ![next] = "Running"]
              /\ ready' = Append(Tail(ready), current)
              /\ current' = next
              /\ Assert(MaySwitchTo(next))

block_current ==
    \/ /\ ready = <<>>
       /\ machine' = "deadlock"
       /\ UNCHANGED <<current, state, ready>>
    \/ /\ ready # <<>>
       /\ LET next == Head(ready)
          IN  /\ state' = [state EXCEPT ![current] = "Blocked", ![next] = "Running"]
              /\ ready' = Tail(ready)
              /\ current' = next
              /\ Assert(MaySwitchTo(next))

\* Variant: the state is not tested, so a Ready task is queued once more.
unblock_unguarded(t) ==
    \/ /\ state[t] \notin {"Blocked", "Ready"}
       /\ UNCHANGED schedVars
    \/ /\ state[t] \in {"Blocked", "Ready"}
       /\ state' = [state EXCEPT ![t] = "Ready"]
       /\ ready' = PushBack(ready, t)
       /\ Assert(~Full(ready))
       /\ UNCHANGED current

\* Variant: a woken task goes to the front of the queue.
unblock_front(t) ==
    \/ /\ state[t] # "Blocked"
       /\ UNCHANGED schedVars
    \/ /\ state[t] = "Blocked"
       /\ state' = [state EXCEPT ![t] = "Ready"]
       /\ ready' = <<t>> \o ready
       /\ Assert(~Full(ready))
       /\ UNCHANGED current

unblock(t) ==
    \/ /\ state[t] # "Blocked"
       /\ UNCHANGED schedVars
    \/ /\ state[t] = "Blocked"
       /\ state' = [state EXCEPT ![t] = "Ready"]
       /\ ready' = PushBack(ready, t)
       /\ Assert(~Full(ready))
       /\ UNCHANGED current

\* Variant: the yielding task goes to the front of the queue.
yield_current_front ==
    \/ /\ ready = <<>>
       /\ UNCHANGED schedVars
    \/ /\ ready # <<>>
       /\ LET next == Head(ready)
              rest == Tail(ready)
          IN  /\ state' = [state EXCEPT ![current] = "Ready", ![next] = "Running"]
              /\ ready' = <<current>> \o rest
              /\ current' = next
              /\ Assert(~Full(rest) /\ MaySwitchTo(next))

\* With nobody waiting the caller keeps the CPU.
yield_current ==
    \/ /\ ready = <<>>
       /\ UNCHANGED schedVars
    \/ /\ ready # <<>>
       /\ LET next == Head(ready)
              rest == Tail(ready)
          IN  /\ state' = [state EXCEPT ![current] = "Ready", ![next] = "Running"]
              /\ ready' = PushBack(rest, current)
              /\ current' = next
              /\ Assert(~Full(rest) /\ MaySwitchTo(next))

\* Variant: the slot of the exiting task is emptied at once.
exit_current_reaped ==
    \/ /\ ready = <<>>
       /\ machine' = "exited"
       /\ UNCHANGED <<current, state, ready>>
    \/ /\ ready # <<>>
       /\ LET next == Head(ready)
          IN  /\ state' = [state EXCEPT ![current] = "None", ![next] = "Running"]
              /\ ready' = Tail(ready)
              /\ current' = next
              /\ Assert(MaySwitchTo(next))

exit_current ==
    \/ /\ ready = <<>>
       /\ machine' = "exited"
       /\ UNCHANGED <<current, state, ready>>
    \/ /\ ready # <<>>
       /\ LET next == Head(ready)
          IN  /\ state' = [state EXCEPT ![current] = "Dead", ![next] = "Running"]
              /\ ready' = Tail(ready)
              /\ current' = next
              /\ Assert(MaySwitchTo(next))

\* hcf: the machine stays halted for ever.
hcf ==
    /\ machine \in Halted
    /\ UNCHANGED schedVars

-----------------------------------------------------------------------------
SchedNext ==
    \/ Spawn
    \/ start
    \/ /\ machine = "running"
       /\ \/ block_current
          \/ yield_current
          \/ exit_current
          \/ \E t \in TaskId : add_task(t) \/ unblock(t) \/ remove_task(t)
    \/ hcf

SchedSpec == SchedInit /\ [][SchedNext]_schedVars

\* The tasks cooperate: whoever runs calls the kernel to yield, block or exit
\* again and again.  The kernel itself never delays the first task.
GiveUpCpu == machine = "running" /\ (block_current \/ yield_current \/ exit_current)

SchedFairSpec == SchedSpec /\ WF_schedVars(start) /\ WF_schedVars(GiveUpCpu)

-----------------------------------------------------------------------------
\* The variables have their types; in particular every entry of the ready
\* queue names a slot of the task table.
SchedTypeOK ==
    /\ current \in TaskId \cup {NoTask}
    /\ state \in [TaskId -> ThreadState]
    /\ ready \in Seq(TaskId)
    /\ machine \in {"boot", "running"} \cup Halted

\* The three places that say who runs and who waits agree: the ready queue
\* holds every Ready task exactly once and nobody else, and the Running task
\* is exactly the current one.  A task missing from the queue would never run
\* again; one that is in it twice, or in it while blocked, dead or running,
\* would run when it must not.
QueueMatchesStates ==
    /\ Distinct(ready)
    /\ \A t \in TaskId : (state[t] = "Ready") <=> Queued(ready, t)
    /\ \A t \in TaskId : (state[t] = "Running") <=> (current = t)

\* No assert!, unwrap or expect of the scheduler ever fails: push_back always
\* finds room, the queue only names tasks that exist, make_switch is never
\* asked to switch a task to itself, and a dead task is never scheduled again.
NoPanic == machine # "panic"

\* The place of a waiting task in a queue.
Place(q, t) == CHOOSE i \in 1..Len(q) : q[i] = t

\* First come, first served: while a task waits nobody passes it, and every
\* switch of the CPU brings it forward by one.  A waiting task is therefore
\* behind at most MAX_TASKS - 1 switches.
NoOvertaking ==
    [][\A t \in TaskId :
          state[t] = "Ready" /\ state'[t] = "Ready" =>
              /\ Place(ready', t) <= Place(ready, t)
              /\ current' # current => Place(ready', t) < Place(ready, t)]_schedVars

\* Nobody starves: among tasks that cooperate, every task in the ready queue
\* leaves it, to run or because it is removed.
NoStarvation == \A t \in TaskId : state[t] = "Ready" ~> state[t] # "Ready"
=============================================================================
