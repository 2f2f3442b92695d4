------------------------------ MODULE IpcProofs ------------------------------
(***************************************************************************)
(* Scheduler, for every size of the task table: the ready queue and the    *)
(* task states agree, no assertion of the scheduler fails, and no task is  *)
(* overtaken while it waits.                                               *)
(*                                                                         *)
(* Ipc, for every number of tasks, every mailbox capacity and every set of *)
(* payloads: the system calls only use the scheduler as the scheduler      *)
(* allows, no wakeup is lost, a woken receiver finds a message, the kernel *)
(* halts only when nothing is left to do, and message passing implements   *)
(* the inboxes of module Inboxes.                                          *)
(***************************************************************************)
EXTENDS Ipc, FiniteSetTheorems, SequenceTheorems, TLAPS

\* Steps that need arithmetic, or that Zenon does not find, name SMT.
USE Zenon

USE MaxTasksAssumption

-----------------------------------------------------------------------------
(* Lemmas on queues without repetition.                                    *)

\* A queue without repetition that misses a task has a free place.
LEMMA RoomForOneMore ==
    ASSUME NEW q \in Seq(TaskId), Distinct(q), NEW t \in TaskId, ~Queued(q, t)
    PROVE  Len(q) < MAX_TASKS /\ ~Full(q)
  <1> DEFINE others == TaskId \ {t}
  <1>1. /\ IsFiniteSet(TaskId) /\ Cardinality(TaskId) = MAX_TASKS
    BY FS_Interval, SMT DEF TaskId
  <1>2. IsFiniteSet(others) /\ Cardinality(others) = MAX_TASKS - 1
    BY <1>1, FS_RemoveElement
  <1>3. Len(q) \in Nat /\ q \in [1..Len(q) -> others]
    BY SMT DEF Queued
  <1>4. PICK n \in Nat : n = Len(q)
    BY <1>3
  <1>5. q \in Injection(1..n, others)
    BY <1>3, <1>4 DEF Distinct, Injection, IsInjective
  <1>6. Cardinality(1..n) <= MAX_TASKS - 1
    BY <1>2, <1>5, FS_Injection, SMT
  <1>7. Cardinality(1..n) = n
    BY FS_Interval, SMT
  <1>8. n < MAX_TASKS
    BY <1>6, <1>7, SMT
  <1> QED
    BY <1>4, <1>8, SMT DEF Full

LEMMA AppendQueue ==
    ASSUME NEW q \in Seq(TaskId), Distinct(q), NEW t \in TaskId, ~Queued(q, t)
    PROVE  /\ PushBack(q, t) = Append(q, t)
           /\ Append(q, t) \in Seq(TaskId)
           /\ Distinct(Append(q, t))
           /\ \A u \in TaskId : Queued(Append(q, t), u) <=> Queued(q, u) \/ u = t
  <1>1. PushBack(q, t) = Append(q, t)
    BY RoomForOneMore DEF PushBack
  <1>2. /\ Append(q, t) \in Seq(TaskId)
        /\ Len(Append(q, t)) = Len(q) + 1
        /\ \A i \in 1..Len(q) : Append(q, t)[i] = q[i]
        /\ Append(q, t)[Len(q) + 1] = t
        /\ Len(q) \in Nat
    BY AppendProperties, SMT
  <1>3. \A i \in 1..(Len(q) + 1) : i \in 1..Len(q) \/ i = Len(q) + 1
    BY <1>2, SMT
  <1>4. Distinct(Append(q, t))
    BY <1>2, <1>3 DEF Distinct, Queued
  <1>5. \A u \in TaskId : Queued(Append(q, t), u) <=> Queued(q, u) \/ u = t
    BY <1>2, <1>3, SMT DEF Queued
  <1> QED
    BY <1>1, <1>2, <1>4, <1>5

LEMMA TailQueue ==
    ASSUME NEW q \in Seq(TaskId), Distinct(q), q # <<>>
    PROVE  /\ Head(q) \in TaskId /\ Head(q) = q[1] /\ Queued(q, Head(q))
           /\ Tail(q) \in Seq(TaskId)
           /\ Len(Tail(q)) = Len(q) - 1
           /\ \A i \in 1..(Len(q) - 1) : Tail(q)[i] = q[i + 1]
           /\ Distinct(Tail(q))
           /\ \A u \in TaskId : Queued(Tail(q), u) <=> Queued(q, u) /\ u # Head(q)
  <1>1. /\ Head(q) \in TaskId /\ Head(q) = q[1]
        /\ Tail(q) \in Seq(TaskId)
        /\ Len(Tail(q)) = Len(q) - 1
        /\ \A i \in 1..(Len(q) - 1) : Tail(q)[i] = q[i + 1]
        /\ Len(q) \in Nat \ {0}
    BY HeadTailProperties, SMT
  <1>2. Queued(q, Head(q))
    BY <1>1, SMT DEF Queued
  <1>3. Distinct(Tail(q))
    BY <1>1, SMT DEF Distinct
  <1>4. ASSUME NEW u \in TaskId
        PROVE  Queued(Tail(q), u) <=> Queued(q, u) /\ u # Head(q)
    <2>1. ASSUME Queued(Tail(q), u)
          PROVE  Queued(q, u) /\ u # Head(q)
      BY <1>1, <2>1, SMT DEF Queued, Distinct
    <2>2. ASSUME Queued(q, u), u # Head(q)
          PROVE  Queued(Tail(q), u)
      <3>1. PICK i \in 1..Len(q) : q[i] = u
        BY <2>2 DEF Queued
      <3>2. i # 1 /\ i - 1 \in 1..(Len(q) - 1) /\ (i - 1) + 1 = i
        BY <1>1, <2>2, <3>1, SMT
      <3> QED
        BY <1>1, <3>1, <3>2 DEF Queued
    <2> QED
      BY <2>1, <2>2
  <1> QED
    BY <1>1, <1>2, <1>3, <1>4

LEMMA WithoutQueue ==
    ASSUME NEW q \in Seq(TaskId), Distinct(q), NEW t \in TaskId
    PROVE  /\ ReadyWithout(q, t) \in Seq(TaskId)
           /\ Distinct(ReadyWithout(q, t))
           /\ \A u \in TaskId :
                 Queued(ReadyWithout(q, t), u) <=> Queued(q, u) /\ u # t
           /\ \A i \in 1..Len(q) : q[i] # t =>
                 \E k \in 1..Len(ReadyWithout(q, t)) :
                     k <= i /\ ReadyWithout(q, t)[k] = q[i]
  <1>1. CASE ~Queued(q, t)
    BY <1>1, SMT DEF ReadyWithout, Queued
  <1>2. CASE Queued(q, t)
    <2>1. PICK m \in 1..Len(q) : q[m] = t
      BY <1>2 DEF Queued
    <2>2. \A k \in 1..Len(q) : k # m => q[k] # t
      BY <2>1 DEF Distinct
    <2> DEFINE First(i) == q[i] = t /\ \A k \in 1..(i - 1) : q[k] # t
               c == CHOOSE i \in 1..Len(q) : First(i)
               w == [k \in 1..(Len(q) - 1) |-> IF k < m THEN q[k] ELSE q[k + 1]]
    <2>3. First(m)
      BY <2>1, <2>2, SMT
    <2>4. c \in 1..Len(q) /\ First(c)
      BY <2>3
    <2>5. c = m
      BY <2>2, <2>4
    <2>6. ReadyWithout(q, t) = w
      BY <1>2, <2>5 DEF ReadyWithout
    <2>7. Len(q) \in Nat \ {0} /\ m \in Nat
      BY <2>1, SMT
    <2>8. /\ w \in Seq(TaskId)
          /\ Len(w) = Len(q) - 1
          /\ \A k \in 1..(Len(q) - 1) : w[k] = IF k < m THEN q[k] ELSE q[k + 1]
      <3>1. \A k \in 1..(Len(q) - 1) : k \in 1..Len(q) /\ k + 1 \in 1..Len(q)
        BY <2>7, SMT
      <3>2. Len(q) - 1 \in Nat
        BY <2>7, SMT
      <3> QED
        BY <3>1, <3>2, SMT
    <2> HIDE DEF w, c, First
    <2>9. Distinct(w)
      <3> SUFFICES ASSUME NEW i \in 1..(Len(q) - 1), NEW j \in 1..(Len(q) - 1),
                          w[i] = w[j]
                   PROVE  i = j
        BY <2>8 DEF Distinct
      <3>1. PICK a \in 1..Len(q) : a = IF i < m THEN i ELSE i + 1
        BY <2>7, SMT
      <3>2. PICK b \in 1..Len(q) : b = IF j < m THEN j ELSE j + 1
        BY <2>7, SMT
      <3>3. w[i] = q[a] /\ w[j] = q[b]
        BY <2>8, <3>1, <3>2
      <3>4. a = b
        BY <3>3 DEF Distinct
      <3> QED
        BY <2>7, <3>1, <3>2, <3>4, SMT
    <2>10. ASSUME NEW i \in 1..Len(q), q[i] # t
           PROVE  \E k \in 1..Len(w) : k <= i /\ w[k] = q[i]
      <3>1. CASE i < m
        <4>1. i \in 1..(Len(q) - 1)
          BY <3>1, SMT
        <4> QED
          BY <2>8, <3>1, <4>1, SMT
      <3>2. CASE i > m
        <4>1. i - 1 \in 1..(Len(q) - 1) /\ ~(i - 1 < m) /\ (i - 1) + 1 = i /\ i - 1 <= i
          BY <3>2, SMT
        <4> QED
          BY <2>8, <4>1
      <3> QED
        BY <2>1, <2>7, <2>10, <3>1, <3>2, SMT
    <2>11. ASSUME NEW k \in 1..(Len(q) - 1)
           PROVE  w[k] # t /\ \E i \in 1..Len(q) : w[k] = q[i]
      <3>1. k \in 1..Len(q) /\ k + 1 \in 1..Len(q)
        BY <2>7, SMT
      <3> QED
        BY <2>2, <2>7, <2>8, <3>1, SMT
    <2>12. \A u \in TaskId : Queued(w, u) <=> Queued(q, u) /\ u # t
      <3> SUFFICES ASSUME NEW u \in TaskId
                   PROVE  Queued(w, u) <=> Queued(q, u) /\ u # t
        OBVIOUS
      <3>1. Queued(w, u) => Queued(q, u) /\ u # t
        BY <2>8, <2>11 DEF Queued
      <3>2. Queued(q, u) /\ u # t => Queued(w, u)
        BY <2>8, <2>10 DEF Queued
      <3> QED
        BY <3>1, <3>2
    <2> QED
      BY <2>6, <2>8, <2>9, <2>10, <2>12
  <1> QED
    BY <1>1, <1>2

-----------------------------------------------------------------------------
(* The inductive invariant.  QueueMatchesStates and NoPanic need to know   *)
(* when there is a current task.                                           *)

CurrentExists ==
    /\ machine = "boot" => current = NoTask
    /\ machine # "boot" => current \in TaskId

SchedIInv == SchedTypeOK /\ QueueMatchesStates /\ NoPanic /\ CurrentExists

USE DEF SchedIInv

\* A queued task is Ready, so it can be switched to from the Running task.
LEMMA HeadMayRun ==
    ASSUME SchedIInv, ready # <<>>
    PROVE  /\ Head(ready) \in TaskId
           /\ state[Head(ready)] = "Ready"
           /\ MaySwitchTo(Head(ready))
  <1>1. Head(ready) \in TaskId /\ Queued(ready, Head(ready))
    BY TailQueue DEF SchedTypeOK, QueueMatchesStates
  <1>2. state[Head(ready)] = "Ready"
    BY <1>1 DEF QueueMatchesStates
  <1>3. Head(ready) # current
    BY <1>1, <1>2 DEF QueueMatchesStates
  <1> QED
    BY <1>1, <1>2, <1>3 DEF MaySwitchTo

LEMMA SchedInitIInv == SchedInit => SchedIInv
  <1> SUFFICES ASSUME SchedInit
               PROVE  SchedIInv
    OBVIOUS
  <1>1. SchedTypeOK
    BY SMT DEF SchedInit, SchedTypeOK, ThreadState
  <1>2. QueueMatchesStates
    BY NoTaskAssumption, SMT DEF SchedInit, QueueMatchesStates, Distinct, Queued
  <1> QED
    BY <1>1, <1>2 DEF SchedInit, NoPanic, CurrentExists

LEMMA AddTaskIInv ==
    ASSUME SchedIInv, NEW t \in TaskId, add_task(t)
    PROVE  SchedIInv'
  <1>1. ~Queued(ready, t) /\ t # current
    BY DEF add_task, FirstFree, QueueMatchesStates
  <1>2. ready \in Seq(TaskId) /\ Distinct(ready)
    BY DEF SchedTypeOK, QueueMatchesStates
  <1>3. ready' = Append(ready, t) /\ machine' = machine
    BY <1>1, <1>2, AppendQueue, RoomForOneMore DEF add_task, Assert
  <1>4. /\ ready' \in Seq(TaskId) /\ Distinct(ready')
        /\ \A u \in TaskId : Queued(ready', u) <=> Queued(ready, u) \/ u = t
    BY <1>1, <1>2, <1>3, AppendQueue
  <1>5. state' = [state EXCEPT ![t] = "Ready"] /\ current' = current
    BY DEF add_task
  <1>6. SchedTypeOK'
    BY <1>3, <1>4, <1>5 DEF SchedTypeOK, ThreadState
  <1>7. QueueMatchesStates'
    BY <1>1, <1>4, <1>5 DEF QueueMatchesStates, SchedTypeOK
  <1> QED
    BY <1>3, <1>5, <1>6, <1>7 DEF NoPanic, CurrentExists

LEMMA StartIInv ==
    ASSUME SchedIInv, start
    PROVE  SchedIInv'
  <1> DEFINE next == Head(ready)
  <1>1. ready # <<>> /\ machine = "boot" /\ current = NoTask
    BY DEF start, CurrentExists
  <1>2. next \in TaskId /\ state[next] = "Ready"
    BY <1>1, HeadMayRun
  <1>3. /\ ready' = Tail(ready) /\ current' = next /\ machine' = "running"
        /\ state' = [state EXCEPT ![next] = "Running"]
    BY <1>2 DEF start
  <1>4. /\ ready' \in Seq(TaskId) /\ Distinct(ready')
        /\ \A u \in TaskId : Queued(ready', u) <=> Queued(ready, u) /\ u # next
    BY <1>1, <1>3, TailQueue DEF SchedTypeOK, QueueMatchesStates
  <1>5. SchedTypeOK'
    BY <1>2, <1>3, <1>4 DEF SchedTypeOK, ThreadState
  <1>6. QueueMatchesStates'
    BY <1>1, <1>2, <1>3, <1>4, NoTaskAssumption DEF QueueMatchesStates, SchedTypeOK
  <1> QED
    BY <1>2, <1>3, <1>5, <1>6 DEF NoPanic, CurrentExists

\* The caller leaves the CPU for good (Dead) or until it is woken (Blocked).
LEMMA LeaveCpuIInv ==
    ASSUME SchedIInv, machine = "running", ready # <<>>, NEW s \in {"Blocked", "Dead"},
           state' = [state EXCEPT ![current] = s, ![Head(ready)] = "Running"],
           ready' = Tail(ready), current' = Head(ready), Assert(MaySwitchTo(Head(ready)))
    PROVE  SchedIInv'
  <1> DEFINE next == Head(ready)
  <1>1. next \in TaskId /\ state[next] = "Ready" /\ next # current /\ machine' = "running"
    BY HeadMayRun DEF MaySwitchTo, Assert
  <1>2. current \in TaskId /\ state[current] = "Running"
    BY DEF CurrentExists, QueueMatchesStates
  <1>3. /\ ready' \in Seq(TaskId) /\ Distinct(ready')
        /\ \A u \in TaskId : Queued(ready', u) <=> Queued(ready, u) /\ u # next
    BY TailQueue DEF SchedTypeOK, QueueMatchesStates
  <1>4. \A u \in TaskId : state'[u] = IF u = next THEN "Running"
                                      ELSE IF u = current THEN s ELSE state[u]
    BY <1>1, <1>2 DEF SchedTypeOK
  <1>5. SchedTypeOK'
    BY <1>1, <1>3 DEF SchedTypeOK, ThreadState
  <1>6. QueueMatchesStates'
    <2>1. \A u \in TaskId : (state'[u] = "Ready") <=> Queued(ready', u)
      BY <1>1, <1>2, <1>3, <1>4 DEF QueueMatchesStates
    <2>2. \A u \in TaskId : (state'[u] = "Running") <=> (current' = u)
      BY <1>1, <1>2, <1>4 DEF QueueMatchesStates
    <2> QED
      BY <1>3, <2>1, <2>2 DEF QueueMatchesStates
  <1> QED
    BY <1>1, <1>5, <1>6 DEF NoPanic, CurrentExists

LEMMA BlockIInv ==
    ASSUME SchedIInv, machine = "running", block_current
    PROVE  SchedIInv'
  <1>1. CASE ready = <<>>
    BY <1>1 DEF block_current, SchedTypeOK, Halted, QueueMatchesStates, NoPanic, CurrentExists
  <1>2. CASE ready # <<>>
    BY <1>2, LeaveCpuIInv DEF block_current
  <1> QED
    BY <1>1, <1>2

LEMMA ExitIInv ==
    ASSUME SchedIInv, machine = "running", exit_current
    PROVE  SchedIInv'
  <1>1. CASE ready = <<>>
    BY <1>1 DEF exit_current, SchedTypeOK, Halted, QueueMatchesStates, NoPanic, CurrentExists
  <1>2. CASE ready # <<>>
    BY <1>2, LeaveCpuIInv DEF exit_current
  <1> QED
    BY <1>1, <1>2

LEMMA YieldIInv ==
    ASSUME SchedIInv, machine = "running", yield_current
    PROVE  SchedIInv'
  <1>1. CASE ready = <<>>
    BY <1>1 DEF yield_current, schedVars, SchedTypeOK, QueueMatchesStates, NoPanic, CurrentExists
  <1>2. CASE ready # <<>>
    <2> DEFINE next == Head(ready)
               rest == Tail(ready)
    <2>1. next \in TaskId /\ state[next] = "Ready" /\ MaySwitchTo(next) /\ next # current
      BY <1>2, HeadMayRun DEF MaySwitchTo
    <2>2. current \in TaskId /\ state[current] = "Running" /\ ~Queued(ready, current)
      BY DEF CurrentExists, QueueMatchesStates
    <2>3. /\ rest \in Seq(TaskId) /\ Distinct(rest)
          /\ \A u \in TaskId : Queued(rest, u) <=> Queued(ready, u) /\ u # next
      BY <1>2, TailQueue DEF SchedTypeOK, QueueMatchesStates
    <2>4. /\ state' = [state EXCEPT ![current] = "Ready", ![next] = "Running"]
          /\ ready' = PushBack(rest, current)
          /\ current' = next
          /\ Assert(~Full(rest) /\ MaySwitchTo(next))
      BY <1>2 DEF yield_current
    <2> HIDE DEF next, rest
    <2>5. ~Queued(rest, current)
      BY <2>2, <2>3
    <2>6. ~Full(rest) /\ ready' = Append(rest, current)
      BY <2>2, <2>3, <2>4, <2>5, RoomForOneMore, AppendQueue
    <2>7. /\ ready' \in Seq(TaskId) /\ Distinct(ready')
          /\ \A u \in TaskId : Queued(ready', u) <=> Queued(rest, u) \/ u = current
      BY <2>2, <2>3, <2>5, <2>6, AppendQueue
    <2>8. machine' = "running"
      BY <2>1, <2>4, <2>6 DEF Assert
    <2>9. \A u \in TaskId : state'[u] = IF u = next THEN "Running"
                                        ELSE IF u = current THEN "Ready" ELSE state[u]
      BY <2>1, <2>2, <2>4 DEF SchedTypeOK
    <2>10. SchedTypeOK'
      BY <2>1, <2>4, <2>7, <2>8 DEF SchedTypeOK, ThreadState
    <2>11. QueueMatchesStates'
      <3>1. \A u \in TaskId : (state'[u] = "Ready") <=> Queued(ready', u)
        BY <2>1, <2>2, <2>3, <2>7, <2>9 DEF QueueMatchesStates
      <3>2. \A u \in TaskId : (state'[u] = "Running") <=> (current' = u)
        BY <2>1, <2>2, <2>4, <2>9 DEF QueueMatchesStates
      <3> QED
        BY <2>7, <3>1, <3>2 DEF QueueMatchesStates
    <2> QED
      BY <2>1, <2>4, <2>8, <2>10, <2>11 DEF NoPanic, CurrentExists
  <1> QED
    BY <1>1, <1>2

LEMMA UnblockIInv ==
    ASSUME SchedIInv, NEW t \in TaskId, unblock(t)
    PROVE  SchedIInv'
  <1>1. CASE state[t] # "Blocked"
    BY <1>1 DEF unblock, schedVars, SchedTypeOK, QueueMatchesStates, NoPanic, CurrentExists
  <1>2. CASE state[t] = "Blocked"
    <2>1. ~Queued(ready, t) /\ t # current
      BY <1>2 DEF QueueMatchesStates
    <2>2. ready \in Seq(TaskId) /\ Distinct(ready)
      BY DEF SchedTypeOK, QueueMatchesStates
    <2>3. ready' = Append(ready, t) /\ machine' = machine
      BY <1>2, <2>1, <2>2, AppendQueue, RoomForOneMore DEF unblock, Assert
    <2>4. /\ ready' \in Seq(TaskId) /\ Distinct(ready')
          /\ \A u \in TaskId : Queued(ready', u) <=> Queued(ready, u) \/ u = t
      BY <2>1, <2>2, <2>3, AppendQueue
    <2>5. state' = [state EXCEPT ![t] = "Ready"] /\ current' = current
      BY <1>2 DEF unblock
    <2>6. SchedTypeOK'
      BY <2>3, <2>4, <2>5 DEF SchedTypeOK, ThreadState
    <2>7. QueueMatchesStates'
      BY <2>1, <2>4, <2>5 DEF QueueMatchesStates, SchedTypeOK
    <2> QED
      BY <2>3, <2>5, <2>6, <2>7 DEF NoPanic, CurrentExists
  <1> QED
    BY <1>1, <1>2

LEMMA RemoveIInv ==
    ASSUME SchedIInv, NEW t \in TaskId, remove_task(t)
    PROVE  SchedIInv'
  <1>1. CASE UNCHANGED schedVars
    BY <1>1 DEF schedVars, SchedTypeOK, QueueMatchesStates, NoPanic, CurrentExists
  <1>2. CASE /\ current # t /\ state[t] # "None"
             /\ state' = [state EXCEPT ![t] = "None"]
             /\ ready' = ReadyWithout(ready, t)
             /\ UNCHANGED <<current, machine>>
    <2>1. /\ ready' \in Seq(TaskId) /\ Distinct(ready')
          /\ \A u \in TaskId : Queued(ready', u) <=> Queued(ready, u) /\ u # t
      BY <1>2, WithoutQueue DEF SchedTypeOK, QueueMatchesStates
    <2>2. SchedTypeOK'
      BY <1>2, <2>1 DEF SchedTypeOK, ThreadState
    <2>3. QueueMatchesStates'
      BY <1>2, <2>1 DEF QueueMatchesStates, SchedTypeOK
    <2> QED
      BY <1>2, <2>2, <2>3 DEF NoPanic, CurrentExists
  <1> QED
    BY <1>1, <1>2 DEF remove_task

LEMMA SchedStepIInv == SchedIInv /\ [SchedNext]_schedVars => SchedIInv'
  <1> SUFFICES ASSUME SchedIInv, [SchedNext]_schedVars
               PROVE  SchedIInv'
    OBVIOUS
  <1>1. CASE Spawn
    BY <1>1, AddTaskIInv DEF Spawn
  <1>2. CASE hcf \/ UNCHANGED schedVars
    BY <1>2 DEF hcf, schedVars, SchedTypeOK, QueueMatchesStates, NoPanic, CurrentExists
  <1> QED
    BY <1>1, <1>2, StartIInv, BlockIInv, ExitIInv, YieldIInv, AddTaskIInv,
       UnblockIInv, RemoveIInv DEF SchedNext

\* The inductive invariant holds in every reachable state of the scheduler.
THEOREM SchedulerInvariant == SchedSpec => []SchedIInv
  BY SchedInitIInv, SchedStepIInv, PTL DEF SchedSpec

\* The ready queue holds the Ready tasks, each once, and the Running task is
\* the current one, whatever calls are made (scheduler.rs, all operations).
THEOREM QueueAlwaysMatchesStates == SchedSpec => []QueueMatchesStates
  BY SchedulerInvariant, PTL

\* No assert!, unwrap or expect of the scheduler can fail: in particular the
\* three assert!(ready.push_back(..)) always find room, for any MAX_TASKS.
THEOREM SchedulerNeverPanics == SchedSpec => []NoPanic
  BY SchedulerInvariant, PTL

-----------------------------------------------------------------------------
(* First come, first served.                                               *)

LEMMA PlaceIs ==
    ASSUME NEW q \in Seq(TaskId), Distinct(q), NEW i \in 1..Len(q)
    PROVE  Place(q, q[i]) = i
  BY DEF Place, Distinct

LEMMA PlaceOfQueued ==
    ASSUME NEW q \in Seq(TaskId), Distinct(q), NEW t \in TaskId, Queued(q, t)
    PROVE  Place(q, t) \in 1..Len(q) /\ q[Place(q, t)] = t
  BY DEF Place, Queued

LEMMA PlaceAfterAppend ==
    ASSUME NEW q \in Seq(TaskId), Distinct(q), NEW t \in TaskId, Queued(q, t),
           NEW u \in TaskId, ~Queued(q, u)
    PROVE  Place(PushBack(q, u), t) = Place(q, t)
  <1>1. PICK i \in 1..Len(q) : q[i] = t
    BY DEF Queued
  <1>2. /\ Append(q, u) \in Seq(TaskId) /\ Distinct(Append(q, u))
        /\ i \in 1..Len(Append(q, u)) /\ Append(q, u)[i] = t
    BY <1>1, AppendQueue, AppendProperties, SMT
  <1>3. PushBack(q, u) = Append(q, u)
    BY AppendQueue
  <1>4. Place(Append(q, u), t) = i /\ Place(q, t) = i
    BY <1>1, <1>2, PlaceIs
  <1> QED
    BY <1>3, <1>4

LEMMA PlaceAfterTail ==
    ASSUME NEW q \in Seq(TaskId), Distinct(q), NEW t \in TaskId, Queued(q, t),
           q # <<>>, t # Head(q)
    PROVE  Place(Tail(q), t) = Place(q, t) - 1 /\ Queued(Tail(q), t)
  <1>1. PICK i \in 1..Len(q) : q[i] = t
    BY DEF Queued
  <1>2. i # 1
    BY <1>1, TailQueue
  <1>3. i - 1 \in 1..(Len(q) - 1) /\ (i - 1) + 1 = i
    BY <1>2, SMT
  <1>4. /\ Tail(q) \in Seq(TaskId) /\ Distinct(Tail(q))
        /\ i - 1 \in 1..Len(Tail(q)) /\ Tail(q)[i - 1] = t
    BY <1>1, <1>3, TailQueue, SMT
  <1>5. Place(q, t) = i /\ Place(Tail(q), t) = i - 1
    BY <1>1, <1>4, PlaceIs
  <1> QED
    BY <1>4, <1>5 DEF Queued

LEMMA PlaceAfterRemove ==
    ASSUME NEW q \in Seq(TaskId), Distinct(q), NEW t \in TaskId, Queued(q, t),
           NEW u \in TaskId, t # u
    PROVE  Place(ReadyWithout(q, u), t) <= Place(q, t)
  <1> DEFINE w == ReadyWithout(q, u)
  <1>1. PICK i \in 1..Len(q) : q[i] = t
    BY DEF Queued
  <1>2. w \in Seq(TaskId) /\ Distinct(w)
    BY WithoutQueue
  <1>3. \A j \in 1..Len(q) : q[j] # u => \E k \in 1..Len(w) : k <= j /\ w[k] = q[j]
    BY WithoutQueue
  <1> HIDE DEF w
  <1>4. PICK k \in 1..Len(w) : k <= i /\ w[k] = t
    BY <1>1, <1>3
  <1>5. Place(q, t) = i /\ Place(w, t) = k
    BY <1>1, <1>2, <1>4, PlaceIs
  <1> QED
    BY <1>4, <1>5 DEF w

\* While a task waits nobody passes it and every switch of the CPU moves it
\* forward (scheduler.rs, push_back and pop_front in every operation).
THEOREM NobodyIsOvertaken == SchedSpec => NoOvertaking
  <1> DEFINE Step == \A t \in TaskId :
                        state[t] = "Ready" /\ state'[t] = "Ready" =>
                            /\ Place(ready', t) <= Place(ready, t)
                            /\ current' # current => Place(ready', t) < Place(ready, t)
  <1>1. SchedIInv /\ SchedNext => Step
    <2> SUFFICES ASSUME SchedIInv, SchedNext, NEW t \in TaskId,
                        state[t] = "Ready", state'[t] = "Ready"
                 PROVE  /\ Place(ready', t) <= Place(ready, t)
                        /\ current' # current => Place(ready', t) < Place(ready, t)
      OBVIOUS
    <2>1. /\ ready \in Seq(TaskId) /\ Distinct(ready) /\ Queued(ready, t)
          /\ Place(ready, t) \in Int /\ t # current
      <3>1. ready \in Seq(TaskId) /\ Distinct(ready) /\ Queued(ready, t) /\ t # current
        BY DEF SchedTypeOK, QueueMatchesStates
      <3> QED
        BY <3>1, PlaceOfQueued, SMT
    <2>2. ASSUME NEW u \in TaskId, ~Queued(ready, u), ready' = PushBack(ready, u),
                 current' = current
          PROVE  /\ Place(ready', t) <= Place(ready, t)
                 /\ current' # current => Place(ready', t) < Place(ready, t)
      <3>1. Place(ready', t) = Place(ready, t)
        BY <2>1, <2>2, PlaceAfterAppend
      <3> QED
        BY <2>1, <2>2, <3>1, SMT
    <2>3. ASSUME NEW u \in TaskId, add_task(u)
          PROVE  /\ Place(ready', t) <= Place(ready, t)
                 /\ current' # current => Place(ready', t) < Place(ready, t)
      BY <2>2, <2>3 DEF add_task, FirstFree, QueueMatchesStates
    <2>4. ASSUME ready # <<>>, t # Head(ready), ready' = Tail(ready)
          PROVE  /\ Place(ready', t) <= Place(ready, t)
                 /\ current' # current => Place(ready', t) < Place(ready, t)
      BY <2>1, <2>4, PlaceAfterTail, SMT
    <2>5. ASSUME ready # <<>>, state'[Head(ready)] = "Running"
          PROVE  t # Head(ready)
      BY <2>5
    <2>6. ASSUME UNCHANGED schedVars
          PROVE  /\ Place(ready', t) <= Place(ready, t)
                 /\ current' # current => Place(ready', t) < Place(ready, t)
      BY <2>1, <2>6, SMT DEF schedVars
    <2>7. CASE Spawn
      BY <2>3, <2>7 DEF Spawn
    <2>8. CASE start
      <3>1. ready # <<>> /\ Head(ready) \in TaskId
        BY <2>8, HeadMayRun DEF start
      <3>2. state'[Head(ready)] = "Running" /\ ready' = Tail(ready)
        BY <2>8, <3>1 DEF start, SchedTypeOK
      <3> QED
        BY <2>4, <2>5, <3>1, <3>2
    <2>9. CASE machine = "running" /\ (block_current \/ exit_current)
      <3>1. CASE ready = <<>>
        BY <2>1, <2>9, <3>1, SMT DEF block_current, exit_current
      <3>2. CASE ready # <<>>
        <4>1. Head(ready) \in TaskId
          BY <3>2, HeadMayRun
        <4>2. state'[Head(ready)] = "Running" /\ ready' = Tail(ready)
          BY <2>9, <3>2, <4>1 DEF block_current, exit_current, SchedTypeOK
        <4> QED
          BY <2>4, <2>5, <3>2, <4>2
      <3> QED
        BY <3>1, <3>2
    <2>10. CASE machine = "running" /\ yield_current
      <3>1. CASE ready = <<>>
        BY <2>6, <2>10, <3>1 DEF yield_current
      <3>2. CASE ready # <<>>
        <4> DEFINE rest == Tail(ready)
        <4>1. Head(ready) \in TaskId /\ current \in TaskId /\ ~Queued(ready, current)
          BY <2>10, <3>2, HeadMayRun DEF CurrentExists, QueueMatchesStates
        <4>2. state'[Head(ready)] = "Running" /\ ready' = PushBack(rest, current)
          BY <2>10, <3>2, <4>1 DEF yield_current, SchedTypeOK
        <4>3. /\ rest \in Seq(TaskId) /\ Distinct(rest) /\ ~Queued(rest, current)
          BY <2>1, <3>2, <4>1, TailQueue
        <4>4. Place(rest, t) = Place(ready, t) - 1 /\ Queued(rest, t)
          BY <2>1, <2>5, <3>2, <4>2, PlaceAfterTail
        <4>5. Place(ready', t) = Place(rest, t)
          BY <4>1, <4>2, <4>3, <4>4, PlaceAfterAppend
        <4> QED
          BY <2>1, <4>4, <4>5, SMT
      <3> QED
        BY <3>1, <3>2
    <2>11. ASSUME NEW u \in TaskId, unblock(u)
           PROVE  /\ Place(ready', t) <= Place(ready, t)
                  /\ current' # current => Place(ready', t) < Place(ready, t)
      BY <2>2, <2>6, <2>11 DEF unblock, QueueMatchesStates
    <2>12. ASSUME NEW u \in TaskId, remove_task(u)
           PROVE  /\ Place(ready', t) <= Place(ready, t)
                  /\ current' # current => Place(ready', t) < Place(ready, t)
      <3>1. CASE UNCHANGED schedVars
        BY <2>6, <3>1
      <3>2. CASE /\ state' = [state EXCEPT ![u] = "None"]
                 /\ ready' = ReadyWithout(ready, u)
                 /\ UNCHANGED <<current, machine>>
        <4>1. t # u
          BY <3>2 DEF SchedTypeOK
        <4> QED
          BY <2>1, <3>2, <4>1, PlaceAfterRemove
      <3> QED
        BY <2>12, <3>1, <3>2 DEF remove_task
    <2>13. CASE hcf
      BY <2>6, <2>13 DEF hcf
    <2> QED
      BY <2>3, <2>7, <2>8, <2>9, <2>10, <2>11, <2>12, <2>13 DEF SchedNext
  <1> QED
    BY <1>1, SchedulerInvariant, PTL DEF SchedSpec, NoOvertaking

-----------------------------------------------------------------------------
(* Message passing over the scheduler.                                     *)

\* Adding a task and removing it again leaves the queue as it was.
LEMMA UndoneQueue ==
    ASSUME NEW q \in Seq(TaskId), Distinct(q), NEW t \in TaskId, ~Queued(q, t)
    PROVE  ReadyWithout(PushBack(q, t), t) = q
  <1> DEFINE a == Append(q, t)
             n == Len(q) + 1
  <1>1. PushBack(q, t) = a /\ Distinct(a) /\ a \in Seq(TaskId)
    BY AppendQueue
  <1>2. /\ Len(a) = n /\ a[n] = t /\ n \in 1..Len(a)
        /\ \A i \in 1..Len(q) : a[i] = q[i]
        /\ Len(q) \in Nat
    BY AppendProperties, SMT
  <1> HIDE DEF a
  <1>3. Queued(a, t)
    BY <1>2 DEF Queued
  <1>4. \A i \in 1..Len(a) : a[i] = t <=> i = n
    BY <1>1, <1>2 DEF Distinct
  <1> DEFINE c == CHOOSE i \in 1..Len(a) :
                      a[i] = t /\ \A k \in 1..(i - 1) : a[k] # t
  <1>5. c = n
    <2>1. \A k \in 1..(n - 1) : a[k] # t
      BY <1>2, <1>4, SMT
    <2>2. \E i \in 1..Len(a) : a[i] = t /\ \A k \in 1..(i - 1) : a[k] # t
      BY <1>2, <2>1
    <2>3. c \in 1..Len(a) /\ a[c] = t
      BY <2>2
    <2> QED
      BY <1>4, <2>3
  <1>6. ReadyWithout(a, t)
            = [k \in 1..(Len(a) - 1) |-> IF k < c THEN a[k] ELSE a[k + 1]]
    BY <1>3 DEF ReadyWithout
  <1> HIDE DEF c
  <1>7. ReadyWithout(a, t) = [k \in 1..Len(q) |-> q[k]]
    BY <1>2, <1>5, <1>6, SMT
  <1> QED
    BY <1>1, <1>7, SMT

-----------------------------------------------------------------------------
(* The system calls use the scheduler as it allows.                        *)

LEMMA StepIsSchedulerStep ==
    ASSUME SchedIInv, [Next]_vars
    PROVE  [SchedNext]_schedVars
  <1>1. CASE Boot
    BY <1>1 DEF Boot, SchedNext
  <1>2. CASE sys_yield \/ sys_exit
    BY <1>2 DEF sys_yield, sys_exit, InUserMode, SchedNext
  <1>3. ASSUME NEW dest \in Destination, NEW data \in Payload, sys_send(dest, data)
        PROVE  [SchedNext]_schedVars
    <2>1. CASE SendBadArgument \/ SendNoSuchTask(dest) \/ MailboxFull(dest)
      BY <2>1 DEF SendBadArgument, SendNoSuchTask, MailboxFull
    <2>2. CASE Enqueue(dest, data)
      BY <1>3, <2>2 DEF sys_send, InUserMode, Enqueue, Exists, SchedNext
    <2> QED
      BY <1>3, <2>1, <2>2 DEF sys_send
  <1>4. CASE sys_recv
    BY <1>4 DEF sys_recv, InUserMode, RecvNullPointer, RecvBlock, FinishRecv, SchedNext
  <1>5. CASE RecvResume
    BY <1>5 DEF RecvResume, FinishRecv
  <1>6. CASE sys_task_create
    <2>1. CASE CreateRefused
      BY <2>1 DEF CreateRefused
    <2>2. CASE CreateAdded
      BY <1>6, <2>2 DEF sys_task_create, InUserMode, CreateAdded, SchedNext
    <2>3. CASE CreateUndone
      <3>1. PICK t \in TaskId : /\ FirstFree(t)
                                /\ ready' = ReadyWithout(PushBack(ready, t), t)
                                /\ Assert(~Full(ready))
        BY <2>3 DEF CreateUndone
      <3>2. ready \in Seq(TaskId) /\ Distinct(ready) /\ ~Queued(ready, t)
        BY <3>1 DEF SchedIInv, SchedTypeOK, QueueMatchesStates, FirstFree
      <3>3. ready' = ready /\ ~Full(ready)
        BY <3>1, <3>2, UndoneQueue, RoomForOneMore
      <3> QED
        BY <2>3, <3>1, <3>3 DEF CreateUndone, Assert, schedVars
    <2> QED
      BY <1>6, <2>1, <2>2, <2>3 DEF sys_task_create
  <1>7. CASE Halt
    BY <1>7 DEF Halt, SchedNext
  <1>8. CASE UNCHANGED vars
    BY <1>8 DEF vars, schedVars
  <1> QED
    BY <1>1, <1>2, <1>3, <1>4, <1>5, <1>6, <1>7, <1>8 DEF Next

\* Every behaviour of the system calls is one of the scheduler, so what is
\* proved of SchedSpec holds of them (table.rs, all calls that reach it).
THEOREM IpcImplementsScheduler == Spec => ImplementsScheduler
  <1>1. Init => SchedInit
    BY DEF Init
  <1>2. SchedIInv /\ [Next]_vars => [SchedNext]_schedVars
    BY StepIsSchedulerStep
  <1>3. SchedIInv /\ [Next]_vars => SchedIInv'
    BY <1>2, SchedStepIInv
  <1>4. Spec => []SchedIInv
    BY <1>1, <1>3, SchedInitIInv, PTL DEF Spec
  <1> QED
    BY <1>1, <1>2, <1>4, PTL DEF Spec, ImplementsScheduler, SchedSpec

-----------------------------------------------------------------------------
(* The inductive invariant of the system calls.  NoLostWakeup and          *)
(* WokenFindsMessage depend on each other; a new task must start with an   *)
(* empty mailbox outside sys_recv; and the kernel halts with an empty      *)
(* ready queue.                                                            *)

EmptySlotsAreClean ==
    \A t \in TaskId : state[t] = "None" => mailbox[t] = <<>> /\ pc[t] = "user"

HaltedWithoutReady == machine \in {"deadlock", "exited"} => ready = <<>>

IpcIInv ==
    /\ TypeOK
    /\ SchedIInv
    /\ NoLostWakeup
    /\ WokenFindsMessage
    /\ EmptySlotsAreClean
    /\ HaltedWithoutReady

\* What giving up the CPU does to the states of the tasks.
LEMMA SwitchEffect ==
    ASSUME SchedIInv, machine = "running", ready # <<>>,
           NEW s \in {"Ready", "Blocked", "Dead"},
           state' = [state EXCEPT ![current] = s, ![Head(ready)] = "Running"]
    PROVE  /\ current \in TaskId /\ state[current] = "Running"
           /\ Head(ready) \in TaskId /\ state[Head(ready)] = "Ready"
           /\ \A t \in TaskId : state'[t] = IF t = Head(ready) THEN "Running"
                                           ELSE IF t = current THEN s ELSE state[t]
  <1>1. /\ Head(ready) \in TaskId /\ state[Head(ready)] = "Ready"
        /\ Head(ready) # current
    BY HeadMayRun DEF MaySwitchTo
  <1>2. current \in TaskId /\ state[current] = "Running"
    BY DEF SchedIInv, CurrentExists, QueueMatchesStates
  <1> QED
    BY <1>1, <1>2 DEF SchedIInv, SchedTypeOK

\* Steps that leave mailboxes, program counters and the sleepers alone.
LEMMA QuietStep ==
    ASSUME IpcIInv, SchedIInv', UNCHANGED <<mailbox, pc>>, reply' = NoReply,
           \A t \in TaskId : state'[t] = "Blocked" => state[t] = "Blocked",
           \A t \in TaskId : state[t] = "Blocked" => state'[t] = "Blocked",
           \A t \in TaskId : state'[t] = "None" => state[t] = "None",
           machine \in Halted => machine' \in Halted, HaltedWithoutReady'
    PROVE  IpcIInv'
  <1>1. TypeOK'
    BY DEF IpcIInv, SchedIInv, TypeOK, NoReply, Reply, Status
  <1>2. NoLostWakeup' /\ WokenFindsMessage' /\ EmptySlotsAreClean'
    BY DEF IpcIInv, NoLostWakeup, WokenFindsMessage, EmptySlotsAreClean
  <1> QED
    BY <1>1, <1>2 DEF IpcIInv

LEMMA IpcInitIInv == Init => IpcIInv
  <1> SUFFICES ASSUME Init
               PROVE  IpcIInv
    OBVIOUS
  <1>1. SchedIInv
    BY SchedInitIInv DEF Init
  <1>2. TypeOK
    BY <1>1, MailboxAssumption, SMT DEF SchedIInv, Init, TypeOK, NoReply, Reply, Status
  <1> QED
    BY <1>1, <1>2 DEF Init, SchedInit, IpcIInv, NoLostWakeup, WokenFindsMessage,
                      EmptySlotsAreClean, HaltedWithoutReady

LEMMA YieldExitIpc ==
    ASSUME IpcIInv, SchedIInv', sys_yield \/ sys_exit
    PROVE  IpcIInv'
  <1>1. machine = "running" /\ pc[current] = "user" /\ SchedIInv
    BY DEF sys_yield, sys_exit, InUserMode, IpcIInv
  <1>2. UNCHANGED <<mailbox, pc>> /\ reply' = NoReply
    BY DEF sys_yield, sys_exit
  <1>3. CASE ready = <<>>
    <2>1. state' = state /\ ready' = ready
      BY <1>3 DEF sys_yield, sys_exit, yield_current, exit_current, schedVars
    <2> QED
      BY <1>1, <1>2, <1>3, <2>1, QuietStep DEF Halted, HaltedWithoutReady
  <1>4. CASE ready # <<>>
    <2>1. PICK s \in {"Ready", "Dead"} :
              state' = [state EXCEPT ![current] = s, ![Head(ready)] = "Running"]
      BY <1>4 DEF sys_yield, sys_exit, yield_current, exit_current
    <2>2. machine' \in {"running", "panic"}
      BY <1>1, <1>4 DEF sys_yield, sys_exit, yield_current, exit_current, Assert
    <2>3. /\ current \in TaskId /\ state[current] = "Running"
          /\ Head(ready) \in TaskId /\ state[Head(ready)] = "Ready"
          /\ \A t \in TaskId : state'[t] = IF t = Head(ready) THEN "Running"
                                          ELSE IF t = current THEN s ELSE state[t]
      BY <1>1, <1>4, <2>1, SwitchEffect
    <2> QED
      BY <1>1, <1>2, <2>2, <2>3, QuietStep DEF Halted, HaltedWithoutReady
  <1> QED
    BY <1>3, <1>4

LEMMA BootIpc ==
    ASSUME IpcIInv, SchedIInv', Boot
    PROVE  IpcIInv'
  <1>1. UNCHANGED <<mailbox, pc>> /\ reply' = NoReply
    BY DEF Boot
  <1>2. machine = "boot" /\ SchedIInv
    BY DEF Boot, Spawn, start, IpcIInv
  <1>3. CASE Spawn
    <2>1. PICK t \in TaskId : add_task(t)
      BY <1>3 DEF Spawn
    <2>2. state[t] = "None" /\ state' = [state EXCEPT ![t] = "Ready"]
      BY <2>1 DEF add_task, FirstFree
    <2>3. machine' \in {"boot", "panic"}
      BY <1>2, <2>1 DEF add_task, Assert
    <2> QED
      BY <1>1, <1>2, <2>2, <2>3, QuietStep DEF Halted, HaltedWithoutReady, SchedIInv, SchedTypeOK
  <1>4. CASE start
    <2>1. ready # <<>> /\ Head(ready) \in TaskId /\ state[Head(ready)] = "Ready"
      BY <1>2, <1>4, HeadMayRun DEF start
    <2>2. state' = [state EXCEPT ![Head(ready)] = "Running"] /\ machine' \in {"running", "panic"}
      BY <1>4 DEF start
    <2> QED
      BY <1>1, <1>2, <2>1, <2>2, QuietStep DEF Halted, HaltedWithoutReady, SchedIInv, SchedTypeOK
  <1> QED
    BY <1>3, <1>4 DEF Boot

LEMMA HaltIpc ==
    ASSUME IpcIInv, SchedIInv', Halt
    PROVE  IpcIInv'
  BY QuietStep DEF Halt, hcf, schedVars, HaltedWithoutReady, IpcIInv

\* A step that only answers a call keeps the invariant.
LEMMA AnswerOnly ==
    ASSUME IpcIInv, UNCHANGED <<schedVars, mailbox, pc>>, reply'.status \in Status
    PROVE  IpcIInv'
  <1>1. UNCHANGED <<current, state, ready, machine>>
    BY DEF schedVars
  <1>2. SchedIInv'
    BY <1>1 DEF IpcIInv, SchedIInv, SchedTypeOK, QueueMatchesStates, NoPanic, CurrentExists
  <1>3. TypeOK'
    BY <1>2 DEF IpcIInv, SchedIInv, TypeOK
  <1> QED
    BY <1>1, <1>2, <1>3 DEF IpcIInv, NoLostWakeup, WokenFindsMessage,
                           EmptySlotsAreClean, HaltedWithoutReady

LEMMA EnqueueIpc ==
    ASSUME IpcIInv, SchedIInv', InUserMode, NEW dest, NEW data \in Payload,
           Enqueue(dest, data)
    PROVE  IpcIInv'
  <1> DEFINE m == [sender |-> current, data |-> data]
  <1>1. /\ dest \in TaskId /\ state[dest] # "None"
        /\ Len(mailbox[dest]) < MAILBOX_CAPACITY
        /\ mailbox' = [mailbox EXCEPT ![dest] = Append(mailbox[dest], m)]
        /\ pc' = pc /\ reply' = Reply("send", current, "Ok", <<>>)
    BY DEF Enqueue, Exists
  <1>2. machine = "running" /\ current \in TaskId /\ m \in Message
    BY DEF InUserMode, IpcIInv, SchedIInv, CurrentExists, Message
  <1> HIDE DEF m
  <1>3. /\ mailbox[dest] \in Seq(Message)
        /\ Append(mailbox[dest], m) \in Seq(Message)
        /\ Append(mailbox[dest], m) # <<>>
        /\ Len(Append(mailbox[dest], m)) = Len(mailbox[dest]) + 1
        /\ Len(mailbox[dest]) \in Nat
    BY <1>1, <1>2, AppendProperties, SMT DEF IpcIInv, TypeOK
  <1>4. \A t \in TaskId : mailbox'[t] = IF t = dest THEN Append(mailbox[dest], m)
                                        ELSE mailbox[t]
    BY <1>1 DEF IpcIInv, TypeOK
  <1>5. TypeOK'
    <2>1. mailbox' \in [TaskId -> Seq(Message)]
      BY <1>1, <1>3 DEF IpcIInv, TypeOK
    <2>2. \A t \in TaskId : Len(mailbox'[t]) <= MAILBOX_CAPACITY
      BY <1>1, <1>3, <1>4, MailboxAssumption, SMT DEF IpcIInv, TypeOK
    <2> QED
      BY <1>1, <2>1, <2>2 DEF IpcIInv, SchedIInv, TypeOK, Reply, Status
  <1>6. /\ \A t \in TaskId : state'[t] = IF t = dest /\ state[dest] = "Blocked"
                                         THEN "Ready" ELSE state[t]
        /\ machine' \in {"running", "panic"}
    <2>1. CASE state[dest] = "Blocked"
      BY <1>1, <1>2, <2>1 DEF Enqueue, unblock, Assert, IpcIInv, SchedIInv, SchedTypeOK
    <2>2. CASE state[dest] # "Blocked"
      BY <1>2, <2>2 DEF Enqueue, schedVars
    <2> QED
      BY <2>1, <2>2
  <1>7. NoLostWakeup'
    BY <1>1, <1>4, <1>6 DEF IpcIInv, NoLostWakeup
  <1>8. WokenFindsMessage'
    BY <1>1, <1>2, <1>3, <1>4, <1>6 DEF IpcIInv, WokenFindsMessage, Halted
  <1>9. EmptySlotsAreClean'
    BY <1>1, <1>4, <1>6 DEF IpcIInv, EmptySlotsAreClean
  <1> QED
    BY <1>5, <1>6, <1>7, <1>8, <1>9 DEF IpcIInv, HaltedWithoutReady

LEMMA SendIpc ==
    ASSUME IpcIInv, SchedIInv', NEW dest \in Destination, NEW data \in Payload,
           sys_send(dest, data)
    PROVE  IpcIInv'
  <1>1. CASE SendBadArgument \/ SendNoSuchTask(dest) \/ MailboxFull(dest)
    BY <1>1, AnswerOnly, SMT DEF SendBadArgument, SendNoSuchTask, MailboxFull, Reply, Status
  <1> QED
    BY <1>1, EnqueueIpc DEF sys_send

LEMMA FinishRecvIpc ==
    ASSUME IpcIInv, SchedIInv', machine = "running", mailbox[current] # <<>>, FinishRecv
    PROVE  IpcIInv'
  <1>1. /\ UNCHANGED <<current, state, ready, machine>>
        /\ pc' = [pc EXCEPT ![current] = "user"]
    BY DEF FinishRecv, schedVars
  <1>2. current \in TaskId /\ state[current] = "Running"
    BY DEF IpcIInv, SchedIInv, CurrentExists, QueueMatchesStates
  <1>3. /\ mailbox[current] \in Seq(Message)
        /\ Tail(mailbox[current]) \in Seq(Message)
        /\ Len(Tail(mailbox[current])) = Len(mailbox[current]) - 1
        /\ Len(mailbox[current]) \in Nat
    BY <1>2, HeadTailProperties, SMT DEF IpcIInv, TypeOK
  <1>4. \/ mailbox' = mailbox
        \/ mailbox' = [mailbox EXCEPT ![current] = Tail(mailbox[current])]
    BY DEF FinishRecv
  <1>5. reply'.status \in Status
    BY SMT DEF FinishRecv, Reply, Status
  <1>6. TypeOK'
    <2>1. mailbox' \in [TaskId -> Seq(Message)]
      BY <1>3, <1>4 DEF IpcIInv, TypeOK
    <2>2. \A t \in TaskId : Len(mailbox'[t]) <= MAILBOX_CAPACITY
      <3>1. \A t \in TaskId : mailbox'[t] \in {mailbox[t], Tail(mailbox[current])}
        BY <1>4 DEF IpcIInv, TypeOK
      <3>2. /\ \A t \in TaskId : Len(mailbox[t]) <= MAILBOX_CAPACITY
            /\ Len(mailbox[current]) <= MAILBOX_CAPACITY
        BY <1>2 DEF IpcIInv, TypeOK
      <3>3. Len(Tail(mailbox[current])) <= MAILBOX_CAPACITY
        BY <1>3, <3>2, MailboxAssumption, SMT
      <3> QED
        BY <3>1, <3>2, <3>3
    <2>3. pc' \in [TaskId -> {"user", "recv"}]
      BY <1>1 DEF IpcIInv, TypeOK
    <2> QED
      BY <1>5, <2>1, <2>2, <2>3 DEF SchedIInv, TypeOK
  <1>7. \A t \in TaskId : t # current => mailbox'[t] = mailbox[t] /\ pc'[t] = pc[t]
    BY <1>1, <1>2, <1>4 DEF IpcIInv, TypeOK
  <1>8. pc'[current] = "user"
    BY <1>1, <1>2 DEF IpcIInv, TypeOK
  <1>9. NoLostWakeup' /\ WokenFindsMessage' /\ EmptySlotsAreClean' /\ HaltedWithoutReady'
    BY <1>1, <1>2, <1>7, <1>8 DEF IpcIInv, NoLostWakeup, WokenFindsMessage,
                                  EmptySlotsAreClean, HaltedWithoutReady
  <1> QED
    BY <1>6, <1>9 DEF IpcIInv

LEMMA RecvBlockIpc ==
    ASSUME IpcIInv, SchedIInv', InUserMode, RecvBlock
    PROVE  IpcIInv'
  <1>1. /\ mailbox[current] = <<>> /\ mailbox' = mailbox /\ reply' = NoReply
        /\ pc' = [pc EXCEPT ![current] = "recv"] /\ block_current
    BY DEF RecvBlock
  <1>2. machine = "running" /\ current \in TaskId /\ state[current] = "Running" /\ SchedIInv
    BY DEF InUserMode, IpcIInv, SchedIInv, CurrentExists, QueueMatchesStates
  <1>3. TypeOK'
    BY <1>1 DEF IpcIInv, SchedIInv, TypeOK, NoReply, Reply, Status
  <1>4. \A t \in TaskId : pc'[t] = IF t = current THEN "recv" ELSE pc[t]
    BY <1>1, <1>2 DEF IpcIInv, TypeOK
  <1>5. CASE ready = <<>>
    <2>1. machine' = "deadlock" /\ UNCHANGED <<current, state, ready>>
      BY <1>1, <1>5 DEF block_current
    <2> QED
      BY <1>1, <1>2, <1>3, <1>4, <1>5, <2>1 DEF IpcIInv, NoLostWakeup, WokenFindsMessage,
             Halted, EmptySlotsAreClean, HaltedWithoutReady
  <1>6. CASE ready # <<>>
    <2>1. /\ state' = [state EXCEPT ![current] = "Blocked", ![Head(ready)] = "Running"]
          /\ machine' \in {"running", "panic"}
      BY <1>1, <1>2, <1>6 DEF block_current, Assert
    <2>2. /\ Head(ready) \in TaskId /\ state[Head(ready)] = "Ready"
          /\ \A t \in TaskId : state'[t] = IF t = Head(ready) THEN "Running"
                                          ELSE IF t = current THEN "Blocked" ELSE state[t]
      BY <1>2, <1>6, <2>1, SwitchEffect
    <2>3. NoLostWakeup'
      BY <1>1, <1>4, <2>2 DEF IpcIInv, NoLostWakeup
    <2>4. WokenFindsMessage'
      BY <1>1, <1>2, <1>4, <2>2 DEF IpcIInv, WokenFindsMessage, Halted
    <2>5. EmptySlotsAreClean'
      BY <1>1, <1>4, <2>2 DEF IpcIInv, EmptySlotsAreClean
    <2>6. HaltedWithoutReady'
      BY <2>1 DEF HaltedWithoutReady
    <2> QED
      BY <1>3, <2>3, <2>4, <2>5, <2>6 DEF IpcIInv
  <1> QED
    BY <1>5, <1>6

LEMMA RecvIpc ==
    ASSUME IpcIInv, SchedIInv', sys_recv \/ RecvResume
    PROVE  IpcIInv'
  <1>1. CASE sys_recv /\ RecvNullPointer
    BY <1>1, AnswerOnly DEF RecvNullPointer, Reply, Status
  <1>2. CASE RecvResume
    <2>1. machine = "running" /\ pc[current] = "recv" /\ FinishRecv
      BY <1>2 DEF RecvResume
    <2>2. mailbox[current] # <<>>
      BY <2>1 DEF IpcIInv, SchedIInv, CurrentExists, QueueMatchesStates,
                  WokenFindsMessage, Halted
    <2> QED
      BY <2>1, <2>2, FinishRecvIpc
  <1> QED
    BY <1>1, <1>2, RecvBlockIpc, FinishRecvIpc DEF sys_recv, InUserMode

\* A new task starts with an empty mailbox, which its empty slot already had.
LEMMA AddedSlotWasClean ==
    ASSUME IpcIInv, CreateAdded
    PROVE  /\ mailbox' = mailbox /\ pc' = pc
           /\ \E t \in TaskId : /\ add_task(t) /\ state[t] = "None"
                               /\ state' = [state EXCEPT ![t] = "Ready"]
  <1>1. PICK t \in TaskId : add_task(t) /\ mailbox' = [mailbox EXCEPT ![t] = <<>>]
    BY DEF CreateAdded
  <1>2. state[t] = "None" /\ state' = [state EXCEPT ![t] = "Ready"]
    BY <1>1 DEF add_task, FirstFree
  <1>3. mailbox[t] = <<>>
    BY <1>2 DEF IpcIInv, EmptySlotsAreClean
  <1>4. mailbox' = mailbox
    BY <1>1, <1>3 DEF IpcIInv, TypeOK
  <1> QED
    BY <1>1, <1>2, <1>4 DEF CreateAdded

LEMMA CreateIpc ==
    ASSUME IpcIInv, SchedIInv', sys_task_create
    PROVE  IpcIInv'
  <1>1. machine = "running" /\ reply' = NoReply
    BY DEF sys_task_create, InUserMode
  <1>2. CASE CreateRefused
    BY <1>1, <1>2, AnswerOnly DEF CreateRefused, NoReply, Reply, Status
  <1>3. CASE CreateAdded
    <2>1. PICK t \in TaskId : /\ add_task(t) /\ state[t] = "None"
                             /\ state' = [state EXCEPT ![t] = "Ready"]
      BY <1>3, AddedSlotWasClean
    <2>2. UNCHANGED <<mailbox, pc>>
      BY <1>3, AddedSlotWasClean
    <2>3. machine' \in {"running", "panic"}
      BY <1>1, <2>1 DEF add_task, Assert
    <2> QED
      BY <1>1, <2>1, <2>2, <2>3, QuietStep
         DEF Halted, HaltedWithoutReady, IpcIInv, SchedIInv, SchedTypeOK
  <1>4. CASE CreateUndone
    <2>1. UNCHANGED <<state, mailbox, pc>> /\ machine' \in {"running", "panic"}
      BY <1>1, <1>4 DEF CreateUndone, Assert
    <2> QED
      BY <1>1, <2>1, QuietStep DEF Halted, HaltedWithoutReady
  <1> QED
    BY <1>2, <1>3, <1>4 DEF sys_task_create

LEMMA IpcStepIInv == IpcIInv /\ [Next]_vars => IpcIInv'
  <1> SUFFICES ASSUME IpcIInv, [Next]_vars
               PROVE  IpcIInv'
    OBVIOUS
  <1>1. SchedIInv'
    BY StepIsSchedulerStep, SchedStepIInv DEF IpcIInv
  <1>2. CASE UNCHANGED vars
    BY <1>2, AnswerOnly DEF vars, schedVars, IpcIInv, TypeOK
  <1> QED
    BY <1>1, <1>2, BootIpc, YieldExitIpc, SendIpc, RecvIpc, CreateIpc, HaltIpc DEF Next

LEMMA IpcInvariant == Spec => []IpcIInv
  BY IpcInitIInv, IpcStepIInv, PTL DEF Spec

-----------------------------------------------------------------------------
(* What follows for the system calls.                                      *)

\* No mailbox exceeds its capacity, and every part of the state is of its
\* type (tcb.rs, Mailbox::push; table.rs, sys_send).
THEOREM IpcTypeInvariant == Spec => []TypeOK
  BY IpcInvariant, PTL DEF IpcIInv

\* A task asleep in sys_recv has an empty mailbox: the test of the mailbox and
\* block_current cannot be separated by a send (table.rs, sys_recv, sys_send).
THEOREM NoWakeupIsLost == Spec => []NoLostWakeup
  BY IpcInvariant, PTL DEF IpcIInv

\* A task woken inside sys_recv always finds the message it was woken for
\* (table.rs, sys_recv after block_current).
THEOREM WokenReceiverFindsMessage == Spec => []WokenFindsMessage
  BY IpcInvariant, PTL DEF IpcIInv

\* block_current and exit_current stop the machine only when no other task
\* could ever run (scheduler.rs, block_current, exit_current).
THEOREM KernelHaltsQuiescent == Spec => []HaltIsQuiescent
  <1>1. IpcIInv => HaltIsQuiescent
    <2> SUFFICES ASSUME IpcIInv, machine \in {"deadlock", "exited"},
                        NEW t \in TaskId \ {current}
                 PROVE  \/ state[t] \in {"None", "Dead"}
                        \/ state[t] = "Blocked" /\ mailbox[t] = <<>>
      BY DEF HaltIsQuiescent
    <2>1. ~Queued(ready, t)
      BY SMT DEF IpcIInv, HaltedWithoutReady, Queued
    <2>2. state[t] \notin {"Ready", "Running"} /\ state[t] \in ThreadState
      BY <2>1 DEF IpcIInv, SchedIInv, SchedTypeOK, QueueMatchesStates
    <2> QED
      BY <2>2 DEF IpcIInv, NoLostWakeup, ThreadState
  <1> QED
    BY <1>1, IpcInvariant, PTL

-----------------------------------------------------------------------------
(* Task identifiers.                                                       *)

LEMMA StatesOnlyMoveOn ==
    ASSUME IpcIInv, [Next]_vars, NEW t \in TaskId
    PROVE  /\ state[t] # "None" => state'[t] # "None"
           /\ state[t] = "Dead" => state'[t] = "Dead"
  <1> DEFINE Moves == /\ state[t] # "None" => state'[t] # "None"
                      /\ state[t] = "Dead" => state'[t] = "Dead"
  <1>1. SchedIInv
    BY DEF IpcIInv
  <1>2. ASSUME machine = "running", block_current \/ yield_current \/ exit_current
        PROVE  Moves
    <2>1. CASE ready = <<>>
      BY <1>2, <2>1 DEF block_current, yield_current, exit_current, schedVars
    <2>2. CASE ready # <<>>
      <3>1. PICK s \in {"Ready", "Blocked", "Dead"} :
                state' = [state EXCEPT ![current] = s, ![Head(ready)] = "Running"]
        BY <1>2, <2>2 DEF block_current, yield_current, exit_current
      <3> QED
        BY <1>1, <1>2, <2>2, <3>1, SwitchEffect
    <2> QED
      BY <2>1, <2>2
  <1>3. ASSUME NEW u \in TaskId, add_task(u) \/ unblock(u)
        PROVE  Moves
    BY <1>1, <1>3 DEF add_task, FirstFree, unblock, schedVars, SchedIInv, SchedTypeOK
  <1>4. CASE start
    BY <1>1, <1>4, HeadMayRun DEF start, SchedIInv, SchedTypeOK
  <1>5. CASE state' = state
    BY <1>5
  <1>6. CASE Boot
    BY <1>3, <1>4, <1>6 DEF Boot, Spawn
  <1>7. CASE sys_yield \/ sys_exit
    BY <1>2, <1>7 DEF sys_yield, sys_exit, InUserMode
  <1>8. ASSUME NEW dest \in Destination, NEW data \in Payload, sys_send(dest, data)
        PROVE  Moves
    <2>1. CASE Enqueue(dest, data)
      BY <1>3, <1>5, <2>1 DEF Enqueue, Exists, schedVars
    <2> QED
      BY <1>5, <1>8, <2>1
         DEF sys_send, SendBadArgument, SendNoSuchTask, MailboxFull, schedVars
  <1>9. CASE sys_recv \/ RecvResume
    BY <1>2, <1>5, <1>9
       DEF sys_recv, RecvResume, InUserMode, RecvNullPointer, RecvBlock, FinishRecv, schedVars
  <1>10. CASE sys_task_create
    BY <1>3, <1>5, <1>10
       DEF sys_task_create, CreateRefused, CreateAdded, CreateUndone, schedVars
  <1>11. CASE Halt \/ UNCHANGED vars
    BY <1>5, <1>11 DEF Halt, hcf, schedVars, vars
  <1> QED
    BY <1>6, <1>7, <1>8, <1>9, <1>10, <1>11 DEF Next

\* No slot is given to a second task and no dead task comes back: remove_task
\* is only reached for a task that sys_task_create has just added
\* (table.rs, sys_task_create; scheduler.rs, add_task, exit_current).
THEOREM TaskIdentifiersAreUnique == Spec => IdentifiersNeverReused
  <1>1. IpcIInv /\ IpcIInv' /\ [Next]_vars =>
            [\A t \in TaskId :
                /\ state[t] # "None" => state'[t] # "None"
                /\ state[t] = "Dead" => state'[t] = "Dead" /\ ~Queued(ready', t)]_vars
    <2> SUFFICES ASSUME IpcIInv, IpcIInv', [Next]_vars, NEW t \in TaskId
                 PROVE  /\ state[t] # "None" => state'[t] # "None"
                        /\ state[t] = "Dead" => state'[t] = "Dead" /\ ~Queued(ready', t)
      OBVIOUS
    <2>1. (state'[t] = "Ready") <=> Queued(ready', t)
      BY DEF IpcIInv, SchedIInv, QueueMatchesStates
    <2> QED
      BY <2>1, StatesOnlyMoveOn
  <1> QED
    BY <1>1, IpcInvariant, PTL DEF Spec, IdentifiersNeverReused

-----------------------------------------------------------------------------
(* Message passing implements the inboxes.                                 *)

USE DEF Abstract!NoReply, NoReply, Abstract!Reply, Reply

LEMMA QuietIsOther ==
    ASSUME mailbox' = mailbox, reply' = NoReply
    PROVE  Abstract!Next
  BY DEF Abstract!Next, Abstract!Other

LEMMA SendIsAbstract ==
    ASSUME IpcIInv, NEW dest \in Destination, NEW data \in Payload, sys_send(dest, data)
    PROVE  Abstract!Next
  <1>1. current \in TaskId
    BY DEF sys_send, InUserMode, IpcIInv, SchedIInv, CurrentExists
  <1>2. CASE SendBadArgument \/ SendNoSuchTask(dest) \/ MailboxFull(dest)
    <2>1. Abstract!RefuseSend(current)
      BY <1>2 DEF SendBadArgument, SendNoSuchTask, MailboxFull, Exists, Abstract!RefuseSend
    <2> QED
      BY <1>1, <2>1 DEF Abstract!Next
  <1>3. CASE Enqueue(dest, data)
    <2>1. dest \in TaskId /\ Abstract!Accept(current, dest, data)
      BY <1>3 DEF Enqueue, Exists, Abstract!Accept
    <2> QED
      BY <1>1, <2>1 DEF Abstract!Next
  <1> QED
    BY <1>2, <1>3 DEF sys_send

LEMMA RecvIsAbstract ==
    ASSUME IpcIInv, sys_recv \/ RecvResume
    PROVE  Abstract!Next
  <1>1. machine = "running" /\ current \in TaskId /\ state[current] = "Running"
    BY DEF sys_recv, RecvResume, InUserMode, IpcIInv, SchedIInv, CurrentExists,
           QueueMatchesStates
  <1>2. CASE RecvNullPointer
    <2>1. Abstract!RefuseReceive(current)
      BY <1>2 DEF RecvNullPointer, Abstract!RefuseReceive
    <2> QED
      BY <1>1, <2>1 DEF Abstract!Next
  <1>3. CASE RecvBlock
    BY <1>3, QuietIsOther DEF RecvBlock
  <1>4. ASSUME mailbox[current] # <<>>, FinishRecv
        PROVE  Abstract!Next
    <2>1. Abstract!RefuseReceive(current) \/ Abstract!HandOut(current)
      BY <1>4 DEF FinishRecv, Abstract!RefuseReceive, Abstract!HandOut
    <2> QED
      BY <1>1, <2>1 DEF Abstract!Next
  <1>5. CASE RecvResume
    <2>1. mailbox[current] # <<>>
      BY <1>1, <1>5 DEF RecvResume, IpcIInv, WokenFindsMessage, Halted
    <2> QED
      BY <1>4, <1>5, <2>1 DEF RecvResume
  <1> QED
    BY <1>2, <1>3, <1>4, <1>5 DEF sys_recv

LEMMA StepIsAbstract == IpcIInv /\ [Next]_vars => [Abstract!Next]_(Abstract!vars)
  <1> SUFFICES ASSUME IpcIInv, [Next]_vars
               PROVE  [Abstract!Next]_(Abstract!vars)
    OBVIOUS
  <1>1. CASE Boot \/ sys_yield \/ sys_exit \/ Halt
    BY <1>1, QuietIsOther DEF Boot, sys_yield, sys_exit, Halt
  <1>2. CASE sys_task_create
    BY <1>2, QuietIsOther, AddedSlotWasClean
       DEF sys_task_create, CreateRefused, CreateUndone
  <1>3. CASE UNCHANGED vars
    BY <1>3 DEF vars, Abstract!vars
  <1> QED
    BY <1>1, <1>2, <1>3, SendIsAbstract, RecvIsAbstract DEF Next

\* Every behaviour of the system calls, seen through mailboxes and replies, is
\* one of module Inboxes: nothing is lost, duplicated, reordered or delivered
\* to somebody else, and a failing call has no effect on any mailbox
\* (table.rs, sys_send, sys_recv).
THEOREM IpcImplementsInboxes == Spec => ImplementsInboxes
  <1>1. Init => Abstract!Init
    BY DEF Init, Abstract!Init
  <1> QED
    BY <1>1, StepIsAbstract, IpcInvariant, PTL DEF Spec, ImplementsInboxes, Abstract!Spec
==============================================================================
