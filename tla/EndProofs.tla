------------------------------ MODULE EndProofs ------------------------------
(***************************************************************************)
(* How the machine ends, for all page sizes, stacks and address spaces,    *)
(* all archives and all images: with the conversation of the three         *)
(* programs, or with a reason.                                             *)
(***************************************************************************)
EXTENDS LoaderProofs

\* Steps that need arithmetic, or that Zenon does not find, name SMT.
USE Zenon

-----------------------------------------------------------------------------
(* How the machine ends: the three programs, one scene after the other.    *)

\* A task's state, whether it is inside sys_recv, its place and its messages.
Task(t, s, p, a, m) == state[t] = s /\ pc[t] = p /\ at[t] = a /\ mailbox[t] = m

Fresh(t) == Task(t, "None", "user", "start", <<>>)
Waiting(t) == Task(t, "Ready", "user", "start", <<>>)
Asleep(t, a) == Task(t, "Blocked", "recv", a, <<>>)

\* omega3 and client have ended as o and c say, nobody else has.
Exits(o, c) == [t \in TaskId |-> IF t = omega3 THEN o ELSE IF t = client THEN c ELSE "none"]

From(t) == [sender |-> t, data |-> Hello]

\* The conversation, after omega3 has created both programs and is gone.
Scene(now, queue) == machine = "running" /\ current = now /\ ready = queue

EchoStarts == Scene(echo, <<client>>) /\ Task(echo, "Running", "user", "start", <<>>) /\ Waiting(client)
ClientStarts == Scene(client, <<>>) /\ Asleep(echo, "start") /\ Task(client, "Running", "user", "start", <<>>)
ClientSent ==
    /\ Scene(client, <<echo>>) /\ Task(echo, "Ready", "recv", "start", <<From(client)>>)
    /\ Task(client, "Running", "user", "receive", <<>>)
EchoWoken ==
    Scene(echo, <<>>) /\ Task(echo, "Running", "recv", "start", <<From(client)>>) /\ Asleep(client, "receive")
EchoAnswers ==
    /\ Scene(echo, <<>>) /\ Task(echo, "Running", "user", "answer", <<>>) /\ out[echo] = <<From(client)>>
    /\ Asleep(client, "receive")
EchoAnswered ==
    /\ Scene(echo, <<client>>) /\ Task(echo, "Running", "user", "start", <<>>)
    /\ Task(client, "Ready", "recv", "receive", <<From(echo)>>)
ClientWoken ==
    Scene(client, <<>>) /\ Asleep(echo, "start") /\ Task(client, "Running", "recv", "receive", <<From(echo)>>)
ClientDone ==
    /\ Scene(client, <<>>) /\ Asleep(echo, "start") /\ Task(client, "Running", "user", "exit", <<>>)
    /\ out[client] = <<From(echo)>>
ClientGone == machine = "exited" /\ Asleep(echo, "start") /\ out[client] = <<From(echo)>>

Talking ==
    /\ cause = "none"
    /\ \/ /\ exit = Exits("BadSystemCall", "none")
          /\ \/ EchoStarts \/ ClientStarts \/ ClientSent \/ EchoWoken
             \/ EchoAnswers \/ EchoAnswered \/ ClientWoken \/ ClientDone
       \/ exit = Exits("BadSystemCall", "0") /\ ClientGone

\* Every task has an entry in every table.
Domains ==
    /\ DOMAIN state = TaskId /\ DOMAIN pc = TaskId /\ DOMAIN mailbox = TaskId
    /\ DOMAIN at = TaskId /\ DOMAIN out = TaskId

LEMMA Programs ==
    /\ omega3 \in TaskId /\ echo \in TaskId /\ client \in TaskId
    /\ omega3 # echo /\ omega3 # client /\ echo # client
    /\ NoTask # omega3 /\ NoTask # echo /\ NoTask # client
  <1>1. omega3 \in TaskId /\ echo \in TaskId /\ client \in TaskId
    BY ThreePrograms
  <1>2. omega3 # echo /\ omega3 # client /\ echo # client
    BY SMT DEF omega3, echo, client
  <1> QED
    BY <1>1, <1>2, NoTaskAssumption

\* Short queues have room: there are slots for all three programs.
LEMMA Room == ~Full(<<>>) /\ \A t : ~Full(<<t>>)
  <1>1. MAX_TASKS \in Nat /\ 2 \in 0..(MAX_TASKS - 1)
    BY MaxTasksAssumption, ThreePrograms DEF TaskId, client
  <1>2. Len(<<>>) = 0 /\ \A t : Len(<<t>>) = 1
    BY SMT
  <1>3. 0 # MAX_TASKS /\ 1 # MAX_TASKS
    BY <1>1, SMT
  <1> QED
    BY <1>2, <1>3 DEF Full

LEMMA OneQueued == ASSUME NEW t PROVE <<t>> # <<>> /\ Head(<<t>>) = t /\ Tail(<<t>>) = <<>> /\ Append(<<>>, t) = <<t>>
  BY SMT

\* sys_recv without a message: t sleeps and the only task that waits runs.
LEMMA FallsAsleep ==
    ASSUME Domains, NEW t \in TaskId, NEW u \in TaskId, t # u, NEW place, NEW next,
           Scene(t, <<u>>), Task(t, "Running", "user", place, <<>>), state[u] = "Ready",
           Receive(t, place, next)
    PROVE  /\ Scene(u, <<>>)' /\ Asleep(t, place)' /\ state'[u] = "Running"
           /\ pc'[u] = pc[u] /\ Domains'
           /\ UNCHANGED <<mailbox, at, out, bootVars, archive, loader, handles, exit, cause>>
  <1>1. RecvBlock
    BY DEF Receive, RecvResume, Scene, Task
  <1>2. Head(ready) = u /\ Tail(ready) = <<>> /\ ready # <<>> /\ current = t
    BY OneQueued DEF Scene
  <1>3. /\ state' = [state EXCEPT ![t] = "Blocked", ![u] = "Running"] /\ ready' = <<>> /\ current' = u
        /\ Assert(MaySwitchTo(u)) /\ pc' = [pc EXCEPT ![t] = "recv"] /\ reply' = NoReply /\ UNCHANGED mailbox
    BY <1>1, <1>2 DEF RecvBlock, block_current
  <1>4. machine' = "running"
    BY <1>2, <1>3 DEF Assert, MaySwitchTo, Scene
  <1>5. UNCHANGED <<at, out, bootVars, archive, loader, handles, exit, cause>>
    BY <1>3 DEF Receive
  <1> QED
    BY <1>3, <1>4, <1>5 DEF Scene, Asleep, Task, Domains

\* sys_recv goes on with a message: t has it and is at the next place.
LEMMA TakesMessage ==
    ASSUME Domains, NEW t \in TaskId, NEW place, NEW next, NEW m, NEW queue,
           Scene(t, queue), Task(t, "Running", "recv", place, <<m>>), Receive(t, place, next)
    PROVE  /\ Scene(t, queue)' /\ Task(t, "Running", "user", next, <<>>)' /\ out'[t] = <<m>> /\ Domains'
           /\ \A u \in TaskId \ {t} : /\ state'[u] = state[u] /\ pc'[u] = pc[u] /\ at'[u] = at[u]
                                     /\ mailbox'[u] = mailbox[u]
           /\ UNCHANGED <<bootVars, archive, loader, handles, exit, cause>>
  <1>1. FinishRecv /\ current = t /\ machine = "running" /\ ready = queue
    BY DEF Receive, RecvResume, InUserMode, Scene, Task
  <1>2. mailbox[t] = <<m>> /\ <<m>> # <<>> /\ Head(<<m>>) = m /\ Tail(<<m>>) = <<>>
    BY OneQueued DEF Task
  <1>3. reply'.status \notin {"InvalidArgument", "BadAddress"}
    BY DEF Receive
  <1>4. ~\E status \in {"InvalidArgument", "BadAddress"} : reply' = Reply("recv", current, status, <<>>)
    BY <1>3, SMT DEF Reply
  <1>5. /\ mailbox' = [mailbox EXCEPT ![t] = IF @ = <<>> THEN @ ELSE Tail(@)]
        /\ reply' = IF mailbox[t] = <<>> THEN Reply("recv", t, "NoSuchTask", <<>>)
                    ELSE Reply("recv", t, "Ok", <<Head(mailbox[t])>>)
        /\ pc' = [pc EXCEPT ![t] = "user"] /\ UNCHANGED schedVars
    BY <1>1, <1>4 DEF FinishRecv
  <1>6. mailbox' = [mailbox EXCEPT ![t] = <<>>] /\ reply' = Reply("recv", t, "Ok", <<m>>)
    BY <1>2, <1>5
  <1>7. reply'.status = "Ok" /\ reply'.msg = <<m>> /\ reply'.call = "recv"
    BY <1>6 DEF Reply
  <1>8. reply' # NoReply
    BY <1>7, SMT DEF NoReply, Reply
  <1>9. at' = [at EXCEPT ![t] = next] /\ out' = [out EXCEPT ![t] = <<m>>]
        /\ UNCHANGED <<bootVars, archive, loader, handles, exit, cause>>
    BY <1>7, <1>8 DEF Receive, Goto
  <1> QED
    BY <1>1, <1>5, <1>6, <1>9 DEF Scene, Task, Domains, schedVars

\* sys_send to a task that sleeps: it has the message and waits for the CPU.
LEMMA WakesReceiver ==
    ASSUME Domains, NEW t \in TaskId, NEW u \in TaskId, t # u, NEW place, NEW next, NEW data, NEW a,
           Scene(t, <<>>), Task(t, "Running", "user", place, <<>>), Asleep(u, a),
           SendTo(t, place, u, data, next)
    PROVE  /\ Scene(t, <<u>>)' /\ Task(t, "Running", "user", next, <<>>)' /\ Domains'
           /\ Task(u, "Ready", "recv", a, <<[sender |-> t, data |-> data]>>)'
           /\ UNCHANGED <<bootVars, archive, loader, handles, exit, out, cause>>
  <1>1. Exists(u) /\ Len(mailbox[u]) = 0 /\ mailbox[u] = <<>> /\ state[u] = "Blocked"
    <2>1. Len(<<>>) = 0
      BY SMT
    <2> QED
      BY <2>1 DEF Exists, Asleep, Task
  <1>2. 0 # MAILBOX_CAPACITY
    BY MailboxAssumption, SMT
  <1>3. Enqueue(u, data)
    BY <1>1, <1>2 DEF SendTo, SendNoSuchTask, MailboxFull
  <1>4. /\ mailbox' = [mailbox EXCEPT ![u] = Append(@, [sender |-> t, data |-> data])]
        /\ unblock(u) /\ reply' = Reply("send", t, "Ok", <<>>) /\ UNCHANGED pc
    BY <1>1, <1>3 DEF Enqueue, Scene
  <1>5. mailbox' = [mailbox EXCEPT ![u] = <<[sender |-> t, data |-> data]>>]
    BY <1>1, <1>4, OneQueued
  <1>6. state' = [state EXCEPT ![u] = "Ready"] /\ ready' = <<u>> /\ machine' = "running" /\ UNCHANGED current
    BY <1>1, <1>4, Room, OneQueued DEF unblock, PushBack, Assert, Scene
  <1>7. reply'.status = "Ok"
    BY <1>4 DEF Reply
  <1>8. at' = [at EXCEPT ![t] = next] /\ UNCHANGED <<bootVars, archive, loader, handles, exit, out, cause>>
    BY <1>7 DEF SendTo, Goto
  <1> QED
    BY <1>4, <1>5, <1>6, <1>8 DEF Scene, Task, Asleep, Domains

\* What the scenes are about; the devices and the answers of system calls are not.
storyVars == <<step, current, state, ready, machine, mailbox, pc, archive, loader, handles, at, exit, out, cause>>

LEMMA DevicesAreQuiet ==
    ASSUME Hardware \/ LateInterrupt \/ Halted_forever \/ UNCHANGED sysVars
    PROVE  UNCHANGED storyVars
  <1> USE DEF storyVars
  <1>1. CASE Hardware
    BY <1>1 DEF Hardware, Devices, record_pit_calibration, PitRises, Tick, vars, userVars
  <1>2. CASE LateInterrupt
    BY <1>2 DEF LateInterrupt, vars, userVars
  <1>3. CASE Halted_forever
    BY <1>3 DEF Halted_forever, Halt, hcf, schedVars, bootVars, userVars
  <1>4. CASE UNCHANGED sysVars
    BY <1>4 DEF sysVars, vars, bootVars, userVars
  <1> QED
    BY <1>1, <1>2, <1>3, <1>4

LEMMA ProgramsRun ==
    ASSUME Omega3 \/ Echo \/ Client \/ \E t \in TaskId : Leave(t)
    PROVE  machine = "running"
  <1>1. CASE Omega3
    BY <1>1 DEF Omega3, omega_find, omega_parse, omega_as_create, omega_header, FrameAlloc, omega_scratch,
          omega_unmap, omega_map, omega_stack_map, omega_create, omega_bogus_call, Running, InUserMode
  <1>2. CASE Echo \/ Client
    BY <1>2 DEF Echo, Client, Receive, SendTo, Running, InUserMode, RecvResume
  <1> QED
    BY <1>1, <1>2 DEF Leave, InUserMode

LEMMA KernelBoots ==
    ASSUME bootstrap_spawn, ~Handover
    PROVE  machine = "boot"
  BY DEF bootstrap_spawn, spawn_find, spawn_resources, spawn_parse, load_segment, spawn_page,
        load_elf_end, spawn_insert, scheduler_start, Booting

\* In user mode the programs run, and nothing else does.
LEMMA UserSteps ==
    ASSUME [SystemNext]_sysVars, machine = "running", step = "user"
    PROVE  UNCHANGED storyVars \/ Omega3 \/ Echo \/ Client \/ \E t \in TaskId : Leave(t)
  <1>1. ~StartUp /\ ~bootstrap_spawn
    BY KernelBoots DEF StartUp, Handover
  <1> QED
    BY <1>1, DevicesAreQuiet DEF SystemNext, Software

\* A machine that has halted stays as it is.
LEMMA HaltedSteps ==
    ASSUME [SystemNext]_sysVars, machine \in Halted, step # "calibrated"
    PROVE  UNCHANGED storyVars
  <1>1. machine # "boot" /\ machine # "running"
    BY DEF Halted
  <1>2. ~StartUp /\ ~bootstrap_spawn
    BY <1>1, KernelBoots DEF StartUp, Handover
  <1> QED
    BY <1>1, <1>2, DevicesAreQuiet, ProgramsRun DEF SystemNext, Software

\* Which program runs, and where it is, decides the step.
LEMMA OneProgramRuns ==
    ASSUME NEW now, current = now, Omega3 \/ Echo \/ Client \/ \E t \in TaskId : Leave(t)
    PROVE  /\ now = omega3 => Omega3 \/ Leave(omega3)
           /\ now = echo => Echo \/ Leave(echo)
           /\ now = client => Client \/ Leave(client)
  <1>1. Omega3 => now = omega3
    BY DEF Omega3, omega_find, omega_parse, omega_as_create, omega_header, FrameAlloc, omega_scratch,
          omega_unmap, omega_map, omega_stack_map, omega_create, omega_bogus_call, Running
  <1>2. Echo => now = echo
    BY DEF Echo, Receive, SendTo, Running
  <1>3. Client => now = client
    BY DEF Client, Receive, SendTo, Running
  <1>4. \A t \in TaskId : Leave(t) => now = t
    BY DEF Leave
  <1> QED
    BY <1>1, <1>2, <1>3, <1>4, Programs

LEMMA EchoActs ==
    ASSUME current = echo, at[echo] \in {"start", "answer"},
           Omega3 \/ Echo \/ Client \/ \E t \in TaskId : Leave(t)
    PROVE  /\ at[echo] = "start" => Receive(echo, "start", "answer")
           /\ at[echo] = "answer" => SendTo(echo, "answer", out[echo][1].sender, out[echo][1].data, "start")
  <1>1. Echo
    BY OneProgramRuns DEF Leave
  <1> QED
    BY <1>1 DEF Echo, Receive

LEMMA ClientActs ==
    ASSUME current = client, at[client] \in {"start", "receive", "exit"},
           Omega3 \/ Echo \/ Client \/ \E t \in TaskId : Leave(t)
    PROVE  /\ at[client] = "start" => SendTo(client, "start", echo, Hello, "receive")
           /\ at[client] = "receive" => Receive(client, "receive", "exit")
           /\ at[client] = "exit" => Leave(client)
  <1>1. at[client] # "exit" => Client
    BY OneProgramRuns DEF Leave
  <1>2. at[client] = "exit" => ~Client
    BY DEF Client, SendTo, Running, Receive
  <1> QED
    BY <1>1, <1>2, OneProgramRuns DEF Client, Receive, SendTo, Running

LEMMA TalkingStays ==
    ASSUME Talking, Domains, UNCHANGED storyVars
    PROVE  Talking' /\ Domains'
  <1> USE DEF storyVars
  <1>1. /\ EchoStarts => EchoStarts'
        /\ ClientStarts => ClientStarts'
        /\ ClientSent => ClientSent'
        /\ EchoWoken => EchoWoken'
    BY DEF EchoStarts, ClientStarts, ClientSent, EchoWoken, Scene, Task, Waiting, Asleep, From
  <1>2. /\ EchoAnswers => EchoAnswers'
        /\ EchoAnswered => EchoAnswered'
        /\ ClientWoken => ClientWoken'
        /\ ClientDone => ClientDone'
        /\ ClientGone => ClientGone'
    BY DEF EchoAnswers, EchoAnswered, ClientWoken, ClientDone, ClientGone, Scene, Task, Asleep, From
  <1> QED
    BY <1>1, <1>2 DEF Talking, Domains, Exits

\* client leaves and nobody is ready: the machine stops.
LEMMA ClientLeaves ==
    ASSUME ClientDone, Domains, exit = Exits("BadSystemCall", "none"), cause = "none", Leave(client)
    PROVE  ClientGone' /\ Domains' /\ exit' = Exits("BadSystemCall", "0") /\ cause' = "none" /\ UNCHANGED bootVars
  <1>1. machine' = "exited" /\ UNCHANGED <<state, mailbox, pc, out, bootVars>> /\ at' = [at EXCEPT ![client] = "gone"]
    BY DEF Leave, exit_current, ClientDone, Scene, Goto
  <1>2. exit' = [exit EXCEPT ![client] = "0"] /\ cause' = "none"
    BY DEF Leave, ClientDone, Task
  <1>3. exit' = Exits("BadSystemCall", "0")
    BY <1>2, Programs DEF Exits
  <1> QED
    BY <1>1, <1>2, <1>3, Programs DEF ClientGone, ClientDone, Asleep, Task, Domains, From

\* One message each way, in this order and in no other.
LEMMA TalkingStep ==
    ASSUME Talking, Domains, step = "user", [SystemNext]_sysVars
    PROVE  Talking' /\ Domains' /\ step' = "user"
  <1> DEFINE ProgramStep == Omega3 \/ Echo \/ Client \/ \E t \in TaskId : Leave(t)
  <1>1. CASE UNCHANGED storyVars
    BY <1>1, TalkingStays DEF storyVars
  <1>2. CASE ClientGone
    <2>1. UNCHANGED storyVars
      BY <1>2, HaltedSteps DEF ClientGone, Halted
    <2> QED
      BY <1>1, <2>1
  <1> SUFFICES ASSUME ~ClientGone, ~UNCHANGED storyVars
               PROVE  Talking' /\ Domains' /\ step' = "user"
    BY <1>1, <1>2
  <1>3. /\ cause = "none" /\ exit = Exits("BadSystemCall", "none")
        /\ \/ EchoStarts \/ ClientStarts \/ ClientSent \/ EchoWoken
           \/ EchoAnswers \/ EchoAnswered \/ ClientWoken \/ ClientDone
    BY DEF Talking
  <1>4. machine = "running"
    BY <1>3 DEF EchoStarts, ClientStarts, ClientSent, EchoWoken, EchoAnswers, EchoAnswered, ClientWoken, ClientDone,
          Scene
  <1>5. ProgramStep
    BY <1>4, UserSteps
  <1> HIDE DEF ProgramStep
  <1>6. ASSUME UNCHANGED <<bootVars, exit, cause>>, Domains',
               \/ EchoStarts' \/ ClientStarts' \/ ClientSent' \/ EchoWoken'
               \/ EchoAnswers' \/ EchoAnswered' \/ ClientWoken' \/ ClientDone'
        PROVE  Talking' /\ Domains' /\ step' = "user"
    BY <1>3, <1>6 DEF Talking, Exits, bootVars
  <1>7. CASE EchoStarts
    <2>1. Receive(echo, "start", "answer")
      BY <1>5, <1>7, EchoActs DEF EchoStarts, Scene, Task, ProgramStep
    <2>2. /\ Scene(client, <<>>)' /\ Asleep(echo, "start")' /\ state'[client] = "Running"
          /\ pc'[client] = pc[client] /\ Domains' /\ UNCHANGED <<mailbox, at, bootVars, exit, cause>>
      BY <1>7, <2>1, FallsAsleep, Programs DEF EchoStarts, Waiting, Task
    <2>3. ClientStarts'
      BY <1>7, <2>2 DEF ClientStarts, EchoStarts, Waiting, Task
    <2> QED
      BY <1>6, <2>2, <2>3
  <1>8. CASE ClientStarts
    <2>1. SendTo(client, "start", echo, Hello, "receive")
      BY <1>5, <1>8, ClientActs DEF ClientStarts, Scene, Task, ProgramStep
    <2>2. /\ Scene(client, <<echo>>)' /\ Task(client, "Running", "user", "receive", <<>>)' /\ Domains'
          /\ Task(echo, "Ready", "recv", "start", <<[sender |-> client, data |-> Hello]>>)'
          /\ UNCHANGED <<bootVars, exit, cause>>
      BY <1>8, <2>1, WakesReceiver, Programs DEF ClientStarts
    <2>3. ClientSent'
      BY <2>2 DEF ClientSent, From, Task
    <2> QED
      BY <1>6, <2>2, <2>3
  <1>9. CASE ClientSent
    <2>1. Receive(client, "receive", "exit")
      BY <1>5, <1>9, ClientActs DEF ClientSent, Scene, Task, ProgramStep
    <2>2. /\ Scene(echo, <<>>)' /\ Asleep(client, "receive")' /\ state'[echo] = "Running"
          /\ pc'[echo] = pc[echo] /\ Domains' /\ UNCHANGED <<mailbox, at, bootVars, exit, cause>>
      BY <1>9, <2>1, FallsAsleep, Programs DEF ClientSent, Task
    <2>3. EchoWoken'
      BY <1>9, <2>2 DEF ClientSent, EchoWoken, Task, From
    <2> QED
      BY <1>6, <2>2, <2>3
  <1>10. CASE EchoWoken
    <2>1. Receive(echo, "start", "answer")
      BY <1>5, <1>10, EchoActs DEF EchoWoken, Scene, Task, ProgramStep
    <2>2. /\ Scene(echo, <<>>)' /\ Task(echo, "Running", "user", "answer", <<>>)' /\ out'[echo] = <<From(client)>>
          /\ Domains' /\ UNCHANGED <<bootVars, exit, cause>>
          /\ \A u \in TaskId \ {echo} : /\ state'[u] = state[u] /\ pc'[u] = pc[u] /\ at'[u] = at[u]
                                       /\ mailbox'[u] = mailbox[u]
      BY <1>10, <2>1, TakesMessage, Programs DEF EchoWoken
    <2>3. EchoAnswers'
      BY <1>10, <2>2, Programs DEF EchoWoken, EchoAnswers, Asleep, Task, From
    <2> QED
      BY <1>6, <2>2, <2>3
  <1>11. CASE EchoAnswers
    <2>1. <<From(client)>>[1] = From(client) /\ From(client).sender = client /\ From(client).data = Hello
      BY SMT DEF From
    <2>2. SendTo(echo, "answer", client, Hello, "start")
      BY <1>5, <1>11, <2>1, EchoActs DEF EchoAnswers, Scene, Task, ProgramStep
    <2>3. /\ Scene(echo, <<client>>)' /\ Task(echo, "Running", "user", "start", <<>>)' /\ Domains'
          /\ Task(client, "Ready", "recv", "receive", <<[sender |-> echo, data |-> Hello]>>)'
          /\ UNCHANGED <<bootVars, exit, cause>>
      BY <1>11, <2>2, WakesReceiver, Programs DEF EchoAnswers
    <2>4. EchoAnswered'
      BY <2>3 DEF EchoAnswered, From, Task
    <2> QED
      BY <1>6, <2>3, <2>4
  <1>12. CASE EchoAnswered
    <2>1. Receive(echo, "start", "answer")
      BY <1>5, <1>12, EchoActs DEF EchoAnswered, Scene, Task, ProgramStep
    <2>2. /\ Scene(client, <<>>)' /\ Asleep(echo, "start")' /\ state'[client] = "Running"
          /\ pc'[client] = pc[client] /\ Domains' /\ UNCHANGED <<mailbox, at, bootVars, exit, cause>>
      BY <1>12, <2>1, FallsAsleep, Programs DEF EchoAnswered, Task
    <2>3. ClientWoken'
      BY <1>12, <2>2 DEF ClientWoken, EchoAnswered, Task, From
    <2> QED
      BY <1>6, <2>2, <2>3
  <1>13. CASE ClientWoken
    <2>1. Receive(client, "receive", "exit")
      BY <1>5, <1>13, ClientActs DEF ClientWoken, Scene, Task, ProgramStep
    <2>2. /\ Scene(client, <<>>)' /\ Task(client, "Running", "user", "exit", <<>>)' /\ out'[client] = <<From(echo)>>
          /\ Domains' /\ UNCHANGED <<bootVars, exit, cause>>
          /\ \A u \in TaskId \ {client} : /\ state'[u] = state[u] /\ pc'[u] = pc[u] /\ at'[u] = at[u]
                                         /\ mailbox'[u] = mailbox[u]
      BY <1>13, <2>1, TakesMessage, Programs DEF ClientWoken
    <2>3. ClientDone'
      BY <1>13, <2>2, Programs DEF ClientWoken, ClientDone, Asleep, Task, From
    <2> QED
      BY <1>6, <2>2, <2>3
  <1>14. CASE ClientDone
    <2>1. Leave(client)
      BY <1>5, <1>14, ClientActs DEF ClientDone, Scene, Task, ProgramStep
    <2>2. ClientGone' /\ Domains' /\ exit' = Exits("BadSystemCall", "0") /\ cause' = "none" /\ UNCHANGED bootVars
      BY <1>3, <1>14, <2>1, ClientLeaves
    <2> QED
      BY <2>2 DEF Talking, Exits, bootVars
  <1> QED
    BY <1>3, <1>7, <1>8, <1>9, <1>10, <1>11, <1>12, <1>13, <1>14

-----------------------------------------------------------------------------
(* omega3: it creates echo, then client, or gives up with a reason.        *)

NoFrame == \A i \in DOMAIN handles : handles[i] # "Frame"

\* The files, the image or the handles are what why says.
Reason(why) ==
    /\ why \in {"memory", "archive", "image", "handles"}
    /\ why = "archive" => ~Whole(archive, Target)
    /\ why = "image" => ~OmegaLoads(loader.image)
    /\ why = "handles" => TableFull /\ NoFrame

\* The programs that omega3 has created.
Nobody == ready = <<>> /\ Fresh(echo) /\ Fresh(client)
OnlyEcho == ready = <<echo>> /\ Waiting(echo) /\ Fresh(client)
Both == ready = <<echo, client>> /\ Waiting(echo) /\ Waiting(client)

OmegaStory ==
    /\ machine = "running" /\ current = omega3 /\ state[omega3] = "Running" /\ pc[omega3] = "user"
    /\ exit = Exits("none", "none")
    /\ \/ /\ at[omega3] = "start" /\ cause = "none"
          /\ (loader.name = "none" /\ Nobody) \/ (loader.name = "echo.elf" /\ OnlyEcho)
       \/ /\ at[omega3] \in Loading /\ cause = "none"
          /\ (loader.name = "echo.elf" /\ Nobody) \/ (loader.name = "client.elf" /\ OnlyEcho)
       \/ at[omega3] = "bogus" /\ cause = "none" /\ Both
       \/ at[omega3] = "panic" /\ Reason(cause) /\ (Nobody \/ OnlyEcho)

\* A page fault is the fault of the image.
Blamed(how) == how = "SegmentationFault" => cause = "image" /\ ~DataInFile(loader.image)

\* omega3 has given up: nobody is left, or echo runs, or echo waits for ever.
GaveUp ==
    /\ \E how \in {"1", "SegmentationFault"} : exit = Exits(how, "none") /\ Blamed(how)
    /\ Reason(cause)
    /\ \/ machine = "exited" /\ state[echo] = "None"
       \/ Scene(echo, <<>>) /\ Task(echo, "Running", "user", "start", <<>>)
       \/ machine = "deadlock" /\ state[echo] = "Running"

UserStory == Domains /\ (OmegaStory \/ GaveUp \/ Talking)

LEMMA ReasonStays ==
    ASSUME NEW why, Reason(why), UNCHANGED <<archive, loader, handles>>, cause' = why
    PROVE  Reason(cause)'
  BY DEF Reason, Target, TableFull, NoFrame, OmegaLoads, DataInFile

LEMMA CastStays ==
    ASSUME Domains, UNCHANGED <<state, ready, mailbox, pc>>, NEW a, at' = [at EXCEPT ![omega3] = a]
    PROVE  (Nobody => Nobody') /\ (OnlyEcho => OnlyEcho')
  BY Programs DEF Nobody, OnlyEcho, Fresh, Waiting, Task, Domains

LEMMA BlameStays ==
    ASSUME NEW how, Blamed(how), UNCHANGED <<loader, cause>>
    PROVE  Blamed(how)'
  BY DEF Blamed, DataInFile

\* The end of omega3: the machine stops, or echo, if it is there, runs.
LEMMA OmegaExits ==
    ASSUME Domains, OmegaStory, Nobody \/ OnlyEcho, exit_current, at' = [at EXCEPT ![omega3] = "gone"],
           NEW how \in {"1", "SegmentationFault"}, Blamed(how)',
           exit' = [exit EXCEPT ![omega3] = how], UNCHANGED <<mailbox, pc, out>>, Reason(cause)'
    PROVE  UserStory'
  <1>1. \E h \in {"1", "SegmentationFault"} : exit' = Exits(h, "none") /\ Blamed(h)'
    <2>1. exit' = Exits(how, "none")
      BY Programs DEF OmegaStory, Exits
    <2> QED
      BY <2>1
  <1>2. CASE Nobody
    <2>1. machine' = "exited" /\ UNCHANGED state
      BY <1>2 DEF Nobody, exit_current
    <2>2. GaveUp' /\ Domains'
      BY <1>1, <1>2, <2>1 DEF GaveUp, Nobody, Fresh, Task, Domains, Exits
    <2> QED
      BY <2>2 DEF UserStory
  <1>3. CASE OnlyEcho
    <2>1. ready # <<>> /\ Head(ready) = echo /\ Tail(ready) = <<>> /\ current = omega3 /\ state[echo] = "Ready"
      BY <1>3, OneQueued DEF OnlyEcho, Waiting, Task, OmegaStory
    <2>2. /\ state' = [state EXCEPT ![omega3] = "Dead", ![echo] = "Running"] /\ ready' = <<>> /\ current' = echo
          /\ Assert(MaySwitchTo(echo))
      BY <2>1 DEF exit_current
    <2>3. machine' = "running"
      BY <2>1, <2>2, Programs DEF Assert, MaySwitchTo, OmegaStory
    <2>4. Scene(echo, <<>>)' /\ Task(echo, "Running", "user", "start", <<>>)' /\ Domains'
      BY <1>3, <2>2, <2>3, Programs DEF Scene, Task, Domains, OnlyEcho, Waiting
    <2> QED
      BY <1>1, <2>4 DEF GaveUp, UserStory, Exits
  <1> QED
    BY <1>2, <1>3

LEMMA OmegaPanicEnds ==
    ASSUME Domains, OmegaStory, at[omega3] \in Loading \cup {"start"}, NEW why, Reason(why),
           OmegaPanic(why) \/ (OmegaFault(why) /\ why = "image" /\ ~DataInFile(loader.image))
    PROVE  UserStory' /\ UNCHANGED bootVars
  <1>1. Nobody \/ OnlyEcho
    BY DEF OmegaStory, Loading
  <1>2. PICK how \in {"1", "SegmentationFault"} :
           OmegaStops(how, why) /\ (how = "SegmentationFault" => why = "image" /\ ~DataInFile(loader.image))
    BY DEF OmegaPanic, OmegaFault
  <1>3. Reason(cause)'
    BY <1>2, ReasonStays DEF OmegaStops
  <1>4. Blamed(how)'
    BY <1>2 DEF OmegaStops, Blamed, DataInFile
  <1> QED
    BY <1>1, <1>2, <1>3, <1>4, OmegaExits DEF OmegaStops, Goto

\* The unwrap of a sys_task_create that failed.
LEMMA OmegaLeaveEnds ==
    ASSUME Domains, OmegaStory, Leave(omega3)
    PROVE  UserStory' /\ UNCHANGED bootVars
  <1>1. at[omega3] = "panic" /\ Reason(cause) /\ (Nobody \/ OnlyEcho)
    BY DEF OmegaStory, Leave, Loading
  <1>2. Reason(cause)'
    <2>1. cause # "none"
      BY <1>1 DEF Reason
    <2> QED
      BY <1>1, <2>1, ReasonStays DEF Leave
  <1>3. Blamed("1")'
    BY DEF Blamed
  <1>4. exit' = [exit EXCEPT ![omega3] = "1"]
    BY <1>1 DEF Leave
  <1> QED
    BY <1>1, <1>2, <1>3, <1>4, OmegaExits DEF Leave, Goto

\* A step of load_elf.
LEMMA OmegaLoadsOn ==
    ASSUME Domains, OmegaStory, at[omega3] \in Loading \cup {"start"}, NEW place \in Loading, OmegaGoto(place),
           loader'.name = IF at[omega3] = "start" THEN Target ELSE loader.name
    PROVE  UserStory' /\ UNCHANGED bootVars
  <1>1. at' = [at EXCEPT ![omega3] = place] /\ UNCHANGED <<current, state, ready, machine, mailbox, pc, exit, out, cause, bootVars>>
    BY DEF OmegaGoto, Goto, vars
  <1>2. at'[omega3] = place /\ Domains'
    BY <1>1, Programs DEF Domains
  <1>3. cause = "none" /\ ((loader'.name = "echo.elf" /\ Nobody) \/ (loader'.name = "client.elf" /\ OnlyEcho))
    <2>1. CASE at[omega3] = "start"
      BY <2>1 DEF OmegaStory, Target, Loading
    <2>2. CASE at[omega3] # "start"
      BY <2>2 DEF OmegaStory, Loading
    <2> QED
      BY <2>1, <2>2
  <1>4. (loader'.name = "echo.elf" /\ Nobody') \/ (loader'.name = "client.elf" /\ OnlyEcho')
    BY <1>1, <1>3, CastStays
  <1> QED
    BY <1>1, <1>2, <1>3, <1>4 DEF OmegaStory, UserStory, Exits

\* The slots are given in order: echo's before client's.
LEMMA NextSlot ==
    ASSUME state[omega3] = "Running", NEW t, FirstFree(t)
    PROVE  (Nobody => t = echo) /\ (OnlyEcho => t = client)
  <1>1. t \in Int /\ t >= 0 /\ omega3 = 0 /\ echo = 1 /\ client = 2
    BY SMT DEF FirstFree, TaskId, omega3, echo, client
  <1>2. \A u \in 0..(t - 1) : state[u] # "None"
    BY DEF FirstFree
  <1>3. t # 0
    BY <1>1 DEF FirstFree
  <1>4. state[1] = "None" => t = 1
    <2>1. state[1] = "None" => ~(1 \in 0..(t - 1))
      BY <1>2
    <2> QED
      BY <1>1, <1>3, <2>1, SMT
  <1>5. state[1] # "None" /\ state[2] = "None" => t = 2
    <2>1. state[2] = "None" => ~(2 \in 0..(t - 1))
      BY <1>2
    <2>2. state[1] # "None" => t # 1
      BY DEF FirstFree
    <2> QED
      BY <1>1, <1>3, <2>1, <2>2, SMT
  <1> QED
    BY <1>1, <1>4, <1>5 DEF Nobody, OnlyEcho, Fresh, Waiting, Task

\* A task that is queued and at once taken out leaves the queue as it was.
LEMMA QueuedAndGone ==
    ASSUME NEW t, NEW u, t # u
    PROVE  ReadyWithout(Append(<<>>, t), t) = <<>> /\ ReadyWithout(Append(<<u>>, t), t) = <<u>>
  <1>1. ASSUME NEW q \in Seq({u}), Len(q) \in {0, 1}
        PROVE  ReadyWithout(Append(q, t), t) = q
    <2> DEFINE n == Len(q)
               p == Append(q, t)
               First(i) == p[i] = t /\ \A k \in 1..(i - 1) : p[k] # t
    <2>1. n \in Nat /\ Len(p) = n + 1 /\ p[n + 1] = t /\ \A k \in 1..n : p[k] = q[k] /\ q[k] # t
      BY SMT
    <2>2. Queued(p, t)
      BY <2>1, SMT DEF Queued
    <2> HIDE DEF p
    <2>3. n + 1 \in 1..Len(p) /\ First(n + 1)
      BY <2>1, SMT
    <2>4. \A i \in 1..Len(p) : First(i) => i = n + 1
      BY <2>1, SMT
    <2>5. (CHOOSE i \in 1..Len(p) : First(i)) = n + 1
      <3> HIDE DEF First, n
      <3> QED
        BY <2>3, <2>4
    <2>6. ReadyWithout(p, t) = [k \in 1..(Len(p) - 1) |-> IF k < n + 1 THEN p[k] ELSE p[k + 1]]
      BY <2>2, <2>5 DEF ReadyWithout
    <2>7. [k \in 1..(Len(p) - 1) |-> IF k < n + 1 THEN p[k] ELSE p[k + 1]] = q
      BY <2>1, SMT
    <2> QED
      BY <2>6, <2>7 DEF p
  <1>2. <<>> \in Seq({u}) /\ <<u>> \in Seq({u}) /\ Len(<<>>) = 0 /\ Len(<<u>>) = 1
    BY SMT
  <1> QED
    BY <1>1, <1>2

LEMMA TwoQueued == ASSUME NEW t, NEW u PROVE Append(<<t>>, u) = <<t, u>> /\ Tail(<<t, u>>) = <<u>> /\ Head(<<t, u>>) = t
  <1>1. <<t>> \in Seq({t, u}) /\ <<t, u>> \in Seq({t, u}) /\ Len(<<t>>) = 1 /\ Len(<<t, u>>) = 2
    BY SMT
  <1>2. Append(<<t>>, u) = <<t, u>>
    <2> DEFINE a == Append(<<t>>, u)
               b == <<t, u>>
    <2>1. a \in Seq({t, u}) /\ Len(a) = 2 /\ a[1] = t /\ a[2] = u
      BY <1>1, SMT
    <2>2. b \in Seq({t, u}) /\ Len(b) = 2 /\ b[1] = t /\ b[2] = u
      BY <1>1, SMT
    <2> HIDE DEF a, b
    <2>3. \A i \in 1..2 : a[i] = b[i]
      BY <2>1, <2>2, SMT
    <2>4. a = b
      BY <2>1, <2>2, <2>3, SMT
    <2> QED
      BY <2>4 DEF a, b
  <1>3. Tail(<<t, u>>) = <<u>> /\ Head(<<t, u>>) = t
    BY <1>1, SMT
  <1> QED
    BY <1>2, <1>3

\* sys_task_create: refused, undone or done.
LEMMA OmegaCreates ==
    ASSUME Domains, OmegaStory, omega_create, cause' # "none" => Reason(cause')
    PROVE  UserStory' /\ UNCHANGED bootVars
  <1>1. /\ at[omega3] = "create" /\ cause = "none" /\ UNCHANGED <<bootVars, exit, out>>
        /\ (loader.name = "echo.elf" /\ Nobody) \/ (loader.name = "client.elf" /\ OnlyEcho)
    BY DEF omega_create, Running, OmegaStory, Loading
  <1>2. ASSUME UNCHANGED <<current, state, ready, machine, mailbox, pc, archive, loader, handles>>,
               Goto(omega3, "panic"), cause' # "none"
        PROVE  UserStory'
    <2>1. Reason(cause)'
      BY <1>2, ReasonStays
    <2>2. at' = [at EXCEPT ![omega3] = "panic"] /\ at'[omega3] = "panic" /\ Domains'
      BY <1>1, <1>2, Programs DEF Goto, Domains
    <2>3. Nobody' \/ OnlyEcho'
      BY <1>1, <1>2, <2>2, CastStays
    <2> QED
      BY <1>1, <1>2, <2>1, <2>2, <2>3 DEF OmegaStory, UserStory, Exits
  <1>3. CASE /\ CreateRefused /\ Goto(omega3, "panic") /\ cause' = (IF EntryValid THEN "memory" ELSE "image")
             /\ UNCHANGED <<loader, handles>>
    BY <1>2, <1>3 DEF CreateRefused, schedVars, omega_create
  <1>4. CASE CreateUndone /\ Goto(omega3, "panic") /\ cause' = "handles" /\ UNCHANGED <<loader, handles>>
    <2>1. PICK t \in TaskId : FirstFree(t) /\ ready' = ReadyWithout(PushBack(ready, t), t) /\ Assert(~Full(ready))
      BY <1>4 DEF CreateUndone
    <2>2. ~Full(ready) /\ (ready = <<>> \/ (ready = <<echo>> /\ t = client))
      BY <1>1, <2>1, Room, NextSlot DEF OmegaStory, Nobody, OnlyEcho
    <2>3. ready' = ready /\ machine' = machine
      <3>1. ready' = ReadyWithout(Append(ready, t), t)
        BY <2>1, <2>2 DEF PushBack
      <3>2. CASE ready = <<>>
        <4>1. omega3 # t
          BY <2>1 DEF FirstFree, OmegaStory
        <4> QED
          BY <2>1, <2>2, <3>1, <3>2, <4>1, QueuedAndGone DEF Assert
      <3>3. CASE ready = <<echo>> /\ t = client
        BY <2>1, <2>2, <3>1, <3>3, QueuedAndGone, Programs DEF Assert
      <3> QED
        BY <2>2, <3>2, <3>3
    <2> QED
      BY <1>2, <1>4, <2>3 DEF CreateUndone, omega_create
  <1>5. CASE /\ CreateAdded /\ Goto(omega3, IF loader.name = "echo.elf" THEN "start" ELSE "bogus")
             /\ loader' = [Idle EXCEPT !.name = loader.name] /\ UNCHANGED cause
    <2>1. PICK t \in TaskId : add_task(t) /\ mailbox' = [mailbox EXCEPT ![t] = <<>>]
      BY <1>5 DEF CreateAdded
    <2>2. ~Full(ready) /\ (Nobody => t = echo) /\ (OnlyEcho => t = client)
      BY <1>1, <2>1, Room, NextSlot DEF OmegaStory, Nobody, OnlyEcho, add_task
    <2>3. /\ state' = [state EXCEPT ![t] = "Ready"] /\ ready' = Append(ready, t) /\ machine' = machine
          /\ UNCHANGED <<current, pc>>
      BY <1>5, <2>1, <2>2 DEF add_task, PushBack, Assert, CreateAdded
    <2>4. loader'.name = loader.name
      BY <1>5 DEF Idle
    <2>5. CASE loader.name = "echo.elf" /\ Nobody
      <3>1. t = echo /\ ready' = <<echo>> /\ at' = [at EXCEPT ![omega3] = "start"]
        BY <1>5, <2>2, <2>3, <2>5, OneQueued DEF Nobody, Goto
      <3>2. OnlyEcho' /\ Domains' /\ state'[omega3] = "Running" /\ at'[omega3] = "start"
        BY <1>1, <2>1, <2>3, <2>5, <3>1, Programs DEF OnlyEcho, Nobody, Fresh, Waiting, Task, Domains, OmegaStory
      <3> QED
        BY <1>1, <1>5, <2>3, <2>4, <2>5, <3>2 DEF OmegaStory, UserStory, Exits
    <2>6. CASE loader.name = "client.elf" /\ OnlyEcho
      <3>1. t = client /\ ready' = <<echo, client>> /\ at' = [at EXCEPT ![omega3] = "bogus"]
        <4>1. Append(<<echo>>, client) = <<echo, client>>
          BY TwoQueued
        <4> QED
          BY <1>5, <2>2, <2>3, <2>6, <4>1 DEF OnlyEcho, Goto
      <3>2. Both' /\ Domains' /\ state'[omega3] = "Running" /\ at'[omega3] = "bogus"
        BY <1>1, <2>1, <2>3, <2>6, <3>1, Programs DEF OnlyEcho, Both, Fresh, Waiting, Task, Domains, OmegaStory
      <3> QED
        BY <1>1, <1>5, <2>3, <2>4, <2>6, <3>2 DEF OmegaStory, UserStory, Exits
    <2> QED
      BY <1>1, <2>5, <2>6
  <1> QED
    BY <1>1, <1>3, <1>4, <1>5 DEF omega_create

\* The call that does not exist ends omega3, and echo runs.
LEMMA OmegaEnds ==
    ASSUME Domains, OmegaStory, omega_bogus_call
    PROVE  UserStory' /\ UNCHANGED bootVars
  <1>1. /\ Both /\ cause = "none" /\ exit_current /\ at' = [at EXCEPT ![omega3] = "gone"]
        /\ exit' = [exit EXCEPT ![omega3] = "BadSystemCall"] /\ UNCHANGED <<mailbox, pc, bootVars, out, cause>>
    BY DEF omega_bogus_call, Running, Goto, OmegaStory, Loading
  <1>2. exit' = Exits("BadSystemCall", "none")
    BY <1>1, Programs DEF OmegaStory, Exits
  <1>3. Head(ready) = echo /\ Tail(ready) = <<client>> /\ ready # <<>> /\ current = omega3 /\ state[echo] = "Ready"
    <2>1. <<echo, client>> # <<>>
      BY SMT
    <2> QED
      BY <1>1, <2>1, TwoQueued DEF Both, Waiting, Task, OmegaStory
  <1>4. /\ state' = [state EXCEPT ![omega3] = "Dead", ![echo] = "Running"] /\ ready' = <<client>> /\ current' = echo
        /\ Assert(MaySwitchTo(echo))
    BY <1>1, <1>3 DEF exit_current
  <1>5. machine' = "running"
    BY <1>3, <1>4, Programs DEF Assert, MaySwitchTo, OmegaStory
  <1>6. EchoStarts' /\ Domains'
    BY <1>1, <1>4, <1>5, Programs DEF EchoStarts, Scene, Waiting, Task, Both, Domains
  <1> QED
    BY <1>1, <1>2, <1>6 DEF Talking, UserStory, Exits

\* echo waits for a message that nobody will send.
LEMMA EchoWaits ==
    ASSUME Domains, GaveUp, machine = "running", Omega3 \/ Echo \/ Client \/ \E t \in TaskId : Leave(t)
    PROVE  UserStory' /\ UNCHANGED bootVars
  <1>1. Scene(echo, <<>>) /\ Task(echo, "Running", "user", "start", <<>>)
    BY DEF GaveUp
  <1>2. Receive(echo, "start", "answer")
    BY <1>1, EchoActs DEF Scene, Task
  <1>3. RecvBlock
    BY <1>1, <1>2 DEF Receive, RecvResume, Scene, Task
  <1>4. machine' = "deadlock" /\ UNCHANGED <<state, mailbox>> /\ pc' = [pc EXCEPT ![echo] = "recv"] /\ reply' = NoReply
    BY <1>1, <1>3 DEF RecvBlock, block_current, Scene
  <1>5. UNCHANGED <<at, out, bootVars, archive, loader, handles, exit, cause>>
    BY <1>2, <1>4 DEF Receive
  <1>6. Reason(cause)'
    BY <1>5, ReasonStays DEF GaveUp
  <1>7. \E how \in {"1", "SegmentationFault"} : exit' = Exits(how, "none") /\ Blamed(how)'
    BY <1>5, BlameStays DEF GaveUp
  <1> QED
    BY <1>1, <1>4, <1>5, <1>6, <1>7 DEF GaveUp, UserStory, Domains, Task, Exits

LEMMA UserStoryStays ==
    ASSUME UserStory, UNCHANGED storyVars
    PROVE  UserStory'
  <1>1. UNCHANGED <<archive, loader, handles, cause>>
    BY DEF storyVars
  <1>2. Reason(cause) => Reason(cause)'
    BY <1>1, ReasonStays
  <1>3. (Nobody => Nobody') /\ (OnlyEcho => OnlyEcho') /\ (Both => Both')
    BY DEF Nobody, OnlyEcho, Both, Fresh, Waiting, Task, storyVars
  <1>4. OmegaStory => OmegaStory'
    BY <1>2, <1>3 DEF OmegaStory, Exits, storyVars
  <1>5. GaveUp => GaveUp'
    <2>1. ASSUME GaveUp
          PROVE  \E how \in {"1", "SegmentationFault"} : exit' = Exits(how, "none") /\ Blamed(how)'
      BY <1>1, <2>1, BlameStays DEF GaveUp, storyVars
    <2> QED
      BY <1>2, <2>1 DEF GaveUp, Exits, Scene, Task, storyVars
  <1>6. Domains'
    BY DEF Domains, UserStory, storyVars
  <1> QED
    BY <1>4, <1>5, <1>6, TalkingStays DEF UserStory

\* omega3 goes on, gives up, or is at one of its last two calls.
LEMMA OmegaActs ==
    ASSUME OmegaStory, Omega3, at[omega3] \in Loading => DOMAIN loader = LoaderFields
    PROVE  \/ /\ at[omega3] \in Loading \cup {"start"}
              /\ loader'.name = IF at[omega3] = "start" THEN Target ELSE loader.name
              /\ \E place \in Loading : OmegaGoto(place)
           \/ at[omega3] \in Loading \cup {"start"} /\ cause' # "none" /\ OmegaPanic(cause')
           \/ at[omega3] = "scratch" /\ cause' = "image" /\ LeavesArchive /\ OmegaFault(cause')
           \/ omega_create
           \/ omega_bogus_call
  <1> DEFINE Goes == \/ /\ at[omega3] \in Loading \cup {"start"}
                        /\ loader'.name = IF at[omega3] = "start" THEN Target ELSE loader.name
                        /\ \E place \in Loading : OmegaGoto(place)
                     \/ at[omega3] \in Loading \cup {"start"} /\ cause' # "none" /\ OmegaPanic(cause')
                     \/ at[omega3] = "scratch" /\ cause' = "image" /\ LeavesArchive /\ OmegaFault(cause')
  <1>1. ASSUME at[omega3] \in Loading \cup {"start"},
               OmegaPanic("memory") \/ OmegaPanic("archive") \/ OmegaPanic("image") \/ OmegaPanic("handles")
        PROVE  Goes
    <2>1. ASSUME NEW why, why # "none", OmegaPanic(why)
          PROVE  Goes
      <3>1. cause' = why
        BY <2>1 DEF OmegaPanic, OmegaStops
      <3> QED
        BY <1>1, <2>1, <3>1
    <2> QED
      BY <1>1, <2>1
  <1>2. ASSUME omega_find
        PROVE  Goes
    <2>1. (OmegaPanic("archive") \/ (loader'.name = Target /\ OmegaGoto("parse"))) /\ at[omega3] = "start"
      BY <1>2 DEF omega_find, Running, Idle
    <2> QED
      BY <1>1, <2>1 DEF Loading
  <1>3. ASSUME omega_parse \/ omega_as_create
        PROVE  Goes
    BY <1>1, <1>3 DEF omega_parse, omega_as_create, Running, Loading
  <1>4. ASSUME FrameAlloc("frame", "scratch") \/ FrameAlloc("stack_frame", "stack_map") \/ omega_unmap
        PROVE  Goes
    BY <1>1, <1>4 DEF FrameAlloc, omega_unmap, Running, Loading
  <1>5. ASSUME omega_header
        PROVE  Goes
    <2>1. /\ at[omega3] = "header"
          /\ \/ OmegaPanic("image")
             \/ loader'.name = loader.name /\ (OmegaGoto("stack_frame") \/ OmegaGoto("header") \/ OmegaGoto("frame"))
      BY <1>5 DEF omega_header, Running, Skipped, LoaderFields, Loading
    <2> QED
      BY <1>1, <2>1 DEF Loading
  <1>6. ASSUME omega_scratch
        PROVE  Goes
    <2>1. /\ at[omega3] = "scratch"
          /\ \/ OmegaPanic("memory") \/ OmegaPanic("image")
             \/ LeavesArchive /\ OmegaFault("image")
             \/ loader'.name = loader.name /\ OmegaGoto("unmap")
      BY <1>6 DEF omega_scratch, Running, LoaderFields, Loading
    <2>2. OmegaFault("image") => cause' = "image"
      BY DEF OmegaFault, OmegaStops
    <2> QED
      BY <1>1, <2>1, <2>2 DEF Loading
  <1>7. ASSUME omega_map
        PROVE  Goes
    <2>1. /\ at[omega3] = "map"
          /\ \/ OmegaPanic("memory") \/ OmegaPanic("image")
             \/ loader'.name = loader.name /\ (OmegaGoto("frame") \/ OmegaGoto("header"))
      BY <1>7 DEF omega_map, Running, Mapped, LoaderFields, Loading
    <2> QED
      BY <1>1, <2>1 DEF Loading
  <1>8. ASSUME omega_stack_map
        PROVE  Goes
    <2>1. /\ at[omega3] = "stack_map"
          /\ \/ OmegaPanic("memory") \/ OmegaPanic("image")
             \/ loader'.name = loader.name /\ (OmegaGoto("create") \/ OmegaGoto("stack_frame"))
      BY <1>8 DEF omega_stack_map, Running, LoaderFields, Loading
    <2> QED
      BY <1>1, <2>1 DEF Loading
  <1> QED
    BY <1>2, <1>3, <1>4, <1>5, <1>6, <1>7, <1>8 DEF Omega3

LEMMA UserStoryStep ==
    ASSUME UserStory, step = "user", [SystemNext]_sysVars, at[omega3] \in Loading => DOMAIN loader = LoaderFields,
           Omega3 /\ cause' # "none" => Reason(cause'),
           at[omega3] = "scratch" /\ LeavesArchive => ~DataInFile(loader.image)
    PROVE  UserStory' /\ step' = "user"
  <1>1. CASE Talking
    BY <1>1, TalkingStep DEF UserStory
  <1>2. CASE UNCHANGED storyVars
    BY <1>2, UserStoryStays DEF storyVars
  <1>3. CASE OmegaStory /\ ~UNCHANGED storyVars
    <2>1. Omega3 \/ Leave(omega3)
      BY <1>3, UserSteps, OneProgramRuns DEF OmegaStory
    <2>2. ASSUME at[omega3] = "scratch", cause' = "image", LeavesArchive, OmegaFault(cause'), Omega3
          PROVE  UserStory' /\ UNCHANGED bootVars
      <3>1. Reason(cause') /\ ~DataInFile(loader.image) /\ at[omega3] \in Loading \cup {"start"}
        BY <2>2 DEF Loading
      <3> QED
        BY <1>3, <2>2, <3>1, OmegaPanicEnds DEF UserStory
    <2>3. ASSUME at[omega3] \in Loading \cup {"start"}, cause' # "none", OmegaPanic(cause'), Omega3
          PROVE  UserStory' /\ UNCHANGED bootVars
      BY <1>3, <2>3, OmegaPanicEnds DEF UserStory
    <2>4. ASSUME Omega3
          PROVE  UserStory' /\ UNCHANGED bootVars
      BY <1>3, <2>2, <2>3, <2>4, OmegaActs, OmegaLoadsOn, OmegaCreates, OmegaEnds DEF UserStory
    <2>5. UserStory' /\ UNCHANGED bootVars
      BY <1>3, <2>1, <2>4, OmegaLeaveEnds DEF UserStory
    <2> QED
      BY <2>5 DEF bootVars
  <1>4. CASE GaveUp /\ ~UNCHANGED storyVars
    <2>1. machine = "running"
      BY <1>4, HaltedSteps DEF GaveUp, Halted, Scene
    <2>2. UserStory' /\ UNCHANGED bootVars
      BY <1>4, <2>1, UserSteps, EchoWaits DEF UserStory
    <2> QED
      BY <2>2 DEF bootVars
  <1> QED
    BY <1>1, <1>2, <1>3, <1>4 DEF UserStory

-----------------------------------------------------------------------------
(* The kernel: it spawns omega3 and starts it, or panics with a reason.    *)

KernelReason(why) ==
    /\ why \in {"hardware", "memory", "archive", "image"}
    /\ why = "archive" => ~Whole(archive, "omega3.elf")
    /\ why = "image" => ~KernelLoads(loader.image)

BootStory ==
    /\ current = NoTask /\ exit = Exits("none", "none")
    /\ (machine = "boot" /\ cause = "none") \/ (machine = "panic" /\ KernelReason(cause) /\ step # "calibrated")
    /\ IF step = "start" THEN ready = <<omega3>> /\ Waiting(omega3) /\ loader.name = "none"
                         ELSE ready = <<>> /\ Fresh(omega3)
    /\ Fresh(echo) /\ Fresh(client)

Story == IF step = "user" THEN UserStory ELSE Domains /\ BootStory

LEMMA KernelReasonStays ==
    ASSUME NEW why, KernelReason(why), UNCHANGED <<archive, loader>>, cause' = why
    PROVE  KernelReason(cause)'
  BY DEF KernelReason, KernelLoads

\* Nobody has run yet.
LEMMA BootGoesOn ==
    ASSUME Domains, BootStory, UNCHANGED <<current, state, ready, mailbox, pc, at, exit, out>>,
           step \notin {"start", "user"}, step' \notin {"start", "user"},
           \/ machine' = "boot" /\ cause' = "none"
           \/ machine' = "panic" /\ KernelReason(cause)' /\ step' # "calibrated"
    PROVE  Story'
  <1>1. Fresh(omega3)' /\ Fresh(echo)' /\ Fresh(client)' /\ ready' = <<>>
    BY DEF BootStory, Fresh, Task
  <1>2. BootStory'
    BY <1>1 DEF BootStory, Exits
  <1>3. Domains'
    BY DEF Domains
  <1> QED
    BY <1>2, <1>3 DEF Story

LEMMA BootQuiet ==
    ASSUME Domains, BootStory, step # "user", UNCHANGED storyVars
    PROVE  Story'
  <1> USE DEF storyVars
  <1>1. KernelReason(cause) => KernelReason(cause)'
    BY KernelReasonStays
  <1>2. Fresh(echo)' /\ Fresh(client)' /\ (Fresh(omega3) => Fresh(omega3)') /\ (Waiting(omega3) => Waiting(omega3)')
    BY DEF BootStory, Fresh, Waiting, Task
  <1>3. BootStory'
    BY <1>1, <1>2 DEF BootStory, Exits
  <1>4. Domains'
    BY DEF Domains
  <1> QED
    BY <1>3, <1>4 DEF Story

LEMMA BootStartsUp ==
    ASSUME Domains, BootStory, StartUp
    PROVE  Story'
  <1>1. step \notin {"start", "user"} /\ step' \notin {"start", "user"}
    BY StartUpStays
  <1>2. machine = "boot" /\ cause = "none" /\ UNCHANGED <<current, state, ready, mailbox, pc, at, exit, out>>
    BY DEF BootStory, StartUp, userVars
  <1>3. CASE step' = "failed"
    <2>1. machine' = "panic" /\ cause' = "hardware" /\ step' # "calibrated"
      BY <1>3 DEF StartUp
    <2>2. KernelReason(cause)'
      BY <2>1 DEF KernelReason
    <2> QED
      BY <1>1, <1>2, <2>1, <2>2, BootGoesOn
  <1>4. CASE step' # "failed"
    <2>1. machine' = "boot" /\ cause' = "none"
      BY <1>2, <1>4 DEF StartUp
    <2> QED
      BY <1>1, <1>2, <2>1, BootGoesOn
  <1> QED
    BY <1>3, <1>4

\* add_task puts omega3 into the first slot.
LEMMA BootInserts ==
    ASSUME Domains, BootStory, spawn_insert
    PROVE  Story'
  <1>1. /\ machine = "boot" /\ step' = "start" /\ loader' = Idle /\ cause = "none" /\ ready = <<>> /\ Fresh(omega3)
        /\ UNCHANGED <<mailbox, pc, at, exit, out, cause>>
    BY DEF spawn_insert, Booting, BootStory, userVars
  <1>2. PICK t \in TaskId : add_task(t)
    BY DEF spawn_insert, Spawn
  <1>3. t = omega3
    <2>1. t \in Int /\ t >= 0 /\ omega3 = 0
      BY <1>2, SMT DEF TaskId, omega3
    <2>2. ~(0 \in 0..(t - 1))
      BY <1>1, <1>2 DEF add_task, FirstFree, Fresh, Task, omega3
    <2> QED
      BY <2>1, <2>2, SMT
  <1>4. /\ state' = [state EXCEPT ![omega3] = "Ready"] /\ ready' = <<omega3>> /\ machine' = "boot" /\ UNCHANGED current
    BY <1>1, <1>2, <1>3, Room, OneQueued DEF add_task, PushBack, Assert
  <1>5. Waiting(omega3)' /\ Fresh(echo)' /\ Fresh(client)' /\ Domains'
    BY <1>1, <1>4, Programs DEF BootStory, Fresh, Waiting, Task, Domains
  <1>6. loader'.name = "none"
    BY <1>1 DEF Idle
  <1> QED
    BY <1>1, <1>4, <1>5, <1>6 DEF BootStory, Story, Exits

LEMMA BootStarts ==
    ASSUME Domains, BootStory, scheduler_start
    PROVE  Story'
  <1>1. /\ step = "start" /\ step' = "user" /\ machine = "boot" /\ cause = "none" /\ ready = <<omega3>>
        /\ Waiting(omega3) /\ loader.name = "none" /\ UNCHANGED <<mailbox, pc, loader, at, exit, out, cause>>
    BY DEF scheduler_start, Booting, BootStory, userVars
  <1>2. /\ state' = [state EXCEPT ![omega3] = "Running"] /\ ready' = <<>> /\ current' = omega3 /\ machine' = "running"
    BY <1>1, OneQueued DEF scheduler_start, start, Waiting, Task
  <1>3. Nobody' /\ Domains'
    BY <1>1, <1>2, Programs DEF BootStory, Nobody, Fresh, Task, Domains
  <1>4. state'[omega3] = "Running" /\ pc'[omega3] = "user" /\ at'[omega3] = "start"
    BY <1>1, <1>2, Programs DEF Waiting, Task, Domains
  <1> QED
    BY <1>1, <1>2, <1>3, <1>4 DEF Story, UserStory, OmegaStory, BootStory, Exits

\* bootstrap::spawn goes on or panics.
LEMMA KernelActs ==
    ASSUME bootstrap_spawn
    PROVE  \/ Handover \/ spawn_insert \/ scheduler_start
           \/ /\ machine = "boot" /\ step \notin {"start", "user"}
              /\ \E next \in Spawning : Continue(next)
           \/ /\ machine = "boot" /\ step \notin {"start", "user", "calibrated"}
              /\ cause' # "none" /\ KernelPanic(cause')
  <1> DEFINE Goes == \/ /\ machine = "boot" /\ step \notin {"start", "user"}
                        /\ \E next \in Spawning : Continue(next)
                     \/ /\ machine = "boot" /\ step \notin {"start", "user", "calibrated"}
                        /\ cause' # "none" /\ KernelPanic(cause')
  <1>1. ASSUME NEW here \in Spawning \cup {"spawn"}, Booting(here),
               \/ KernelPanic("memory") \/ KernelPanic("archive") \/ KernelPanic("image")
               \/ \E next \in Spawning : Continue(next)
        PROVE  Goes
    <2>1. machine = "boot" /\ step \notin {"start", "user", "calibrated"}
      BY <1>1 DEF Booting, Spawning
    <2>2. ASSUME NEW why, why # "none", KernelPanic(why)
          PROVE  Goes
      <3>1. cause' = why
        BY <2>2 DEF KernelPanic
      <3> QED
        BY <2>1, <2>2, <3>1
    <2> QED
      BY <1>1, <2>1, <2>2
  <1>2. ASSUME spawn_find \/ spawn_resources \/ spawn_parse
        PROVE  Goes
    BY <1>1, <1>2 DEF spawn_find, spawn_resources, spawn_parse, Spawning
  <1>3. ASSUME load_segment \/ spawn_page \/ load_elf_end
        PROVE  Goes
    BY <1>1, <1>3 DEF load_segment, spawn_page, load_elf_end, Spawning
  <1> QED
    BY <1>2, <1>3 DEF bootstrap_spawn

LEMMA BootStep ==
    ASSUME Domains, BootStory, step # "user", [SystemNext]_sysVars,
           bootstrap_spawn /\ cause' # "none" => KernelReason(cause')
    PROVE  Story'
  <1>1. CASE machine = "panic"
    BY <1>1, HaltedSteps, BootQuiet DEF BootStory, Halted
  <1>2. CASE machine = "boot" /\ bootstrap_spawn
    <2>1. CASE Handover
      BY <1>2, <2>1, BootGoesOn DEF Handover, vars, userVars, BootStory
    <2>2. CASE spawn_insert \/ scheduler_start
      BY <2>2, BootInserts, BootStarts
    <2>3. ASSUME NEW next \in Spawning, Continue(next), step \notin {"start", "user"}
          PROVE  Story'
      BY <1>2, <2>3, BootGoesOn DEF Continue, vars, userVars, BootStory, Spawning
    <2>4. ASSUME KernelPanic(cause'), cause' # "none", step \notin {"start", "user", "calibrated"}
          PROVE  Story'
      <3>1. KernelReason(cause)'
        BY <1>2, <2>4, KernelReasonStays DEF KernelPanic
      <3>2. step' = step /\ machine' = "panic" /\ UNCHANGED <<current, state, ready, mailbox, pc, at, exit, out>>
        BY <2>4 DEF KernelPanic, bootVars, userVars
      <3> QED
        BY <2>4, <3>1, <3>2, BootGoesOn
    <2> QED
      BY <1>2, <2>1, <2>2, <2>3, <2>4, KernelActs
  <1>3. CASE machine = "boot" /\ ~bootstrap_spawn
    <2>1. machine # "running"
      BY <1>3
    <2>2. StartUp \/ UNCHANGED storyVars
      BY <1>3, <2>1, DevicesAreQuiet, ProgramsRun DEF SystemNext, Software
    <2> QED
      BY <2>2, BootStartsUp, BootQuiet
  <1> QED
    BY <1>1, <1>2, <1>3 DEF BootStory

-----------------------------------------------------------------------------
(* Three more facts on which the reasons rest.                             *)

Kinds == {"AddressSpace", "Thread", "Frame", "Mapping"}

\* Only the newest handle can be a frame, and only while it is being mapped.
OnlyLast == \A i \in DOMAIN handles : i # Len(handles) => handles[i] # "Frame"

HandlesInv ==
    /\ handles \in Seq(Kinds)
    /\ at[omega3] \in {"start", "parse", "as_create", "header", "frame", "stack_frame", "create"} => NoFrame
    /\ at[omega3] \in {"scratch", "unmap", "map", "stack_map"} => handles # <<>> /\ OnlyLast

\* The kernel remembers whether a segment so far holds the entry point.
Covers(image, i) ==
    /\ image.segments[i].executable /\ image.segments[i].address <= image.entry
    /\ image.entry < image.segments[i].address + image.segments[i].memory_size

EntrySeen ==
    /\ step \in Spawning => loader.executable_entry \in BOOLEAN
    /\ step \in {"parse", "segment", "page"} /\ ~loader.executable_entry =>
          \A i \in Loaded(loader.image) :
              i < loader.segment \/ (step = "page" /\ i = loader.segment) => ~Covers(loader.image, i)

\* The pages that are not the image's are the stack's.
StackWritable ==
    at[omega3] \in {"stack_frame", "stack_map", "create"} =>
        \A p \in DOMAIN loader.pages :
            (\A i \in Loaded(loader.image) : p \notin PagesOf(loader.image.segments[i])) => loader.pages[p].writable

LEMMA Appended ==
    ASSUME NEW S, NEW q \in Seq(S), NEW x \in S
    PROVE  /\ Append(q, x) \in Seq(S) /\ Len(Append(q, x)) = Len(q) + 1 /\ Len(q) \in Nat
           /\ DOMAIN Append(q, x) = 1..Len(Append(q, x)) /\ DOMAIN q = 1..Len(q)
           /\ Append(q, x)[Len(Append(q, x))] = x /\ \A i \in 1..Len(q) : Append(q, x)[i] = q[i]
  BY SMT

LEMMA Pushed ==
    ASSUME handles \in Seq(Kinds), NoFrame, NEW kind \in Kinds, Push(kind)
    PROVE  /\ handles' \in Seq(Kinds) /\ handles' # <<>> /\ OnlyLast'
           /\ kind # "Frame" => NoFrame'
  <1>1. /\ handles' \in Seq(Kinds) /\ Len(handles') = Len(handles) + 1 /\ Len(handles) \in Nat
        /\ DOMAIN handles' = 1..Len(handles') /\ DOMAIN handles = 1..Len(handles)
        /\ handles'[Len(handles')] = kind /\ \A i \in 1..Len(handles) : handles'[i] = handles[i]
    <2> DEFINE longer == Append(handles, kind)
    <2>1. /\ longer \in Seq(Kinds) /\ Len(longer) = Len(handles) + 1 /\ Len(handles) \in Nat
          /\ DOMAIN longer = 1..Len(longer) /\ DOMAIN handles = 1..Len(handles)
          /\ longer[Len(longer)] = kind /\ \A i \in 1..Len(handles) : longer[i] = handles[i]
      BY Appended, SMT
    <2>2. handles' = longer
      BY DEF Push
    <2> HIDE DEF longer
    <2> QED
      BY <2>1, <2>2
  <1>2. handles' # <<>> /\ \A i \in DOMAIN handles' : i = Len(handles') \/ i \in DOMAIN handles
    BY <1>1, SMT
  <1> QED
    BY <1>1, <1>2 DEF NoFrame, OnlyLast

LEMMA Became ==
    ASSUME handles \in Seq(Kinds), handles # <<>>, OnlyLast, NEW kind \in Kinds, Becomes(kind)
    PROVE  /\ handles' \in Seq(Kinds) /\ handles' # <<>> /\ OnlyLast'
           /\ kind # "Frame" => NoFrame'
  <1>1. /\ Len(handles) \in Nat /\ Len(handles) \in DOMAIN handles /\ DOMAIN handles = 1..Len(handles)
        /\ \A i \in DOMAIN handles : handles[i] \in Kinds
    BY SMT
  <1>2. /\ DOMAIN handles' = DOMAIN handles /\ handles'[Len(handles)] = kind
        /\ \A i \in DOMAIN handles : i # Len(handles) => handles'[i] = handles[i]
        /\ handles' = [i \in DOMAIN handles |-> handles'[i]]
    BY <1>1 DEF Becomes
  <1>3. \A i \in 1..Len(handles) : handles'[i] \in Kinds
    BY <1>1, <1>2
  <1>4. handles' \in Seq(Kinds) /\ Len(handles') = Len(handles) /\ handles' # <<>>
    <2> DEFINE h == handles'
               n == Len(handles)
    <2>1. n \in Nat /\ n \in 1..n /\ DOMAIN h = 1..n /\ h = [i \in 1..n |-> h[i]] /\ \A i \in 1..n : h[i] \in Kinds
      BY <1>1, <1>2, <1>3
    <2> HIDE DEF h, n
    <2>2. h \in Seq(Kinds) /\ Len(h) = n /\ h # <<>>
      BY <2>1, SMT
    <2> QED
      BY <2>2 DEF h, n
  <1> QED
    BY <1>1, <1>2, <1>4 DEF NoFrame, OnlyLast

\* Outside omega3 the handles and the loader stay, but for the kernel's own work before it.
LEMMA OutsideOmega ==
    ASSUME LoaderInv, [SystemNext]_sysVars, ~Omega3
    PROVE  /\ at'[omega3] = at[omega3] \/ at'[omega3] = "gone"
           /\ UNCHANGED loader \/ at'[omega3] = "start"
           /\ UNCHANGED handles \/ handles' = <<"AddressSpace", "Thread">>
  <1>1. DOMAIN at = TaskId /\ omega3 \in TaskId /\ omega3 # echo /\ omega3 # client
    BY Programs DEF LoaderInv, UserLast
  <1>2. CASE StartUp
    BY <1>2 DEF StartUp, userVars
  <1>3. CASE bootstrap_spawn
    <2>1. UNCHANGED at /\ step # "user" /\ (UNCHANGED handles \/ handles' = <<"AddressSpace", "Thread">> \/ scheduler_start)
      <3>1. CASE Handover \/ spawn_insert \/ scheduler_start
        BY <3>1 DEF Handover, spawn_insert, scheduler_start, userVars, Booting
      <3> QED
        BY <1>3, <3>1, KernelActs DEF Continue, KernelPanic, userVars
    <2>2. scheduler_start => UNCHANGED handles
      BY DEF scheduler_start
    <2> QED
      BY <2>1, <2>2 DEF LoaderInv, UserLast
  <1>4. CASE Echo \/ Client
    <2>1. ASSUME NEW t, t # omega3, NEW place, NEW next, Receive(t, place, next)
          PROVE  UNCHANGED <<loader, handles>> /\ at'[omega3] = at[omega3]
      BY <1>1, <2>1 DEF Receive, Goto
    <2>2. ASSUME NEW t, t # omega3, NEW place, NEW dest, NEW data, NEW next, SendTo(t, place, dest, data, next)
          PROVE  UNCHANGED <<loader, handles>> /\ at'[omega3] = at[omega3]
      BY <1>1, <2>2 DEF SendTo, Goto
    <2> QED
      BY <1>1, <1>4, <2>1, <2>2 DEF Echo, Client
  <1>5. ASSUME NEW t \in TaskId, Leave(t)
        PROVE  UNCHANGED <<loader, handles>> /\ (at'[omega3] = at[omega3] \/ at'[omega3] = "gone")
    BY <1>1, <1>5 DEF Leave, Goto
  <1>6. CASE Hardware \/ LateInterrupt \/ Halted_forever \/ UNCHANGED sysVars
    BY <1>6, DevicesAreQuiet DEF storyVars
  <1> QED
    BY <1>2, <1>3, <1>4, <1>5, <1>6 DEF SystemNext, Software

LEMMA HandlesStep ==
    ASSUME LoaderInv, HandlesInv, [SystemNext]_sysVars
    PROVE  HandlesInv'
  <1> DEFINE Clean == {"start", "parse", "as_create", "header", "frame", "stack_frame", "create"}
             Dirty == {"scratch", "unmap", "map", "stack_map"}
  <1>1. DOMAIN at = TaskId /\ omega3 \in TaskId
    BY Programs DEF LoaderInv, UserLast
  <1>2. ASSUME UNCHANGED handles, at'[omega3] = at[omega3] \/ at'[omega3] \notin Clean \cup Dirty
        PROVE  HandlesInv'
    BY <1>2 DEF HandlesInv, NoFrame, OnlyLast
  <1>3. CASE ~Omega3
    <2>1. CASE UNCHANGED handles
      BY <1>2, <1>3, <2>1, OutsideOmega
    <2>2. CASE handles' = <<"AddressSpace", "Thread">>
      <3> DEFINE h == <<"AddressSpace", "Thread">>
      <3>1. h \in Seq(Kinds) /\ h # <<>> /\ DOMAIN h = 1..2 /\ h[1] = "AddressSpace" /\ h[2] = "Thread"
        BY SMT DEF Kinds
      <3>2. \A i \in 1..2 : i = 1 \/ i = 2
        BY SMT
      <3>3. handles' = h
        BY <2>2
      <3> HIDE DEF h
      <3>4. NoFrame'
        BY <3>1, <3>2, <3>3 DEF NoFrame
      <3> QED
        BY <3>1, <3>3, <3>4 DEF HandlesInv, OnlyLast, NoFrame
    <2> QED
      BY <1>3, <2>1, <2>2, OutsideOmega
  <1>4. ASSUME \E why : OmegaPanic(why) \/ OmegaFault(why)
        PROVE  HandlesInv'
    <2>1. UNCHANGED handles /\ at'[omega3] = "gone"
      BY <1>1, <1>4 DEF OmegaPanic, OmegaFault, OmegaStops, Goto
    <2> QED
      BY <1>2, <2>1
  <1>5. ASSUME NEW place, Goto(omega3, place)
        PROVE  at'[omega3] = place
    BY <1>1, <1>5 DEF Goto
  <1>6. ASSUME NEW place \in Clean, Goto(omega3, place), UNCHANGED handles, at[omega3] \in Clean
        PROVE  HandlesInv'
    BY <1>5, <1>6 DEF HandlesInv, NoFrame
  <1>7. ASSUME NEW place, Goto(omega3, place), NEW kind \in Kinds, Push(kind), at[omega3] \in Clean,
               kind # "Frame" \/ place \in Dirty
        PROVE  HandlesInv'
    <2>1. /\ handles' \in Seq(Kinds) /\ handles' # <<>> /\ OnlyLast'
          /\ kind # "Frame" => NoFrame'
      BY <1>7, Pushed DEF HandlesInv
    <2> QED
      BY <1>5, <1>7, <2>1 DEF HandlesInv
  <1>8. ASSUME NEW place, Goto(omega3, place), NEW kind \in Kinds, Becomes(kind), at[omega3] \in Dirty,
               kind # "Frame" \/ place \in Dirty
        PROVE  HandlesInv'
    <2>1. /\ handles' \in Seq(Kinds) /\ handles' # <<>> /\ OnlyLast'
          /\ kind # "Frame" => NoFrame'
      BY <1>8, Became DEF HandlesInv
    <2> QED
      BY <1>5, <1>8, <2>1 DEF HandlesInv
  <1> HIDE DEF Clean, Dirty
  <1>9. CASE omega_find \/ omega_parse \/ omega_header
    BY <1>4, <1>6, <1>9 DEF omega_find, omega_parse, omega_header, Running, OmegaGoto, Clean
  <1>10. CASE omega_as_create \/ FrameAlloc("frame", "scratch") \/ FrameAlloc("stack_frame", "stack_map")
    BY <1>4, <1>7, <1>10 DEF omega_as_create, FrameAlloc, Running, OmegaGoto, Clean, Dirty, Kinds
  <1>11. CASE omega_scratch \/ omega_unmap
    BY <1>4, <1>8, <1>11 DEF omega_scratch, omega_unmap, Running, OmegaGoto, Dirty, Kinds
  <1>12. CASE omega_map \/ omega_stack_map
    BY <1>4, <1>8, <1>12 DEF omega_map, omega_stack_map, Running, OmegaGoto, Dirty, Kinds
  <1>13. CASE omega_create
    <2>1. at[omega3] = "create"
      BY <1>13 DEF omega_create, Running
    <2>2. CASE Goto(omega3, "panic") /\ UNCHANGED handles
      BY <1>2, <1>5, <2>2 DEF Clean, Dirty
    <2>3. CASE Push("Thread") /\ Goto(omega3, IF loader.name = "echo.elf" THEN "start" ELSE "bogus")
      BY <1>7, <2>1, <2>3 DEF Clean, Kinds
    <2> QED
      BY <1>13, <2>2, <2>3 DEF omega_create
  <1>14. CASE omega_bogus_call
    <2>1. UNCHANGED handles /\ at'[omega3] = "gone"
      BY <1>5, <1>14 DEF omega_bogus_call
    <2> QED
      BY <1>2, <2>1 DEF Clean, Dirty
  <1> QED
    BY <1>3, <1>9, <1>10, <1>11, <1>12, <1>13, <1>14 DEF Omega3

LEMMA StackStep ==
    ASSUME LoaderInv, StackWritable, [SystemNext]_sysVars
    PROVE  StackWritable'
  <1> DEFINE Stack == {"stack_frame", "stack_map", "create"}
  <1>1. DOMAIN at = TaskId /\ omega3 \in TaskId
    BY Programs DEF LoaderInv, UserLast
  <1>2. ASSUME NEW place, Goto(omega3, place)
        PROVE  at'[omega3] = place
    BY <1>1, <1>2 DEF Goto
  <1>3. ASSUME UNCHANGED loader, at[omega3] \in Stack
        PROVE  StackWritable'
    BY <1>3 DEF StackWritable
  <1>4. ASSUME at'[omega3] \notin Stack
        PROVE  StackWritable'
    BY <1>4 DEF StackWritable
  <1> HIDE DEF Stack
  <1>5. CASE ~Omega3
    <2>1. "start" \notin Stack /\ "gone" \notin Stack
      BY DEF Stack
    <2> QED
      BY <1>3, <1>4, <1>5, <2>1, OutsideOmega
  <1>6. ASSUME \E why : OmegaPanic(why) \/ OmegaFault(why)
        PROVE  StackWritable'
    BY <1>2, <1>4, <1>6 DEF OmegaPanic, OmegaFault, OmegaStops, Stack
  <1>7. CASE omega_find \/ omega_parse \/ omega_as_create \/ FrameAlloc("frame", "scratch") \/ omega_scratch \/ omega_unmap
    BY <1>2, <1>4, <1>6, <1>7 DEF omega_find, omega_parse, omega_as_create, FrameAlloc, omega_scratch, omega_unmap,
          OmegaGoto, Stack
  <1>8. CASE omega_map \/ omega_create \/ omega_bogus_call
    BY <1>2, <1>4, <1>6, <1>8 DEF omega_map, omega_create, omega_bogus_call, OmegaGoto, Stack
  <1>9. CASE omega_header
    <2>1. at[omega3] = "header" /\ LoadedSo(loader, {}, FALSE)
      BY <1>9 DEF omega_header, Running, LoaderInv, OmegaLoader
    <2>2. CASE OmegaGoto("header") \/ OmegaGoto("frame")
      BY <1>2, <1>4, <2>2 DEF OmegaGoto, Stack
    <2>3. CASE loader' = [loader EXCEPT !.page = STACK_TOP - FRAME_SIZE]
      <3>1. loader'.pages = loader.pages /\ loader'.image = loader.image
        BY <2>1, <2>3 DEF LoadedSo, LoaderTypes, LoaderFields
      <3>2. \A p \in DOMAIN loader.pages : \E i \in Loaded(loader.image) : p \in PagesOf(loader.image.segments[i])
        BY <2>1 DEF LoadedSo, PagesAre, PagesDone
      <3> QED
        BY <3>1, <3>2 DEF StackWritable
    <2> QED
      BY <1>6, <1>9, <2>2, <2>3 DEF omega_header
  <1>10. CASE FrameAlloc("stack_frame", "stack_map")
    BY <1>3, <1>6, <1>10 DEF FrameAlloc, Running, Stack
  <1>11. CASE omega_stack_map
    <2>1. at[omega3] = "stack_map" /\ DOMAIN loader = LoaderFields
      BY <1>11 DEF omega_stack_map, Running, LoaderInv, OmegaLoader, LoadedSo, LoaderTypes
    <2>2. CASE loader' = [loader EXCEPT !.page = @ - FRAME_SIZE,
                    !.pages = [p \in DOMAIN @ \cup {loader.page} |->
                                  IF p = loader.page THEN Page(Blank(Zero), TRUE, FALSE) ELSE @[p]]]
      <3>1. /\ loader'.image = loader.image
            /\ loader'.pages = [p \in DOMAIN loader.pages \cup {loader.page} |->
                                   IF p = loader.page THEN Page(Blank(Zero), TRUE, FALSE) ELSE loader.pages[p]]
        BY <2>1, <2>2 DEF LoaderFields
      <3>2. Page(Blank(Zero), TRUE, FALSE).writable
        BY DEF Page
      <3>3. ASSUME NEW p \in DOMAIN loader'.pages,
                   \A i \in Loaded(loader.image) : p \notin PagesOf(loader.image.segments[i])
            PROVE  loader'.pages[p].writable
        BY <2>1, <3>1, <3>2, <3>3 DEF StackWritable
      <3> QED
        BY <3>1, <3>3 DEF StackWritable
    <2> QED
      BY <1>6, <1>11, <2>2 DEF omega_stack_map
  <1> QED
    BY <1>5, <1>7, <1>8, <1>9, <1>10, <1>11 DEF Omega3

LEMMA ProgramsKeepStep ==
    ASSUME Omega3 \/ Echo \/ Client \/ \E t \in TaskId : Leave(t)
    PROVE  UNCHANGED bootVars
  <1>1. CASE omega_create \/ omega_bogus_call
    BY <1>1 DEF omega_create, omega_bogus_call
  <1>2. CASE omega_find \/ omega_parse \/ omega_as_create \/ omega_header
    BY <1>2 DEF omega_find, omega_parse, omega_as_create, omega_header, OmegaGoto, OmegaPanic, OmegaStops
  <1>3. CASE FrameAlloc("frame", "scratch") \/ FrameAlloc("stack_frame", "stack_map") \/ omega_scratch \/ omega_unmap
    BY <1>3 DEF FrameAlloc, omega_scratch, omega_unmap, OmegaGoto, OmegaPanic, OmegaFault, OmegaStops
  <1>4. CASE omega_map \/ omega_stack_map
    BY <1>4 DEF omega_map, omega_stack_map, OmegaGoto, OmegaPanic, OmegaStops
  <1>5. CASE Echo \/ Client
    BY <1>5 DEF Echo, Client, Receive, SendTo
  <1> QED
    BY <1>1, <1>2, <1>3, <1>4, <1>5 DEF Omega3, Leave

LEMMA SegmentsPassed ==
    ASSUME LoaderTypes(loader), NEW i \in Loaded(loader.image)
    PROVE  i < loader.segment + 1 <=> i < loader.segment \/ i = loader.segment
  <1>1. i \in Nat /\ loader.segment \in Nat
    BY SegmentTypes DEF LoaderTypes, Loaded
  <1> QED
    BY <1>1, SMT

LEMMA EntryStep ==
    ASSUME LoaderInv, EntrySeen, [SystemNext]_sysVars
    PROVE  EntrySeen'
  <1>1. ASSUME UNCHANGED <<step, loader>>
        PROVE  EntrySeen'
    BY <1>1 DEF EntrySeen, Covers
  <1>2. ASSUME step' \notin Spawning
        PROVE  EntrySeen'
    BY <1>2 DEF EntrySeen, Spawning
  <1>3. CASE \/ StartUp \/ Hardware \/ LateInterrupt \/ Halted_forever \/ UNCHANGED sysVars
             \/ Omega3 \/ Echo \/ Client \/ \E t \in TaskId : Leave(t)
    <2>1. CASE StartUp
      BY <1>2, <2>1, StartUpStays
    <2>2. CASE Hardware \/ LateInterrupt \/ Halted_forever \/ UNCHANGED sysVars
      BY <1>1, <2>2, DevicesAreQuiet DEF storyVars
    <2>3. CASE Omega3 \/ Echo \/ Client \/ \E t \in TaskId : Leave(t)
      <3>1. machine = "running" /\ step' = step
        BY <2>3, ProgramsRun, ProgramsKeepStep DEF bootVars
      <3>2. step = "user"
        BY <3>1 DEF LoaderInv, UserLast
      <3> QED
        BY <1>2, <3>1, <3>2 DEF Spawning
    <2> QED
      BY <1>3, <2>1, <2>2, <2>3
  <1>4. ASSUME \E why : KernelPanic(why)
        PROVE  EntrySeen'
    BY <1>1, <1>4 DEF KernelPanic, bootVars
  <1>5. CASE Handover \/ spawn_insert \/ scheduler_start
    BY <1>2, <1>5 DEF Handover, spawn_insert, scheduler_start, Spawning
  <1>6. CASE spawn_find
    <2>1. CASE loader'.executable_entry = FALSE /\ step' = "resources"
      BY <2>1 DEF EntrySeen
    <2> QED
      BY <1>4, <1>6, <2>1 DEF spawn_find, Continue, Idle
  <1>7. CASE spawn_resources
    <2>1. LoaderTypes(loader) /\ loader.segment = 1 /\ loader.executable_entry \in BOOLEAN
      BY <1>7 DEF spawn_resources, Booting, LoaderInv, KernelLoader, EntrySeen, Spawning
    <2>2. ASSUME NEW page, loader' = [loader EXCEPT !.pages = page], Continue("parse")
          PROVE  EntrySeen'
      <3>1. /\ step' = "parse" /\ loader'.segment = 1 /\ loader'.image = loader.image
            /\ loader'.executable_entry = loader.executable_entry
        BY <2>1, <2>2 DEF LoaderTypes, LoaderFields, Continue
      <3>2. ASSUME NEW i \in Loaded(loader.image)
            PROVE  ~(i < 1)
        <4>1. i \in Nat /\ i >= 1
          BY <2>1, SegmentTypes DEF Loaded
        <4> QED
          BY <4>1, SMT
      <3> QED
        BY <2>1, <3>1, <3>2 DEF EntrySeen
    <2> QED
      BY <1>4, <1>7, <2>2 DEF spawn_resources
  <1>8. CASE spawn_parse \/ load_elf_end
    <2>1. CASE UNCHANGED loader /\ step \in {"parse", "segment"} /\ step' \in {"segment", "insert"}
      BY <2>1 DEF EntrySeen, Covers, Spawning
    <2> QED
      BY <1>4, <1>8, <2>1 DEF spawn_parse, load_elf_end, Booting, Continue
  <1>9. CASE load_segment
    <2>1. LoaderTypes(loader) /\ DOMAIN loader = LoaderFields /\ step = "segment" /\ loader.executable_entry \in BOOLEAN
      BY <1>9 DEF load_segment, Booting, LoaderInv, KernelLoader, LoadedSo, LoaderTypes, EntrySeen, Spawning
    <2>2. ASSUME Segment.type # "Load" \/ Segment.memory_size = 0, loader' = Skipped, step' = "segment"
          PROVE  EntrySeen'
      <3>1. /\ loader'.segment = loader.segment + 1 /\ loader'.image = loader.image
            /\ loader'.executable_entry = loader.executable_entry
        BY <2>1, <2>2 DEF Skipped, LoaderFields
      <3>2. loader.segment \notin Loaded(loader.image)
        <4>1. ~(0 > 0)
          BY SMT
        <4> QED
          BY <2>2, <4>1 DEF Loaded, Segment
      <3>3. \A i \in Loaded(loader.image) : i < loader'.segment => i < loader.segment
        BY <2>1, <3>1, <3>2, SegmentsPassed
      <3> QED
        BY <2>1, <2>2, <3>1, <3>3 DEF EntrySeen, Covers
    <2>3. ASSUME step' = "page",
                 loader' = [loader EXCEPT
                       !.page = PageOf(Segment.address),
                       !.executable_entry = \/ @
                                            \/ /\ Segment.executable
                                               /\ Segment.address <= loader.image.entry
                                               /\ loader.image.entry < SegmentEnd]
          PROVE  EntrySeen'
      <3>1. /\ loader'.segment = loader.segment /\ loader'.image = loader.image
            /\ loader'.executable_entry = \/ loader.executable_entry
                                          \/ /\ Segment.executable
                                             /\ Segment.address <= loader.image.entry
                                             /\ loader.image.entry < SegmentEnd
        BY <2>1, <2>3 DEF LoaderFields
      <3>2. loader'.executable_entry <=> loader.executable_entry \/ Covers(loader.image, loader.segment)
        BY <3>1 DEF Covers, Segment, SegmentEnd
      <3>3. loader'.executable_entry \in BOOLEAN
        BY <3>1
      <3> QED
        BY <2>1, <2>3, <3>1, <3>2, <3>3 DEF EntrySeen, Covers
    <2> QED
      BY <1>4, <1>9, <2>2, <2>3 DEF load_segment, Continue
  <1>10. CASE spawn_page
    <2>1. LoaderTypes(loader) /\ DOMAIN loader = LoaderFields /\ step = "page" /\ loader.executable_entry \in BOOLEAN
      BY <1>10 DEF spawn_page, Booting, LoaderInv, KernelLoader, LoadedSo, LoaderTypes, EntrySeen, Spawning
    <2>2. ASSUME NEW page, loader' = Mapped(page),
                 step' = IF loader'.segment = loader.segment THEN "page" ELSE "segment"
          PROVE  EntrySeen'
      <3>1. /\ loader'.segment \in {loader.segment, loader.segment + 1} /\ loader'.image = loader.image
            /\ loader'.executable_entry = loader.executable_entry
        BY <2>1, <2>2 DEF Mapped, LoaderFields
      <3>2. ~loader.executable_entry =>
               \A i \in Loaded(loader.image) : i < loader.segment \/ i = loader.segment => ~Covers(loader.image, i)
        BY <2>1 DEF EntrySeen
      <3>3. \A i \in Loaded(loader.image) : i < loader'.segment => i < loader.segment \/ i = loader.segment
        BY <2>1, <3>1, SegmentsPassed
      <3>4. loader'.executable_entry \in BOOLEAN /\ step' \in {"segment", "page"}
            /\ (step' = "page" => loader'.segment = loader.segment)
        BY <2>1, <2>2, <3>1
      <3>5. ASSUME ~loader'.executable_entry, NEW i \in Loaded(loader'.image),
                   i < loader'.segment \/ (step' = "page" /\ i = loader'.segment)
            PROVE  ~Covers(loader'.image, i)
        BY <3>1, <3>2, <3>3, <3>4, <3>5
      <3> QED
        BY <3>4, <3>5 DEF EntrySeen, Covers
    <2> QED
      BY <1>4, <1>10, <2>2 DEF spawn_page, Continue
  <1> QED
    BY <1>3, <1>5, <1>6, <1>7, <1>8, <1>9, <1>10 DEF SystemNext, Software, bootstrap_spawn

-----------------------------------------------------------------------------
(* The reasons: what the loaders refuse, no loader could have loaded.      *)

LEMMA FoundIsSome ==
    ASSUME NEW a \in Archives, NEW target, NEW file, IsFirst(a, target, file)
    PROVE  file # None
  <1>1. PICK k \in DOMAIN a.members : file.start = DataAt(a.members, k)
    BY DEF IsFirst, IsData
  <1>2. a.members \in Seq(MemberHeader) /\ k \in 1..Len(a.members)
    BY ArchivesAssumption, SMT
  <1>3. DataAt(a.members, k) \in Nat
    BY <1>2, MemberOffsets
  <1>4. None.start = -1 /\ -1 \notin Nat
    BY SMT DEF None
  <1> QED
    BY <1>1, <1>3, <1>4

\* A page that is in use belongs to another segment or is reserved.
LEMMA PageTaken ==
    ASSUME NEW ld, NEW reserved, LoadedSo(ld, reserved, TRUE), ld.page \in DOMAIN ld.pages
    PROVE  ~Fits(ld.image, reserved)
  <1>1. /\ LoaderTypes(ld) /\ ld.segment \in Loaded(ld.image) /\ ld.page \in PagesOf(ld.image.segments[ld.segment])
        /\ ld.page \in reserved \/ \E i \in Loaded(ld.image) : ld.page \in PagesDone(ld, TRUE, i)
    BY DEF LoadedSo, PagesAre
  <1>2. ld.segment \in DOMAIN ld.image.segments
    BY <1>1 DEF Loaded
  <1>3. ld.segment \in Nat /\ Sized(ld.image.segments[ld.segment])
    BY <1>1, <1>2, SegmentTypes
  <1>4. ld.page \in Nat
    BY <1>1, <1>3, SegmentPage
  <1>5. ~(ld.segment < ld.segment) /\ ~(ld.page < ld.page)
    BY <1>3, <1>4, SMT
  <1>6. ld.page \in reserved \/ \E i \in Loaded(ld.image) \ {ld.segment} : ld.page \in PagesOf(ld.image.segments[i])
    BY <1>1, <1>5 DEF PagesDone
  <1> QED
    BY <1>1, <1>6 DEF Fits

\* A page with a byte below an aligned end is below it as a whole.
LEMMA PageBelow ==
    ASSUME NEW a \in Nat, NEW end \in Nat, end % FRAME_SIZE = 0, a < end
    PROVE  PageOf(a) + FRAME_SIZE <= end
  <1>1. PageOf(end) = end
    BY SMT DEF PageOf
  <1>2. PageOf(a) \in Nat /\ PageOf(a) <= a
    BY Division
  <1>3. PageOf(a) < PageOf(end)
    BY <1>1, <1>2, SMT
  <1> QED
    BY <1>1, <1>3, PagesApart

LEMMA Sizes == USER_SPACE_END \in Nat /\ FRAME_SIZE \in Nat /\ FRAME_SIZE # 0
  BY AddressAssumption, FrameSizeAssumption

LEMMA StackAddresses ==
    /\ \A n \in 0..(STACK_PAGES - 1) :
          LET page == STACK_TOP - (n + 1) * FRAME_SIZE
          IN  page \in StackPages /\ page \notin StackPart(n) /\ ~(page + FRAME_SIZE > USER_SPACE_END)
    /\ PageOf(STACK_TOP - 1) = STACK_TOP - FRAME_SIZE /\ STACK_TOP - FRAME_SIZE \in StackPages
  <1>1. /\ STACK_TOP \in Nat /\ STACK_TOP % FRAME_SIZE = 0 /\ 0 < STACK_TOP /\ STACK_TOP <= USER_SPACE_END
        /\ USER_SPACE_END \in Nat /\ STACK_PAGES \in Nat /\ STACK_PAGES # 0
        /\ FRAME_SIZE \in Nat /\ FRAME_SIZE # 0
    BY StackAssumption, AddressAssumption, FrameSizeAssumption
  <1>2. ASSUME NEW n \in 0..(STACK_PAGES - 1)
        PROVE  LET page == STACK_TOP - (n + 1) * FRAME_SIZE
               IN  page \in StackPages /\ page \notin StackPart(n) /\ ~(page + FRAME_SIZE > USER_SPACE_END)
    <2> DEFINE page == STACK_TOP - (n + 1) * FRAME_SIZE
    <2>1. n \in Nat /\ n + 1 \in 1..STACK_PAGES
      BY <1>1, SMT
    <2>2. page \in StackPages
      BY <2>1 DEF StackPages
    <2>3. ASSUME NEW i \in 1..n, page = STACK_TOP - i * FRAME_SIZE
          PROVE  FALSE
      <3>1. i \in Nat /\ n + 1 - i \in Nat /\ n + 1 - i # 0
        BY <2>1, SMT
      <3>2. (n + 1) * FRAME_SIZE \in Nat /\ i * FRAME_SIZE \in Nat /\ (n + 1 - i) * FRAME_SIZE = (n + 1) * FRAME_SIZE - i * FRAME_SIZE
        BY <2>1, <3>1, Sizes, SMT
      <3>3. (n + 1 - i) * FRAME_SIZE # 0
        BY <3>1, Sizes, SMT
      <3>4. STACK_TOP \in Nat
        BY <1>1
      <3> QED
        BY <2>3, <3>2, <3>3, <3>4, SMT
    <2>4. page \notin StackPart(n)
      BY <2>3 DEF StackPart
    <2>5. n * FRAME_SIZE \in Nat /\ (n + 1) * FRAME_SIZE = n * FRAME_SIZE + FRAME_SIZE
      BY <2>1, Sizes, SMT
    <2>6. ~(page + FRAME_SIZE > USER_SPACE_END)
      BY <1>1, <2>5, SMT
    <2> QED
      BY <2>2, <2>4, <2>6
  <1>3. PageOf(STACK_TOP - 1) = STACK_TOP - FRAME_SIZE
    <2>1. STACK_TOP - 1 \in Nat /\ STACK_TOP - 1 < STACK_TOP
      BY <1>1, SMT
    <2>2. PageOf(STACK_TOP - 1) + FRAME_SIZE <= STACK_TOP
      BY <1>1, <2>1, PageBelow
    <2>3. PageOf(STACK_TOP - 1) \in Nat /\ STACK_TOP - 1 < PageOf(STACK_TOP - 1) + FRAME_SIZE
      BY <2>1, Division
    <2> QED
      BY <1>1, <2>2, <2>3, SMT
  <1>4. STACK_TOP - FRAME_SIZE = STACK_TOP - 1 * FRAME_SIZE /\ 1 \in 1..STACK_PAGES
    BY <1>1, SMT
  <1>5. STACK_TOP - FRAME_SIZE \in StackPages
    BY <1>4 DEF StackPages
  <1> QED
    BY <1>2, <1>3, <1>5

\* The kernel panics over the archive or the image only with a reason.
LEMMA KernelReasons ==
    ASSUME LoaderInv, EntrySeen, bootstrap_spawn, cause = "none", cause' # "none"
    PROVE  KernelReason(cause')
  <1> DEFINE reserved == StackPages \cup {INITRAMFS_START}
  <1>1. \A why : KernelPanic(why) => cause' = why
    BY DEF KernelPanic
  <1>2. ASSUME ~KernelLoads(loader.image), cause' \in {"memory", "image"}
        PROVE  KernelReason(cause')
    BY <1>2 DEF KernelReason
  <1>3. CASE cause' = "memory"
    BY <1>3 DEF KernelReason
  <1>4. CASE spawn_find
    <2>1. cause' = "archive" /\ find_file(archive, "omega3.elf") = None
      BY <1>1, <1>4 DEF spawn_find, Continue
    <2>2. archive \in Archives
      BY <1>4 DEF spawn_find, Booting, LoaderInv, ArchiveRead
    <2>3. ~Whole(archive, "omega3.elf")
      BY <2>1, <2>2, KernelFinds, FoundIsSome DEF TRAILER
    <2> QED
      BY <2>1, <2>3 DEF KernelReason
  <1>5. CASE spawn_parse
    <2>1. cause' = "image" /\ ~parse(loader.image)
      BY <1>1, <1>5 DEF spawn_parse, Continue
    <2> QED
      BY <1>2, <2>1 DEF KernelLoads
  <1>6. CASE load_segment
    <2>1. /\ cause' = "image" /\ Segment.type = "Load" /\ loader.segment <= Len(loader.image.segments)
          /\ ~SegmentOk(Segment, loader.file.length) \/ SegmentEnd > USER_SPACE_END
      BY <1>1, <1>6 DEF load_segment, Continue
    <2>2. LoaderTypes(loader)
      BY <1>6 DEF load_segment, Booting, LoaderInv, KernelLoader, LoadedSo
    <2>3. loader.segment \in DOMAIN loader.image.segments
      BY <2>1, <2>2, SMT DEF LoaderTypes
    <2>4. ~(SegmentOk(Segment, loader.file.length) /\ SegmentEnd <= USER_SPACE_END)
      <3>1. Segment.address \in Nat /\ Segment.memory_size \in Nat
        BY <2>2, <2>3, SegmentTypes DEF Sized, Segment
      <3>2. SegmentEnd > USER_SPACE_END => ~(SegmentEnd <= USER_SPACE_END)
        BY <3>1, AddressAssumption, SMT DEF SegmentEnd
      <3> QED
        BY <2>1, <3>2
    <2> QED
      BY <1>2, <2>1, <2>3, <2>4 DEF KernelLoads, Segment, SegmentEnd
  <1>7. CASE spawn_page /\ cause' # "memory"
    <2>1. cause' = "image" /\ loader.page \in DOMAIN loader.pages
      BY <1>1, <1>7 DEF spawn_page, Continue
    <2>2. LoadedSo(loader, reserved, TRUE)
      BY <1>7 DEF spawn_page, Booting, LoaderInv, KernelLoader
    <2>3. ~Fits(loader.image, reserved)
      BY <2>1, <2>2, PageTaken
    <2> QED
      BY <1>2, <2>1, <2>3 DEF KernelLoads
  <1>8. CASE load_elf_end
    <2>1. cause' = "image" /\ ~loader.executable_entry /\ loader.segment > Len(loader.image.segments) /\ step = "segment"
      BY <1>1, <1>8 DEF load_elf_end, Continue, Booting
    <2>2. LoaderTypes(loader)
      BY <2>1 DEF LoaderInv, KernelLoader, LoadedSo
    <2>3. ASSUME NEW i \in Loaded(loader.image)
          PROVE  ~Covers(loader.image, i)
      <3>1. i \in Nat /\ i <= Len(loader.image.segments) /\ loader.segment \in Nat /\ Len(loader.image.segments) \in Nat
        <4>1. Len(loader.image.segments) \in Nat
          BY <2>2, SMT DEF LoaderTypes
        <4> QED
          BY <2>2, <4>1, SegmentTypes DEF Loaded, LoaderTypes
      <3>2. i < loader.segment
        BY <2>1, <3>1, SMT
      <3> QED
        BY <2>1, <3>2 DEF EntrySeen
    <2>4. ~InCode(loader.image)
      BY <2>3 DEF InCode, Covers
    <2> QED
      BY <1>2, <2>1, <2>4 DEF KernelLoads
  <1>9. CASE Handover \/ spawn_insert \/ scheduler_start
    BY <1>9 DEF Handover, spawn_insert, scheduler_start
  <1>10. CASE spawn_resources
    BY <1>1, <1>3, <1>10 DEF spawn_resources, Continue
  <1> QED
    BY <1>3, <1>4, <1>5, <1>6, <1>7, <1>8, <1>9, <1>10 DEF bootstrap_spawn

\* An image that fits keeps its pages off the stack and below the end of user space.
LEMMA FitsPages ==
    ASSUME NEW ld, LoaderTypes(ld), Fits(ld.image, StackPages), NEW i \in Loaded(ld.image),
           NEW p \in PagesOf(ld.image.segments[i])
    PROVE  p \notin StackPages /\ p \in Nat /\ PageOf(p) = p /\ p + FRAME_SIZE <= USER_SPACE_END
  <1> DEFINE s == ld.image.segments[i]
  <1>1. Sized(s)
    BY SegmentTypes DEF Loaded
  <1>2. s.address + s.memory_size <= USER_SPACE_END /\ p \notin StackPages
    BY DEF Fits
  <1>3. p \in PagesOf(s)
    OBVIOUS
  <1> HIDE DEF s
  <1>4. PICK a \in Nat : a >= s.address /\ a < s.address + s.memory_size /\ p = PageOf(a)
                         /\ p <= a /\ a < p + FRAME_SIZE
    BY <1>1, <1>3, SegmentPage
  <1>5. a < USER_SPACE_END
    <2>1. s.address + s.memory_size \in Nat
      BY <1>1, SMT DEF Sized
    <2> QED
      BY <1>2, <1>4, <2>1, Sizes, SMT
  <1>6. p + FRAME_SIZE <= USER_SPACE_END
    BY <1>4, <1>5, AddressAssumption, PageBelow
  <1>7. p \in Nat /\ PageOf(p) = p
    BY <1>1, <1>3, SegmentPage
  <1> QED
    BY <1>2, <1>6, <1>7

\* sys_map of a page of the image fails, but for memory, only when the image does not fit.
LEMMA MapRefused ==
    ASSUME LoadedSo(loader, {}, TRUE), CannotMap
    PROVE  ~OmegaLoads(loader.image)
  <1> SUFFICES ASSUME Fits(loader.image, StackPages)
               PROVE  FALSE
    BY DEF OmegaLoads
  <1>1. Fits(loader.image, {})
    BY DEF Fits
  <1>2. /\ LoaderTypes(loader) /\ loader.segment \in Loaded(loader.image)
        /\ loader.page \in PagesOf(loader.image.segments[loader.segment])
    BY DEF LoadedSo
  <1>3. loader.page \in Nat /\ loader.page + FRAME_SIZE <= USER_SPACE_END
    BY <1>2, FitsPages
  <1>4. ~(loader.page + FRAME_SIZE > USER_SPACE_END)
    BY <1>3, Sizes, SMT
  <1>5. loader.page \notin DOMAIN loader.pages
    BY <1>1, PageTaken
  <1> QED
    BY <1>4, <1>5 DEF CannotMap

LEMMA LoadedPage ==
    ASSUME LoadedSo(loader, {}, TRUE)
    PROVE  loader.page \in Nat
  <1>1. /\ LoaderTypes(loader) /\ loader.segment \in Loaded(loader.image)
        /\ loader.page \in PagesOf(loader.image.segments[loader.segment])
    BY DEF LoadedSo
  <1>2. Sized(loader.image.segments[loader.segment])
    BY <1>1, SegmentTypes DEF Loaded
  <1> QED
    BY <1>1, <1>2, SegmentPage

LEMMA StackRefused ==
    ASSUME NEW n \in 0..(STACK_PAGES - 1), loader.page = STACK_TOP - (n + 1) * FRAME_SIZE,
           LoadedSo(loader, StackPart(n), FALSE), CannotMap
    PROVE  ~OmegaLoads(loader.image)
  <1>1. /\ loader.page \in StackPages /\ loader.page \notin StackPart(n)
        /\ ~(loader.page + FRAME_SIZE > USER_SPACE_END)
    BY StackAddresses
  <1>2. loader.page \in DOMAIN loader.pages
    BY <1>1 DEF CannotMap
  <1>3. \E i \in Loaded(loader.image) : loader.page \in PagesOf(loader.image.segments[i])
    BY <1>1, <1>2 DEF LoadedSo, PagesAre, PagesDone
  <1> QED
    BY <1>1, <1>3 DEF OmegaLoads, Fits

\* sys_task_create refuses the entry point or the stack only when the image is wrong.
LEMMA EntryRefused ==
    ASSUME LoadedSo(loader, StackPages, FALSE), loader.segment > Len(loader.image.segments),
           at[omega3] = "create", StackWritable, loader.image.entry \in Nat, OmegaLoads(loader.image)
    PROVE  EntryValid
  <1> DEFINE image == loader.image
             entry == loader.image.entry
             pages == loader.pages
             page == PageOf(entry)
  <1>1. LoaderTypes(loader) /\ Fits(image, StackPages) /\ entry # 0
    BY DEF LoadedSo, OmegaLoads
  <1>2. PICK i \in Loaded(image) : image.segments[i].executable /\ page \in PagesOf(image.segments[i])
    BY DEF OmegaLoads
  <1>3. page \in Nat /\ page + FRAME_SIZE <= USER_SPACE_END
    BY <1>1, <1>2, FitsPages
  <1>4. entry < USER_SPACE_END
    <2>1. entry < page + FRAME_SIZE
      BY Division
    <2> HIDE DEF page, entry
    <2>2. entry \in Nat
      BY DEF entry
    <2> QED
      BY <1>3, <2>1, <2>2, Sizes, SMT
  <1>5. page \in PagesDone(loader, FALSE, i)
    <2>1. i \in Nat /\ i <= Len(image.segments) /\ Len(image.segments) \in Nat /\ loader.segment \in Nat
      <3>1. Len(image.segments) \in Nat
        BY <1>1, SMT DEF LoaderTypes
      <3> QED
        BY <1>1, <3>1, SegmentTypes DEF Loaded, LoaderTypes
    <2>2. i < loader.segment
      BY <2>1, SMT
    <2> QED
      BY <1>2, <2>2 DEF PagesDone
  <1>6. page \in DOMAIN pages /\ pages[page].executable
    <2>1. page \in DOMAIN pages /\ pages[page] = SegmentPageOf(loader, image.segments[i], page)
      BY <1>5 DEF LoadedSo, PagesAre, ContentsAre
    <2>2. SegmentPageOf(loader, image.segments[i], page).executable = image.segments[i].executable
      BY DEF SegmentPageOf, Page
    <2> QED
      BY <1>2, <2>1, <2>2
  <1>7. validate_user_range(pages, STACK_TOP - 1, 1, TRUE)
    <2> DEFINE first == STACK_TOP - 1
               top == STACK_TOP - FRAME_SIZE
    <2>1. /\ STACK_TOP \in Nat /\ 0 < STACK_TOP /\ STACK_TOP <= USER_SPACE_END /\ USER_SPACE_END \in Nat
          /\ USIZE_MAX \in Nat /\ USER_SPACE_END <= USIZE_MAX /\ FRAME_SIZE \in Nat /\ FRAME_SIZE # 0
      BY StackAssumption, AddressAssumption, FrameSizeAssumption
    <2>2. first \in Nat /\ first + 1 = STACK_TOP /\ first + 1 <= USIZE_MAX /\ first < USER_SPACE_END
          /\ first + 1 <= USER_SPACE_END
      BY <2>1, SMT
    <2>3. PageOf(first) = top /\ top \in StackPages
      BY StackAddresses
    <2>4. PageOf(top) = top
      <3>1. top \in Nat /\ top <= top /\ top < top + FRAME_SIZE
        <4>1. top \in Nat
          BY <2>2, <2>3, Division
        <4> HIDE DEF top
        <4> QED
          BY <2>1, <4>1, SMT
      <3> QED
        BY <2>2, <2>3, <3>1, SamePage
    <2>5. Allowed(pages, top, TRUE)
      <3>1. top \in DOMAIN pages
        BY <2>3 DEF LoadedSo, PagesAre
      <3>2. \A j \in Loaded(image) : top \notin PagesOf(image.segments[j])
        BY <1>1, <2>3, FitsPages
      <3>3. pages[top].writable
        BY <3>1, <3>2 DEF StackWritable
      <3> QED
        BY <2>4, <3>1, <3>3 DEF Allowed
    <2>6. ASSUME NEW k \in 0..1, top + k * FRAME_SIZE < STACK_TOP
          PROVE  top + k * FRAME_SIZE = top
      BY <2>1, <2>6, SMT
    <2> HIDE DEF first, top
    <2>7. ASSUME NEW k \in 0..1, PageOf(first) + k * FRAME_SIZE < first + 1
          PROVE  Allowed(pages, PageOf(first) + k * FRAME_SIZE, TRUE)
      BY <2>2, <2>3, <2>5, <2>6, <2>7
    <2>8. validate_user_range(pages, first, 1, TRUE)
      BY <2>2, <2>7 DEF validate_user_range
    <2> QED
      BY <2>8 DEF first
  <1> QED
    BY <1>1, <1>4, <1>6, <1>7 DEF EntryValid

\* A segment whose end is not an address is not the user's.
LEMMA SegmentTooHigh ==
    ASSUME LoaderTypes(loader), loader.segment \in Loaded(loader.image), SegmentEnd > USIZE_MAX
    PROVE  ~OmegaLoads(loader.image)
  <1>1. Segment.address \in Nat /\ Segment.memory_size \in Nat
    BY SegmentTypes DEF Loaded, Segment, Sized
  <1>2. ~(Segment.address + Segment.memory_size <= USER_SPACE_END)
    BY <1>1, AddressAssumption, SMT DEF SegmentEnd
  <1> QED
    BY <1>2 DEF OmegaLoads, Fits, Segment

\* The file lies in the archive, so that a copy that leaves the archive has left the file.
LEMMA ArchiveLeft ==
    ASSUME LoaderInv, step = "user", at[omega3] = "scratch", LeavesArchive
    PROVE  ~DataInFile(loader.image)
  <1> DEFINE begin == loader.file.start
             length == loader.file.length
             a == archive.length
             page == loader.page
             mapped == PageOf(a + FRAME_SIZE - 1)
  <1>1. /\ LoadedSo(loader, {}, TRUE) /\ archive \in Archives /\ find_file(archive, "omega3.elf") # None
        /\ \E name \in {"echo.elf", "client.elf"} : LoaderFor(name)
    BY DEF LoaderInv, OmegaLoader, ArchiveRead, Loading
  <1>2. PICK k \in DOMAIN archive.members :
           archive.members[k].name # TRAILER /\ IsData(archive.members, k, loader.file)
    BY <1>1 DEF LoaderFor, IsFirst, FirstOfName, TRAILER
  <1>3. /\ a \in Nat /\ archive.members \in Seq(MemberHeader)
        /\ DataAt(archive.members, k) + Align4(archive.members[k].file_len) <= a
    BY <1>1, <1>2, ArchivesAssumption
  <1>4. begin \in Nat /\ length \in Nat /\ begin + length <= a
    <2>1. k \in 1..Len(archive.members) /\ archive.members[k] \in MemberHeader
      BY <1>2, <1>3, SMT
    <2>2. DataAt(archive.members, k) \in Nat
      BY <1>3, <2>1, MemberOffsets
    <2>3. archive.members[k].file_len \in Nat
      BY <2>1 DEF MemberHeader
    <2> DEFINE d == DataAt(archive.members, k)
               n == archive.members[k].file_len
               m == Align4(n)
    <2>4. m \in Nat /\ n <= m
      BY <2>3, Aligned
    <2>5. begin = d /\ length = n /\ d \in Nat /\ n \in Nat /\ d + m <= a
      BY <1>2, <1>3, <2>2, <2>3 DEF IsData
    <2> HIDE DEF d, n, m, begin, length, a
    <2> QED
      BY <1>3, <2>4, <2>5, SMT DEF a
  <1>5. mapped \in Nat /\ a <= mapped
    <2> DEFINE x == a + FRAME_SIZE - 1
    <2>1. x \in Nat
      BY <1>3, Sizes, SMT
    <2>2. PageOf(x) \in Nat /\ x < PageOf(x) + FRAME_SIZE
      BY <2>1, Division
    <2> DEFINE m == PageOf(x)
    <2> HIDE DEF m, a
    <2>3. a \in Nat /\ m \in Nat /\ a + FRAME_SIZE - 1 < m + FRAME_SIZE
      BY <1>3, <2>2 DEF m, a
    <2>4. a <= m
      BY <2>3, Sizes, SMT
    <2> QED
      BY <2>3, <2>4 DEF m
  <1>6. /\ loader.segment \in Loaded(loader.image) /\ LoaderTypes(loader) /\ page \in PagesOf(Segment)
    BY <1>1 DEF LoadedSo, Segment
  <1>7. /\ Sized(Segment) /\ Segment.address \in Nat /\ Segment.file_size \in Nat /\ Segment.offset \in Nat
    BY <1>6, SegmentTypes DEF Loaded, Segment, Sized
  <1>8. page \in Nat
    BY <1>6, <1>7, SegmentPage
  <1> DEFINE first == CopyStart(Segment, page)
             last == CopyEnd(Segment, page)
  <1>9. last > first /\ begin + Segment.offset + (last - Segment.address) > mapped
    BY DEF LeavesArchive, leaves_archive
  <1>10. last \in Nat /\ last <= Segment.address + Segment.file_size
    <2>1. first \in Nat
      BY <1>7, <1>8, Sizes, SMT DEF CopyStart, Lesser, Greater
    <2>2. last = Greater(Lesser(page + FRAME_SIZE, Segment.address + Segment.file_size), first)
      BY DEF CopyEnd
    <2> HIDE DEF first, last
    <2> QED
      BY <1>7, <1>8, <1>9, <2>1, <2>2, Sizes, SMT DEF Lesser, Greater
  <1> HIDE DEF first, last, mapped, begin, length, a, page
  <1>11. ~(Segment.offset + Segment.file_size <= length)
    <2> DEFINE offset == Segment.offset
               address == Segment.address
               size == Segment.file_size
    <2>1. /\ begin \in Nat /\ length \in Nat /\ a \in Nat /\ mapped \in Nat
          /\ offset \in Nat /\ address \in Nat /\ size \in Nat /\ last \in Nat
          /\ begin + length <= a /\ a <= mapped /\ last <= address + size
          /\ begin + offset + (last - address) > mapped
      BY <1>3, <1>4, <1>5, <1>7, <1>9, <1>10, Zenon DEF a
    <2> HIDE DEF offset, address, size
    <2>2. begin + offset + size > mapped
      BY <2>1, SMT
    <2>3. ~(offset + size <= length)
      BY <2>1, <2>2, SMT
    <2> QED
      BY <2>3, Zenon DEF offset, size
  <1> QED
    BY <1>6, <1>11 DEF DataInFile, Segment, length

\* omega3 gives up only with a reason.
LEMMA OmegaReasons ==
    ASSUME LoaderInv, HandlesInv, StackWritable, Omega3, cause = "none", cause' # "none"
    PROVE  Reason(cause')
  <1>1. \A why : OmegaPanic(why) \/ OmegaFault(why) => cause' = why
    BY DEF OmegaPanic, OmegaFault, OmegaStops
  <1>2. \A place : OmegaGoto(place) => cause' = cause
    BY DEF OmegaGoto
  <1>3. CASE cause' = "memory"
    BY <1>3 DEF Reason
  <1>4. ASSUME cause' = "image", ~OmegaLoads(loader.image)
        PROVE  Reason(cause')
    BY <1>4 DEF Reason
  <1>5. ASSUME cause' = "handles", TableFull, at[omega3] \in {"as_create", "frame", "stack_frame", "create"}
        PROVE  Reason(cause')
    BY <1>5 DEF Reason, HandlesInv
  <1>6. CASE omega_find
    <2>1. cause' = "archive" /\ omega_find_file(archive, Target) = None /\ machine = "running"
      BY <1>1, <1>2, <1>6 DEF omega_find, Running, InUserMode
    <2>2. archive \in Archives /\ find_file(archive, "omega3.elf") # None
      BY <2>1 DEF LoaderInv, UserLast, ArchiveRead
    <2>3. ~Whole(archive, Target)
      <3>1. Target # TRAILER
        BY DEF Target, TRAILER
      <3> QED
        BY <2>1, <2>2, <3>1, OmegaFinds, FoundIsSome
    <2> QED
      BY <2>1, <2>3 DEF Reason
  <1>7. CASE omega_parse
    BY <1>1, <1>2, <1>4, <1>7 DEF omega_parse, OmegaLoads
  <1>8. CASE omega_as_create \/ FrameAlloc("frame", "scratch") \/ FrameAlloc("stack_frame", "stack_map")
    BY <1>1, <1>2, <1>3, <1>5, <1>8 DEF omega_as_create, FrameAlloc, Running
  <1>9. CASE omega_unmap
    BY <1>2, <1>9 DEF omega_unmap
  <1>14. CASE omega_header
    <2>1. LoaderTypes(loader)
      BY <1>14 DEF omega_header, Running, LoaderInv, OmegaLoader, LoadedSo
    <2>2. CASE ~loader.image.table_ok /\ OmegaPanic("image")
      BY <1>1, <1>4, <2>2 DEF OmegaLoads
    <2>3. CASE /\ loader.segment <= Len(loader.image.segments) /\ OmegaPanic("image")
               /\ Segment.type = "Load" /\ Segment.memory_size > 0 /\ SegmentEnd > USIZE_MAX
      <3>1. loader.segment \in DOMAIN loader.image.segments
        BY <2>1, <2>3, SMT DEF LoaderTypes
      <3>2. loader.segment \in Loaded(loader.image)
        BY <2>3, <3>1 DEF Loaded, Segment
      <3> QED
        BY <1>1, <1>4, <2>1, <2>3, <3>2, SegmentTooHigh
    <2> QED
      BY <1>2, <1>14, <2>2, <2>3 DEF omega_header
  <1>15. CASE omega_scratch
    <2>1. at[omega3] = "scratch" /\ machine = "running" /\ LoadedSo(loader, {}, TRUE)
      BY <1>15 DEF omega_scratch, Running, InUserMode, LoaderInv, OmegaLoader
    <2>2. step = "user"
      BY <2>1 DEF LoaderInv, UserLast
    <2>3. CASE loader.page + FRAME_SIZE > USIZE_MAX /\ OmegaPanic("image")
      <3>1. loader.page \in Nat
        BY <2>1, LoadedPage
      <3>2. loader.page + FRAME_SIZE > USER_SPACE_END
        BY <2>3, <3>1, AddressAssumption, Sizes, SMT
      <3> QED
        BY <1>1, <1>4, <2>1, <2>3, <3>2, MapRefused DEF CannotMap
    <2>4. CASE LeavesArchive /\ (OmegaPanic("image") \/ OmegaFault("image"))
      BY <1>1, <1>4, <2>1, <2>2, <2>4, ArchiveLeft DEF OmegaLoads
    <2> QED
      BY <1>1, <1>2, <1>3, <1>15, <2>3, <2>4 DEF omega_scratch
  <1>10. CASE omega_map
    <2>1. LoadedSo(loader, {}, TRUE)
      BY <1>10 DEF omega_map, Running, LoaderInv, OmegaLoader
    <2> QED
      BY <1>1, <1>2, <1>3, <1>4, <1>10, <2>1, MapRefused DEF omega_map
  <1>11. CASE omega_stack_map
    <2>1. PICK n \in 0..(STACK_PAGES - 1) :
             loader.page = STACK_TOP - (n + 1) * FRAME_SIZE /\ LoadedSo(loader, StackPart(n), FALSE)
      BY <1>11 DEF omega_stack_map, Running, LoaderInv, OmegaLoader
    <2> QED
      BY <1>1, <1>2, <1>3, <1>4, <1>11, <2>1, StackRefused DEF omega_stack_map
  <1>12. CASE omega_create
    <2>1. /\ at[omega3] = "create" /\ LoadedSo(loader, StackPages, FALSE)
          /\ loader.segment > Len(loader.image.segments)
          /\ \E name \in {"echo.elf", "client.elf"} : LoaderFor(name)
      BY <1>12 DEF omega_create, Running, LoaderInv, OmegaLoader, Loading
    <2>2. loader.image.entry \in Nat
      BY <2>1, ImagesAssumption DEF LoaderFor
    <2>3. ~EntryValid => ~OmegaLoads(loader.image)
      BY <2>1, <2>2, EntryRefused
    <2> QED
      BY <1>3, <1>4, <1>5, <1>12, <2>1, <2>3 DEF omega_create
  <1>13. CASE omega_bogus_call
    BY <1>13 DEF omega_bogus_call
  <1> QED
    BY <1>6, <1>7, <1>8, <1>9, <1>10, <1>11, <1>12, <1>13, <1>14, <1>15 DEF Omega3

-----------------------------------------------------------------------------
EndInv == LoaderInv /\ HandlesInv /\ StackWritable /\ EntrySeen /\ Story

LEMMA EndInit == SystemInit => EndInv
  <1> SUFFICES ASSUME SystemInit
               PROVE  EndInv
    OBVIOUS
  <1>1. /\ step = "rsdp" /\ machine = "boot" /\ current = NoTask /\ ready = <<>> /\ state = [t \in TaskId |-> "None"]
        /\ mailbox = [t \in TaskId |-> <<>>] /\ pc = [t \in TaskId |-> "user"]
        /\ at = [t \in TaskId |-> "start"] /\ exit = [t \in TaskId |-> "none"] /\ out = [t \in TaskId |-> <<>>]
        /\ handles = <<>> /\ cause = "none"
    BY DEF SystemInit, ControllerInit, Init, SchedInit
  <1>2. Fresh(omega3) /\ Fresh(echo) /\ Fresh(client) /\ Domains /\ at[omega3] = "start"
    BY <1>1, Programs DEF Fresh, Task, Domains
  <1>3. exit = Exits("none", "none")
    BY <1>1 DEF Exits
  <1>4. Story
    BY <1>1, <1>2, <1>3 DEF Story, BootStory
  <1>5. HandlesInv
    <2>1. <<>> \in Seq(Kinds) /\ DOMAIN <<>> = {}
      BY SMT
    <2> QED
      BY <1>1, <1>2, <2>1 DEF HandlesInv, NoFrame
  <1>6. StackWritable /\ EntrySeen
    BY <1>1, <1>2 DEF StackWritable, EntrySeen, Spawning
  <1> QED
    BY <1>4, <1>5, <1>6, LoaderInit DEF EndInv

LEMMA EndStep == EndInv /\ [SystemNext]_sysVars => EndInv'
  <1> SUFFICES ASSUME EndInv, [SystemNext]_sysVars
               PROVE  EndInv'
    OBVIOUS
  <1>1. LoaderInv' /\ HandlesInv' /\ StackWritable' /\ EntrySeen'
    BY LoaderStep, HandlesStep, StackStep, EntryStep DEF EndInv
  <1>2. CASE step = "user"
    <2>1. at[omega3] \in Loading => DOMAIN loader = LoaderFields
      BY DEF EndInv, LoaderInv, OmegaLoader, Loading, LoadedSo, LoaderTypes
    <2>2. ASSUME Omega3, cause' # "none"
          PROVE  Reason(cause')
      <3>1. OmegaStory
        <4>1. machine = "running" /\ current = omega3
          BY <2>2, ProgramsRun, OneProgramRuns, Programs DEF Omega3, omega_find, omega_parse, omega_as_create,
                omega_header, FrameAlloc, omega_scratch, omega_unmap, omega_map, omega_stack_map, omega_create,
                omega_bogus_call, Running
        <4>2. ~GaveUp
          BY <4>1, Programs DEF GaveUp, Scene
        <4>3. ~Talking
          BY <4>1, Programs DEF Talking, EchoStarts, ClientStarts, ClientSent, EchoWoken, EchoAnswers, EchoAnswered,
                ClientWoken, ClientDone, ClientGone, Scene
        <4> QED
          BY <1>2, <4>2, <4>3 DEF EndInv, Story, UserStory
      <3>2. at[omega3] # "panic"
        BY <2>2 DEF Omega3, omega_find, omega_parse, omega_as_create,
              omega_header, FrameAlloc, omega_scratch, omega_unmap, omega_map, omega_stack_map, omega_create,
              omega_bogus_call, Running
      <3>3. cause = "none"
        BY <3>1, <3>2 DEF OmegaStory
      <3> QED
        BY <2>2, <3>3, OmegaReasons DEF EndInv
    <2>3. UserStory' /\ step' = "user"
      BY <1>2, <2>1, <2>2, ArchiveLeft, UserStoryStep DEF EndInv, Story
    <2> QED
      BY <1>1, <2>3 DEF EndInv, Story
  <1>3. CASE step # "user"
    <2>1. Domains /\ BootStory
      BY <1>3 DEF EndInv, Story
    <2>2. ASSUME bootstrap_spawn, cause' # "none"
          PROVE  KernelReason(cause')
      <3>1. machine = "boot"
        BY <2>1, <2>2, KernelBoots DEF BootStory, Handover
      <3> QED
        BY <2>1, <2>2, <3>1, KernelReasons DEF BootStory, EndInv
    <2> QED
      BY <1>1, <1>3, <2>1, <2>2, BootStep DEF EndInv
  <1> QED
    BY <1>2, <1>3

LEMMA EndInvEnds == EndInv => EndsAsItShould
  <1> SUFFICES ASSUME EndInv, machine \in Halted
               PROVE  EndsAsItShould
    BY DEF EndsAsItShould
  <1>1. machine # "running" /\ machine # "boot"
    BY DEF Halted
  <1>2. CASE step # "user"
    BY <1>1, <1>2 DEF EndInv, Story, BootStory, KernelReason, EndsAsItShould
  <1>3. CASE step = "user" /\ GaveUp
    <2>1. /\ exit[omega3] \in {"1", "SegmentationFault"} /\ Blamed(exit[omega3])
          /\ \A t \in TaskId \ {omega3} : exit[t] = "none"
      <3>1. \A how : Exits(how, "none")[omega3] = how /\ \A t \in TaskId \ {omega3} : Exits(how, "none")[t] = "none"
        BY Programs DEF Exits
      <3> QED
        BY <1>3, <3>1 DEF GaveUp
    <2>2. machine = IF state[echo] = "None" THEN "exited" ELSE "deadlock"
      BY <1>1, <1>3 DEF GaveUp, Scene
    <2> QED
      BY <1>3, <2>1, <2>2 DEF GaveUp, Blamed, Reason, NoFrame, EndsAsItShould
  <1>4. CASE step = "user" /\ Talking
    <2>1. ClientGone /\ cause = "none" /\ exit = Exits("BadSystemCall", "0")
      BY <1>1, <1>4 DEF Talking, EchoStarts, ClientStarts, ClientSent, EchoWoken, EchoAnswers, EchoAnswered,
            ClientWoken, ClientDone, Scene
    <2> QED
      BY <2>1 DEF ClientGone, Asleep, Task, From, Exits, EndsAsItShould
  <1> QED
    BY <1>1, <1>2, <1>3, <1>4 DEF EndInv, Story, UserStory, OmegaStory

\* Whatever the archive and the images contain, and whenever memory or the handle table runs
\* out (kernel_main, and _start of the three programs): when the machine has halted, either
\* the conversation is over as it should be, or the recorded reason is a true one.
THEOREM MachineEndsAsItShould == SystemSpec => []EndsAsItShould
  <1>1. SystemInit => EndInv
    BY EndInit
  <1>2. EndInv /\ [SystemNext]_sysVars => EndInv'
    BY EndStep
  <1>3. EndInv => EndsAsItShould
    BY EndInvEnds
  <1> QED
    BY <1>1, <1>2, <1>3, PTL DEF SystemSpec
=============================================================================
