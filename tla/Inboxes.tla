------------------------------ MODULE Inboxes ------------------------------
(***************************************************************************)
(* What message passing promises to the tasks, without a scheduler: every  *)
(* task has a bounded inbox; a send that answers Ok has put its message at *)
(* the end of the inbox, a send that answers anything else has changed     *)
(* nothing; a receive that answers Ok hands out the oldest message and     *)
(* takes it away; a receive that fails leaves every message where it is,   *)
(* and it only fails because of its own arguments.                         *)
(***************************************************************************)
EXTENDS Integers, Sequences

CONSTANTS TaskId, Payload, Capacity, NoTask

VARIABLES inbox,     \* inbox[t]: messages sent to t, oldest first
          reply      \* what the system call of this step answered, if any

vars == <<inbox, reply>>

Reply(call, task, status, msg) ==
    [call |-> call, task |-> task, status |-> status, msg |-> msg]

NoReply == Reply("none", NoTask, "Ok", <<>>)

Init ==
    /\ inbox = [t \in TaskId |-> <<>>]
    /\ reply = NoReply

Accept(s, d, p) ==
    /\ Len(inbox[d]) < Capacity
    /\ inbox' = [inbox EXCEPT ![d] = Append(@, [sender |-> s, data |-> p])]
    /\ reply' = Reply("send", s, "Ok", <<>>)

RefuseSend(s) ==
    /\ \/ \E status \in {"InvalidArgument", "BadAddress", "NoSuchTask"} :
             reply' = Reply("send", s, status, <<>>)
       \/ /\ \E d \in TaskId : Len(inbox[d]) = Capacity
          /\ reply' = Reply("send", s, "OutOfMemory", <<>>)
    /\ UNCHANGED inbox

HandOut(t) ==
    /\ inbox[t] # <<>>
    /\ reply' = Reply("recv", t, "Ok", <<Head(inbox[t])>>)
    /\ inbox' = [inbox EXCEPT ![t] = Tail(@)]

RefuseReceive(t) ==
    /\ \E status \in {"InvalidArgument", "BadAddress"} :
          reply' = Reply("recv", t, status, <<>>)
    /\ UNCHANGED inbox

\* A step that answers neither a send nor a receive.
Other ==
    /\ reply' = NoReply
    /\ UNCHANGED inbox

Next ==
    \/ \E s, d \in TaskId, p \in Payload : Accept(s, d, p)
    \/ \E t \in TaskId : RefuseSend(t) \/ HandOut(t) \/ RefuseReceive(t)
    \/ Other

Spec == Init /\ [][Next]_vars
=============================================================================
