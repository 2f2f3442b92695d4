------------------------------- MODULE PageMap -------------------------------
(***************************************************************************)
(* What the page tables promise, without any table: every user space maps  *)
(* its own pages, all spaces share one map of the kernel's pages, and an   *)
(* operation changes the one page it is about or nothing.                  *)
(***************************************************************************)
CONSTANTS Users, Kernel, UserPage, KernelPage, Leaf, NotMapped

VARIABLES view,    \* view[s][p]: what space s maps page p to
          live,    \* user spaces that exist
          ret      \* what the last operation answered

vars == <<view, live, ret>>

Page == UserPage \cup KernelPage
Space == Users \cup {Kernel}
Empty == [p \in Page |-> NotMapped]

Init ==
    /\ view = [s \in Space |-> Empty]
    /\ live = {}
    /\ ret = "Ok"

\* A change to a user's page is seen in that space only, a change to one of
\* the kernel's pages in every space.
Seen(s) == IF s = Kernel THEN {Kernel} \cup live ELSE {s}

Update(s, p, leaf) ==
    view' = [t \in Space |->
                IF t \in Seen(s) THEN [view[t] EXCEPT ![p] = leaf] ELSE view[t]]

Map(s, p, leaf) ==
    /\ view[s][p] = NotMapped
    /\ Update(s, p, leaf)
    /\ ret' = "Ok"
    /\ UNCHANGED live

Unmap(s, p) ==
    /\ view[s][p] # NotMapped
    /\ Update(s, p, NotMapped)
    /\ ret' = "Ok"
    /\ UNCHANGED live

Create(u) ==
    /\ u \notin live
    /\ view' = [view EXCEPT ![u] = [p \in Page |->
                   IF p \in KernelPage THEN view[Kernel][p] ELSE NotMapped]]
    /\ live' = live \cup {u}
    /\ ret' = "Ok"

Destroy(u) ==
    /\ u \in live
    /\ view' = [view EXCEPT ![u] = Empty]
    /\ live' = live \ {u}
    /\ ret' = "Ok"

\* There may be no memory for the tables that a new page or space needs.
OutOfFrames ==
    /\ ret' = "OutOfFrames"
    /\ UNCHANGED <<view, live>>

AlreadyMapped(s, p) ==
    /\ view[s][p] # NotMapped
    /\ ret' = "AlreadyMapped"
    /\ UNCHANGED <<view, live>>

NothingMapped(s, p) ==
    /\ view[s][p] = NotMapped
    /\ ret' = "NotMapped"
    /\ UNCHANGED <<view, live>>

Operation(s, p) ==
    \/ \E leaf \in Leaf : Map(s, p, leaf)
    \/ Unmap(s, p)
    \/ AlreadyMapped(s, p)
    \/ NothingMapped(s, p)

Next ==
    \/ OutOfFrames
    \/ \E u \in live, p \in UserPage : Operation(u, p)
    \/ \E p \in KernelPage : Operation(Kernel, p)
    \/ \E u \in Users : Create(u) \/ Destroy(u)

Spec == Init /\ [][Next]_vars
==============================================================================
