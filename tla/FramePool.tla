----------------------------- MODULE FramePool -----------------------------
(***************************************************************************)
(* What the frame allocator promises: a pool of frames.  A frame is handed *)
(* out only while it is in the pool, so no two owners ever hold the same   *)
(* one; a request is refused only when the pool is empty; only a frame     *)
(* that nobody owns is added to the pool.                                  *)
(***************************************************************************)
CONSTANTS NoFrame,    \* the request was refused
          NoAnswer    \* the last step was no request

VARIABLES pool,      \* frames nobody uses
          owned,     \* frames that were handed out and not given back
          result     \* what the last request answered

Init ==
    /\ pool = {}
    /\ owned = {}
    /\ result = NoAnswer

Alloc(f) ==
    /\ pool' = pool \ {f}
    /\ owned' = owned \cup {f}
    /\ result' = f

Refuse ==
    /\ pool = {}
    /\ result' = NoFrame
    /\ UNCHANGED <<pool, owned>>

Dealloc(f) ==
    /\ owned' = owned \ {f}
    /\ pool' = pool \cup {f}
    /\ result' = NoAnswer

\* Memory that was not managed so far joins the pool.
Grow ==
    /\ pool \subseteq pool'
    /\ pool' \cap owned = {}
    /\ result' = NoAnswer
    /\ UNCHANGED owned

Next ==
    \/ \E f \in pool : Alloc(f)
    \/ Refuse
    \/ \E f \in owned : Dealloc(f)
    \/ Grow

Spec == Init /\ [][Next]_<<pool, owned, result>>
=============================================================================
