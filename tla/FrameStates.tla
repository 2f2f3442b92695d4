---------------------------- MODULE FrameStates ----------------------------
(***************************************************************************)
(* What the frame bitmap promises: one state per frame, each written and   *)
(* read on its own.                                                        *)
(***************************************************************************)
EXTENDS Integers

CONSTANTS frame_count, FrameState

VARIABLES states,     \* states[f]: the state of frame f
          read        \* the state the last read found

Init ==
    /\ states = [f \in 0..(frame_count - 1) |-> "Reserved"]
    /\ read = "Reserved"

Set(f, s) ==
    /\ states' = [states EXCEPT ![f] = s]
    /\ UNCHANGED read

Get(f) ==
    /\ read' = states[f]
    /\ UNCHANGED states

Next == \E f \in 0..(frame_count - 1) : Get(f) \/ \E s \in FrameState : Set(f, s)

Spec == Init /\ [][Next]_<<states, read>>
=============================================================================
