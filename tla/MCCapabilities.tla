--------------------------- MODULE MCCapabilities ---------------------------
(***************************************************************************)
(* Capabilities for TLC.  The calls treat all frames alike.                *)
(***************************************************************************)
EXTENDS Capabilities

LOCAL T == INSTANCE TLC

FrameSymmetry == T!Permutations(Frame)
=============================================================================
