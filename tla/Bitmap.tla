------------------------------- MODULE Bitmap -------------------------------
(***************************************************************************)
(* The bitmap of the frame allocator (struct Bitmap in                     *)
(* src/src/memory/frame.rs): two bits per frame, four frames per byte.     *)
(***************************************************************************)
EXTENDS Integers

CONSTANT FRAMES     \* frame_count: the frames the bitmap describes

ASSUME FrameCountAssumption == FRAMES \in Nat \ {0}

VARIABLES bytes,     \* the storage of the bitmap
          read       \* what the last call of state() found

bitmapVars == <<bytes, read>>

Frame == 0..(FRAMES - 1)

\* bitmap_bytes: frame_count.div_ceil(4).
BitmapByte == 0..((FRAMES + 3) \div 4 - 1)

FrameState == {"Reserved", "Free", "Allocated"}

\* The two bits of a state; the fourth pattern is "invalid frame state".
Code(s) == CASE s = "Reserved" -> 0 [] s = "Free" -> 1 [] s = "Allocated" -> 2
Decode(c) ==
    CASE c = 0 -> "Reserved" [] c = 1 -> "Free" [] c = 2 -> "Allocated" [] c = 3 -> "panic"

\* Variant: the shift is not doubled, so neighbours overlap.
Weight_overlapping(f) ==
    CASE f % 4 = 0 -> 1 [] f % 4 = 1 -> 2 [] f % 4 = 2 -> 4 [] f % 4 = 3 -> 8

\* 1 << shift, where shift is (frame_idx % 4) * 2.
Weight(f) ==
    CASE f % 4 = 0 -> 1 [] f % 4 = 1 -> 4 [] f % 4 = 2 -> 16 [] f % 4 = 3 -> 64

\* (byte >> shift) & 0b11
Field(byte, f) == (byte \div Weight(f)) % 4

\* (byte & !mask) | (c << shift)
WithField(byte, f, c) == byte - Field(byte, f) * Weight(f) + c * Weight(f)

\* write_bytes(bitmap_virtual, 0, ..) in FrameAllocator::new.
BitmapInit ==
    /\ bytes = [b \in BitmapByte |-> 0]
    /\ read = "Reserved"

StateOf(f) == Decode(Field(bytes[f \div 4], f))

state(f) ==
    /\ read' = StateOf(f)
    /\ UNCHANGED bytes

set_state(f, s) ==
    /\ bytes' = [bytes EXCEPT ![f \div 4] = WithField(@, f, Code(s))]
    /\ UNCHANGED read

BitmapNext == \E f \in Frame : state(f) \/ \E s \in FrameState : set_state(f, s)

BitmapSpec == BitmapInit /\ [][BitmapNext]_bitmapVars

-----------------------------------------------------------------------------
\* Every byte of the storage stays a byte, at every shift.
BitmapTypeOK ==
    /\ bytes \in [BitmapByte -> 0..255]
    /\ read \in FrameState \cup {"panic"}

\* No frame ever shows the fourth bit pattern, for which state() panics.
NoInvalidState == read # "panic" /\ \A f \in Frame : StateOf(f) # "panic"

PerFrame == INSTANCE FrameStates WITH
    frame_count <- FRAMES, states <- [f \in Frame |-> StateOf(f)]

\* The packed bytes behave as one variable per frame: set_state changes the
\* frame it is given and none of the three that share its byte.
ImplementsFrameStates == PerFrame!Spec
=============================================================================
