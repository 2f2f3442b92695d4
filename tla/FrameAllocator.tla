--------------------------- MODULE FrameAllocator ---------------------------
(***************************************************************************)
(* The physical frame allocator (struct FrameAllocator in                  *)
(* src/src/memory/frame.rs), from the memory map of the boot loader to the *)
(* frames it hands out.                                                    *)
(*                                                                         *)
(* The bitmap is the array of frame states that module Bitmap implements;  *)
(* it lies in frames of its own (storage).  An OwnedFrame can be given     *)
(* back once, because it is neither Clone nor Copy: the frames that are    *)
(* out are the set owned.  The contents of frames are not modelled, so     *)
(* alloc and alloc_nozero are the same operation.                          *)
(***************************************************************************)
EXTENDS Integers, Sequences, FiniteSets

CONSTANTS FRAME_SIZE,      \* bytes of a frame
          ADDRESS_LIMIT,   \* usize::MAX + 1
          MemoryMaps,      \* memory maps the boot loader may pass
          NoFrame,         \* Option::None for a frame
          NoAnswer         \* the last call was not alloc

\* "Reserved" stands for every kind that is neither tracked nor reclaimed.
MemoryRegionKind == {"Usable", "Reserved", "AcpiReclaimable", "BootloaderReclaimable"}

MemoryRegion == [start : Nat, length : Nat, kind : MemoryRegionKind]

Disjoint(r, s) == r.start + r.length <= s.start \/ s.start + s.length <= r.start

ASSUME SizesAssumption == FRAME_SIZE \in Nat \ {0} /\ ADDRESS_LIMIT \in Nat

\* Memory that is usable, or becomes so when the boot loader is done, overlaps
\* no other entry of the map.
ASSUME MemoryMapsAssumption ==
    \A map \in MemoryMaps :
        /\ map \in Seq(MemoryRegion)
        /\ \A i, j \in DOMAIN map :
              i # j /\ map[i].kind \in {"Usable", "BootloaderReclaimable"}
                  => Disjoint(map[i], map[j])

ASSUME NoFrameAssumption == NoFrame # NoAnswer /\ {NoFrame, NoAnswer} \cap Nat = {}

VARIABLES memory_map,           \* boot_info.memory_regions()
          phase,                \* "boot", then "running", "failed" or "panic"
          frame,                \* frame[f]: the state of frame f in the bitmap
          frame_count,          \* frames the bitmap describes
          storage,              \* the frames the bitmap lies in
          next_search,          \* where the next search starts
          allocatable_frames,
          free_frames,
          owned,                \* frames out as OwnedFrame
          result,               \* what alloc answered, if it was called last
          reclaimed             \* kinds passed to reclaim_regions so far

vars == <<memory_map, phase, frame, frame_count, storage, next_search,
          allocatable_frames, free_frames, owned, result, reclaimed>>

-----------------------------------------------------------------------------
\* usable_frame_range: Err(AddressOverflow), or the frames from the first that
\* starts in the region up to the last that ends in it.
Overflows(r) ==
    \/ r.start + r.length >= ADDRESS_LIMIT
    \/ r.start + (FRAME_SIZE - 1) >= ADDRESS_LIMIT

FirstFrame(r) == (r.start + FRAME_SIZE - 1) \div FRAME_SIZE

\* Variant: the end is rounded up instead of down.
EndFrame_rounded_up(r) == (r.start + r.length + FRAME_SIZE - 1) \div FRAME_SIZE

EndFrame(r) == (r.start + r.length) \div FRAME_SIZE
usable_frame_range(r) == FirstFrame(r)..(EndFrame(r) - 1)

should_track(kind) == kind \in {"Usable", "BootloaderReclaimable", "AcpiReclaimable"}
can_store_bitmap(kind) == kind = "Usable"
is_initially_free(kind) == kind = "Usable"

\* Ends of the ranges the bitmap must describe, and the largest of them.
TrackedEnds(map) ==
    {EndFrame(map[i]) : i \in {i \in DOMAIN map :
        should_track(map[i].kind) /\ FirstFrame(map[i]) < EndFrame(map[i])}}

IsHighest(map, n) == n \in TrackedEnds(map) /\ \A e \in TrackedEnds(map) : e <= n

\* bitmap_frame_count, with four frames per byte.
BitmapFrames(n) == ((n + 3) \div 4 + FRAME_SIZE - 1) \div FRAME_SIZE

\* Region i is the first one that can hold the bitmap of n frames.
CanStore(map, i, n) ==
    /\ can_store_bitmap(map[i].kind)
    /\ FirstFrame(map[i]) < EndFrame(map[i])
    /\ BitmapFrames(n) <= EndFrame(map[i]) - FirstFrame(map[i])

StoredIn(map, i, n) ==
    /\ i \in DOMAIN map
    /\ CanStore(map, i, n)
    /\ \A j \in 1..(i - 1) : ~CanStore(map, j, n)

\* The frames set_state(.., Free) is called for, one pair for every call.
InitiallyFree(map, stored) ==
    UNION {{<<i, f>> : f \in usable_frame_range(map[i]) \ stored} :
              i \in {i \in DOMAIN map : is_initially_free(map[i].kind)}}

-----------------------------------------------------------------------------
Init ==
    /\ memory_map \in MemoryMaps
    /\ phase = "boot"
    /\ frame = [f \in {} |-> "Reserved"]
    /\ frame_count = 0
    /\ storage = {}
    /\ next_search = 0
    /\ allocatable_frames = 0
    /\ free_frames = 0
    /\ owned = {}
    /\ result = NoAnswer
    /\ reclaimed = {}

\* AddressOverflow, NoUsableFrames and NoBitmapStorage: the kernel stops.
NewFails ==
    /\ phase = "boot"
    /\ \/ \E i \in DOMAIN memory_map :
             should_track(memory_map[i].kind) /\ Overflows(memory_map[i])
       \/ TrackedEnds(memory_map) = {}
       \/ \E n \in TrackedEnds(memory_map) :
             /\ IsHighest(memory_map, n)
             /\ \A i \in DOMAIN memory_map : ~CanStore(memory_map, i, n)
    /\ phase' = "failed"
    /\ UNCHANGED <<memory_map, frame, frame_count, storage, next_search,
                   allocatable_frames, free_frames, owned, result, reclaimed>>

new ==
    /\ phase = "boot"
    /\ \A i \in DOMAIN memory_map :
          should_track(memory_map[i].kind) => ~Overflows(memory_map[i])
    /\ \E n \in TrackedEnds(memory_map), i \in DOMAIN memory_map :
          /\ IsHighest(memory_map, n)
          /\ StoredIn(memory_map, i, n)
          /\ LET first == FirstFrame(memory_map[i])
                 stored == first..(first + BitmapFrames(n) - 1)
                 free == InitiallyFree(memory_map, stored)
             IN  /\ storage' = stored
                 /\ frame_count' = n
                 /\ frame' = [f \in 0..(n - 1) |->
                                IF \E c \in free : c[2] = f THEN "Free" ELSE "Reserved"]
                 /\ allocatable_frames' = Cardinality(free)
                 /\ free_frames' = Cardinality(free)
                 /\ next_search' = first + BitmapFrames(n)
    /\ phase' = "running"
    /\ UNCHANGED <<memory_map, owned, result, reclaimed>>

-----------------------------------------------------------------------------
\* find_free_in(start, end) finds f.
FoundIn(f, start, end) ==
    /\ f \in start..(end - 1)
    /\ frame[f] = "Free"
    /\ \A g \in start..(f - 1) : frame[g] # "Free"

NoneIn(start, end) == \A f \in start..(end - 1) : frame[f] # "Free"

\* find_free_frame: Some(f).
find_free_frame(f) ==
    \/ FoundIn(f, next_search, frame_count)
    \/ NoneIn(next_search, frame_count) /\ FoundIn(f, 0, next_search)

\* Variant: the frames before next_search are not searched.
NoFreeFrame_no_wrap == NoneIn(next_search, frame_count)

\* find_free_frame: None.
NoFreeFrame == NoneIn(next_search, frame_count) /\ NoneIn(0, next_search)

\* alloc_nozero: Some(f).
alloc ==
    /\ phase = "running"
    /\ free_frames > 0
    /\ \E f \in 0..(frame_count - 1) :
          /\ find_free_frame(f)
          /\ frame' = [frame EXCEPT ![f] = "Allocated"]
          /\ free_frames' = free_frames - 1
          /\ next_search' = f + 1
          /\ owned' = owned \cup {f}
          /\ result' = f
    /\ UNCHANGED <<memory_map, phase, frame_count, storage, allocatable_frames, reclaimed>>

\* alloc_nozero: None.
alloc_none ==
    /\ phase = "running"
    /\ free_frames = 0 \/ NoFreeFrame
    /\ result' = NoFrame
    /\ UNCHANGED <<memory_map, phase, frame, frame_count, storage, next_search,
                   allocatable_frames, free_frames, owned, reclaimed>>

\* a.min(b)
Least(a, b) == IF a <= b THEN a ELSE b

\* Variant: the count of free frames is forgotten.
dealloc_uncounted(f) ==
    /\ phase = "running"
    /\ owned' = owned \ {f}
    /\ \/ /\ frame[f] = "Allocated"
          /\ frame' = [frame EXCEPT ![f] = "Free"]
          /\ next_search' = Least(next_search, f)
    /\ result' = NoAnswer
    /\ UNCHANGED <<memory_map, phase, frame_count, storage, allocatable_frames,
                   free_frames, reclaimed>>

\* The caller gives up the OwnedFrame; a frame that is not allocated panics
\* (after a panic nothing runs, whatever the counters say).
dealloc(f) ==
    /\ phase = "running"
    /\ owned' = owned \ {f}
    /\ phase' = IF frame[f] = "Allocated" THEN phase ELSE "panic"
    /\ frame' = [frame EXCEPT ![f] = IF @ = "Allocated" THEN "Free" ELSE @]
    /\ free_frames' = free_frames + 1
    /\ next_search' = Least(next_search, f)
    /\ result' = NoAnswer
    /\ UNCHANGED <<memory_map, frame_count, storage, allocatable_frames, reclaimed>>

-----------------------------------------------------------------------------
\* Variant: frames that are in use are reclaimed too.
Reclaimable_in_use(kind) ==
    {f \in UNION {usable_frame_range(memory_map[i]) :
                     i \in {i \in DOMAIN memory_map : memory_map[i].kind = kind}} :
        f \in DOMAIN frame /\ frame[f] # "Free"}

\* The frames of all regions of this kind that are still reserved.
Reclaimable(kind) ==
    {f \in UNION {usable_frame_range(memory_map[i]) :
                     i \in {i \in DOMAIN memory_map : memory_map[i].kind = kind}} :
        f \in DOMAIN frame /\ frame[f] = "Reserved"}

\* Calls for other kinds return at once.  The bitmap panics on a frame it does
\* not describe.
reclaim_regions(kind) ==
    /\ phase = "running"
    /\ kind \in {"BootloaderReclaimable", "AcpiReclaimable"}
    /\ frame' = [f \in DOMAIN frame |->
                    IF f \in Reclaimable(kind) THEN "Free" ELSE frame[f]]
    /\ allocatable_frames' = allocatable_frames + Cardinality(Reclaimable(kind))
    /\ free_frames' = free_frames + Cardinality(Reclaimable(kind))
    /\ \E n \in Reclaimable(kind) \cup {next_search} :
          /\ \A m \in Reclaimable(kind) \cup {next_search} : n <= m
          /\ next_search' = n
    /\ phase' = IF \A i \in DOMAIN memory_map : memory_map[i].kind = kind =>
                       usable_frame_range(memory_map[i]) \subseteq DOMAIN frame
                THEN phase ELSE "panic"
    /\ reclaimed' = reclaimed \cup {kind}
    /\ result' = NoAnswer
    /\ UNCHANGED <<memory_map, frame_count, storage, owned>>

\* hcf, after a failed start or a panic.
Stopped ==
    /\ phase \in {"failed", "panic"}
    /\ UNCHANGED vars

Next ==
    \/ new
    \/ NewFails
    \/ alloc
    \/ alloc_none
    \/ \E f \in owned : dealloc(f)
    \/ \E kind \in MemoryRegionKind : reclaim_regions(kind)
    \/ Stopped

Spec == Init /\ [][Next]_vars

-----------------------------------------------------------------------------
\* The bitmap describes exactly frame_count frames, the search starts inside
\* it or at its end, and every frame that is out is described.
TypeOK ==
    /\ memory_map \in MemoryMaps
    /\ phase \in {"boot", "running", "failed", "panic"}
    /\ frame_count \in Nat
    /\ frame \in [0..(frame_count - 1) -> {"Reserved", "Free", "Allocated"}]
    /\ next_search \in 0..frame_count
    /\ owned \subseteq 0..(frame_count - 1)
    /\ reclaimed \subseteq MemoryRegionKind

FramesIn(s) == {f \in DOMAIN frame : frame[f] \in s}

\* The counters, which decide whether alloc searches at all, agree with the
\* bitmap whatever was allocated, freed and reclaimed.
CountsMatchBitmap ==
    /\ free_frames = Cardinality(FramesIn({"Free"}))
    /\ allocatable_frames = Cardinality(FramesIn({"Free", "Allocated"}))

\* Frame f lies in region r to the last byte.
Inside(f, r) ==
    r.start <= f * FRAME_SIZE /\ (f + 1) * FRAME_SIZE <= r.start + r.length

\* A frame that is free or in use belongs to usable memory, or to memory that
\* has been reclaimed, to its last byte, and never to the bitmap itself.
OnlyUsableMemory ==
    \A f \in FramesIn({"Free", "Allocated"}) :
        /\ f \notin storage
        /\ \E i \in DOMAIN memory_map :
              /\ memory_map[i].kind \in {"Usable"} \cup reclaimed
              /\ Inside(f, memory_map[i])

\* "attempted to free free frame", "attempted to free reserved frame" and
\* "frame index out of bounds" are never reached.  (The direct map, outside of which a frame
\* is a panic too, is not modelled, and the map given to reclaim_regions is the one that
\* new has accepted.)
NoPanic == phase # "panic"

Abstract == INSTANCE FramePool WITH pool <- FramesIn({"Free"})

\* The allocator is a pool: no frame is ever owned twice, and a request fails
\* only when no frame is free, wherever the search starts.
ImplementsFramePool == Abstract!Spec
=============================================================================
