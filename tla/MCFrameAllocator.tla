-------------------------- MODULE MCFrameAllocator --------------------------
(***************************************************************************)
(* Memory maps of three neighbouring regions whose borders need not be     *)
(* multiples of the frame size, and maps in which ACPI regions overlap.    *)
(***************************************************************************)
EXTENDS FrameAllocator

Region(from, to, k) == [start |-> from, length |-> to - from, kind |-> k]

Neighbours ==
    {<<Region(0, a, k[1]), Region(a, b, k[2]), Region(b, 12, k[3])>> :
        a \in {3, 4, 5}, b \in {7, 8}, k \in [1..3 -> MemoryRegionKind]}

\* Ten frames, so that the bitmap takes two and the first region cannot hold
\* it; the last region may reach the address limit.
Large ==
    {<<Region(a, a + 3, k), Region(a + 3, 17, "Usable"), Region(17, 18 + b, k)>> :
        a \in {0, 1}, b \in {2, 3}, k \in {"Usable", "AcpiReclaimable"}}

Overlapping ==
    {<<Region(0, 5, "AcpiReclaimable"), Region(2, 6, k), Region(6, 12, "Usable")>> :
        k \in {"AcpiReclaimable", "Reserved"}}

MCMemoryMaps == Neighbours \cup Large \cup Overlapping
=============================================================================
