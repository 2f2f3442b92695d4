------------------------------ MODULE PageTable ------------------------------
(***************************************************************************)
(* Page tables and the address spaces made of them                         *)
(* (src/src/arch/x86_64/paging.rs, src/src/memory/address_space.rs).       *)
(*                                                                         *)
(* A page is the sequence of indices that leads to it: Levels indices into *)
(* intermediate tables, the first of them into the root, and one into the  *)
(* last table.  The root indices in KernelIndex are the upper half of the  *)
(* root, whose entries new_user copies; everything below them is shared.   *)
(* Tables are allocated from a pool of frames and given back when they are *)
(* empty.  The CPU may cache the translation of a page whenever it uses    *)
(* it.  Large pages never occur in tables the kernel builds.               *)
(***************************************************************************)
EXTENDS Integers, FiniteSets

CONSTANTS Levels,        \* intermediate levels: 3, or 4 with five-level paging
          Index,         \* indices into a table
          KernelIndex,   \* root indices of the kernel's half
          UserPage,      \* pages of the user half in use
          BootPage,      \* pages mapped before the first user space: image, HHDM, MMIO
          ImagePage,     \* the kernel image among them
          StackPage,     \* kernel stacks, mapped and unmapped at any time
          TableFrame,    \* frames for tables
          Data,          \* frames that pages are mapped to
          Users,         \* user address spaces
          Kernel,        \* the kernel address space
          NoFrame,
          NotMapped      \* an entry that is not present

Space == Users \cup {Kernel}
KernelPage == BootPage \cup StackPage
Page == UserPage \cup KernelPage
Path == 0..Levels

ASSUME LevelsAssumption == Levels \in Nat \ {0} /\ TableFrame \subseteq Nat

ASSUME HalvesAssumption ==
    /\ Index # {}
    /\ KernelIndex \subseteq Index
    /\ Page \subseteq [1..(Levels + 1) -> Index]
    /\ \A p \in UserPage : p[1] \notin KernelIndex
    /\ \A p \in KernelPage : p[1] \in KernelIndex
    /\ ImagePage \subseteq BootPage
    /\ StackPage \cap BootPage = {}

\* KERNEL_STACK_BASE and the kernel image lie under one root entry.
ASSUME StacksBesideImage ==
    \A p \in StackPage : \E q \in ImagePage : p[1] = q[1]

ASSUME NamesAssumption ==
    /\ Kernel \notin Users
    /\ NoFrame \notin TableFrame
    /\ NotMapped \notin [table : TableFrame, user : BOOLEAN] \cup [data : Data, user : BOOLEAN]

VARIABLES tables,    \* tables[f][i]: entry i of the table in frame f
          root,      \* root[s]: the root table of space s
          free,      \* frames of the pool that are free
          cr3,       \* the active space
          tlb,       \* cached translations
          ret        \* what the last operation answered

vars == <<tables, root, free, cr3, tlb, ret>>

\* An entry of an intermediate table, and an entry of a last table.
TableEntry == [table : TableFrame, user : BOOLEAN]
Leaf == [data : Data, user : BOOLEAN]

EmptyTable == [i \in Index |-> NotMapped]

Live == {u \in Users : root[u] # NoFrame}

\* allocator.alloc: dealloc moves the search back to every frame it frees, so
\* it finds the lowest free frame.
IsLowest(f, pool) == f \in pool /\ \A g \in pool : f <= g

\* PageTable::new for the kernel; its first mappings are made in Next.
Init ==
    /\ \E f \in TableFrame :
          /\ IsLowest(f, TableFrame)
          /\ root = [s \in Space |-> IF s = Kernel THEN f ELSE NoFrame]
          /\ free = TableFrame \ {f}
    /\ tables = [f \in TableFrame |-> EmptyTable]
    /\ cr3 = Kernel
    /\ tlb = {}
    /\ ret = "Ok"

-----------------------------------------------------------------------------
\* The tables on the way from the root of s to page p, as far as there are
\* any: Walk(s, p)[n] is the table that index n leads to.
Walk(s, p) ==
    LET t[n \in Path] ==
            IF n = 0 THEN root[s]
            ELSE LET up == t[n - 1]
                 IN  IF up = NoFrame THEN NoFrame
                     ELSE IF tables[up][p[n]] = NotMapped THEN NoFrame
                     ELSE tables[up][p[n]].table
    IN  t

\* to_physical and mapping: the entry for page p in space s.
Lookup(s, p) ==
    LET last == Walk(s, p)[Levels]
    IN  IF last = NoFrame THEN NotMapped ELSE tables[last][p[Levels + 1]]

\* mapping().permissions.user_accessible: every entry on the way allows it.
UserAccessible(s, p) ==
    /\ Lookup(s, p) # NotMapped
    /\ Lookup(s, p).user
    /\ \A n \in 1..Levels : tables[Walk(s, p)[n - 1]][p[n]].user

\* The number of indices after which the walk of map ends.
Depth(walk) == CHOOSE n \in Path :
    walk[n] # NoFrame /\ \A k \in Path : k > n => walk[k] = NoFrame

\* The tables after apply_user_upgrades: a user page needs the user bit in
\* every entry on its way.
Upgraded(walk, p, leaf) ==
    [f \in TableFrame |-> [i \in Index |->
        IF leaf.user /\ \E n \in 1..Depth(walk) : walk[n - 1] = f /\ p[n] = i
        THEN [tables[f][i] EXCEPT !.user = TRUE]
        ELSE tables[f][i]]]

\* Variant: the entries of new tables never have the user bit.
NewEntry_kernel_only(f, leaf) == [table |-> f, user |-> FALSE]

\* PageTableEntry::new_table
NewEntry(f, leaf) == [table |-> f, user |-> leaf.user]

\* The tables after the new ones are linked below the walk and the page is
\* entered in the last one; new[n] is the table that index n will lead to.
Published(walk, p, leaf, new) ==
    LET table(n) == IF n <= Depth(walk) THEN walk[n] ELSE new[n]
    IN  [f \in TableFrame |-> [i \in Index |->
            IF f = table(Levels) /\ i = p[Levels + 1] THEN leaf
            ELSE IF \E n \in DOMAIN new : f = table(n - 1) /\ i = p[n]
                 THEN NewEntry(new[CHOOSE n \in DOMAIN new : f = table(n - 1) /\ i = p[n]], leaf)
                 ELSE Upgraded(walk, p, leaf)[f][i]]]

\* One frame for each missing table, in the order of the levels.
NewTables(walk) ==
    {new \in [(Depth(walk) + 1)..Levels -> free] :
        \A n \in DOMAIN new :
            IsLowest(new[n], free \ {new[m] : m \in (Depth(walk) + 1)..(n - 1)})}

\* Variant: nothing is flushed.
FlushIfActive_never(s, p) == tlb' = tlb

\* flush_tlb_if_active: invlpg, if the changed space is the active one.
FlushIfActive(s, p) ==
    tlb' = IF cr3 = s THEN {e \in tlb : e.page # p} ELSE tlb

-----------------------------------------------------------------------------
MapOk(s, p, leaf) ==
    /\ Lookup(s, p) = NotMapped
    /\ \E new \in NewTables(Walk(s, p)) :
          /\ tables' = Published(Walk(s, p), p, leaf, new)
          /\ free' = free \ {new[n] : n \in DOMAIN new}
    /\ FlushIfActive(s, p)
    /\ ret' = "Ok"
    /\ UNCHANGED <<root, cr3>>

MapAlreadyMapped(s, p) ==
    /\ Lookup(s, p) # NotMapped
    /\ ret' = "AlreadyMapped"
    /\ UNCHANGED <<tables, root, free, cr3, tlb>>

\* The frames allocated so far go back and nothing has been linked yet.
MapOutOfFrames(s, p) ==
    /\ Cardinality(free) < Levels - Depth(Walk(s, p))
    /\ ret' = "OutOfFrames"
    /\ UNCHANGED <<tables, root, free, cr3, tlb>>

map(s, p, leaf) == MapOk(s, p, leaf) \/ MapAlreadyMapped(s, p) \/ MapOutOfFrames(s, p)

\* Variant: a table counts as empty when the table below it was.
Emptied_parents(walk, p) ==
    LET empty[n \in 1..(Levels + 1)] ==
            \/ n = Levels + 1
            \/ empty[n + 1] /\ (n < Levels \/ \A i \in Index \ {p[n + 1]} :
                                    tables[walk[n]][i] = NotMapped)
    IN  {n \in 1..Levels : empty[n]}

\* The tables on the walk that unmap leaves empty, from the last one upwards.
Emptied(walk, p) ==
    LET empty[n \in 1..(Levels + 1)] ==
            \/ n = Levels + 1
            \/ empty[n + 1] /\ \A i \in Index \ {p[n + 1]} : tables[walk[n]][i] = NotMapped
    IN  {n \in 1..Levels : empty[n]}

UnmapOk(s, p) ==
    /\ Lookup(s, p) # NotMapped
    /\ LET walk == Walk(s, p)
           gone == Emptied(walk, p)
       IN  /\ tables' = [f \in TableFrame |-> [i \in Index |->
                 IF \E n \in Path : /\ f = walk[n] /\ i = p[n + 1]
                                    /\ n = Levels \/ (n + 1) \in gone
                 THEN NotMapped ELSE tables[f][i]]]
           /\ free' = free \cup {walk[n] : n \in gone}
    /\ FlushIfActive(s, p)
    /\ ret' = "Ok"
    /\ UNCHANGED <<root, cr3>>

UnmapNotMapped(s, p) ==
    /\ Lookup(s, p) = NotMapped
    /\ ret' = "NotMapped"
    /\ UNCHANGED <<tables, root, free, cr3, tlb>>

unmap(s, p) == UnmapOk(s, p) \/ UnmapNotMapped(s, p)

-----------------------------------------------------------------------------
\* Variant: the upper half of the new root stays empty.
CopiedHalf_empty(from) == EmptyTable

\* Variant: the whole root is copied.
CopiedHalf_all(from) == tables[root[from]]

\* copy_kernel_mappings_to, into a table that alloc has zeroed.
CopiedHalf(from) ==
    [i \in Index |-> IF i \in KernelIndex THEN tables[root[from]][i] ELSE NotMapped]

\* new_user is called on the kernel's space at boot and on the caller's space
\* in sys_as_create.
new_user(from, u) ==
    /\ root[u] = NoFrame
    /\ \E f \in free :
          /\ IsLowest(f, free)
          /\ root' = [root EXCEPT ![u] = f]
          /\ tables' = [tables EXCEPT ![f] = CopiedHalf(from)]
          /\ free' = free \ {f}
    /\ ret' = "Ok"
    /\ UNCHANGED <<cr3, tlb>>

new_user_fails ==
    /\ free = {}
    /\ ret' = "OutOfFrames"
    /\ UNCHANGED <<tables, root, free, cr3, tlb>>

\* destroy_user walks the lower half of the root and destroy_children the rest.
LowerHalf == {q \in [1..Levels -> Index] : q[1] \notin KernelIndex}

TablesBelow(u) == {Walk(u, q)[n] : q \in LowerHalf, n \in 1..Levels} \ {NoFrame}

destroy_user(u) ==
    /\ u \in Live
    /\ cr3 # u
    /\ LET gone == TablesBelow(u) \cup {root[u]}
       IN  /\ tables' = [f \in TableFrame |-> IF f \in gone THEN EmptyTable ELSE tables[f]]
           /\ free' = free \cup gone
    /\ root' = [root EXCEPT ![u] = NoFrame]
    /\ ret' = "Ok"
    /\ UNCHANGED <<cr3, tlb>>

\* Writing cr3 drops what is cached, except translations marked global.
activate(u) ==
    /\ u \in Live
    /\ cr3' = u
    /\ tlb' = {e \in tlb : e.global}
    /\ UNCHANGED <<tables, root, free, ret>>

\* The CPU uses page p and caches what the tables of the active space say.
\* It may evict any entry, so following one cached translation at a time
\* follows each of them.
Access(p) ==
    /\ Lookup(cr3, p) # NotMapped
    /\ \A e \in tlb : e.page # p
    /\ tlb' = {[page |-> p, leaf |-> Lookup(cr3, p), global |-> p \in KernelPage]}
    /\ UNCHANGED <<tables, root, free, cr3, ret>>

-----------------------------------------------------------------------------
\* AddressSpace::map and unmap: user pages in user spaces, the kernel's pages
\* in its own.  The pages of the boot are never unmapped.
ImageMapped == \A p \in ImagePage : Lookup(Kernel, p) # NotMapped

Next ==
    \/ \E u \in Live, p \in UserPage, d \in Data :
          map(u, p, [data |-> d, user |-> TRUE])
    \/ \E u \in Live, p \in UserPage : unmap(u, p)
    \/ \E p \in BootPage, d \in Data : Live = {} /\ map(Kernel, p, [data |-> d, user |-> FALSE])
    \/ \E p \in StackPage, d \in Data : ImageMapped /\ map(Kernel, p, [data |-> d, user |-> FALSE])
    \/ \E p \in StackPage : unmap(Kernel, p)
    \/ \E u \in Users, from \in Live \cup {Kernel} : ImageMapped /\ new_user(from, u)
    \/ new_user_fails
    \/ \E u \in Users : destroy_user(u) \/ activate(u)
    \/ \E p \in Page : Access(p)

Spec == Init /\ [][Next]_vars

-----------------------------------------------------------------------------
\* The variables have their types; a cached translation is one of a page.
TypeOK ==
    /\ tables \in [TableFrame -> [Index -> TableEntry \cup Leaf \cup {NotMapped}]]
    /\ root \in [Space -> TableFrame \cup {NoFrame}]
    /\ free \subseteq TableFrame
    /\ cr3 \in Space
    /\ tlb \subseteq [page : Page, leaf : Leaf, global : BOOLEAN]

\* All ways into the tables of a space.
Way == [1..Levels -> Index]
Tables(s) == {Walk(s, q)[n] : q \in Way, n \in Path} \ {NoFrame}

\* The places where tables are found.
Places ==
    {pl \in {[space |-> s, way |-> [k \in 1..n |-> q[k]], frame |-> Walk(s, q)[n]] :
                 s \in Live \cup {Kernel}, q \in Way, n \in Path} : pl.frame # NoFrame}

\* The tables form a forest that only shares the kernel's half: a frame holds
\* one table of one place, is free when no space uses it and only then, and no
\* table but a root is kept when it is empty.  A frame that is both free and
\* linked would be handed out while the CPU still walks through it; one that
\* is neither is lost.
TablesAreForest ==
    /\ TableFrame \ free = UNION {Tables(s) : s \in Live \cup {Kernel}}
    /\ \A a, b \in Places : a.frame = b.frame =>
          /\ a.way = b.way
          /\ a.space = b.space \/ (a.way # <<>> /\ a.way[1] \in KernelIndex)
    /\ \A s \in Live \cup {Kernel} : \A f \in Tables(s) \ {root[s]} :
          tables[f] # EmptyTable

\* Every space has the kernel's half of the kernel's root, however the kernel
\* maps and unmaps stacks after the space was made: new_user copies it once.
KernelHalfShared ==
    \A u \in Live, i \in KernelIndex : tables[root[u]][i] = tables[root[Kernel]][i]

\* A user page can be reached from user mode at every level of its walk, and
\* none of the kernel's pages can, in any space.
UserBitsRight ==
    \A s \in Live \cup {Kernel}, p \in Page :
        Lookup(s, p) # NotMapped => (UserAccessible(s, p) <=> p \in UserPage)

\* What the CPU has cached of user pages is what the active space maps, after
\* pages were unmapped and mapped again in this or another space.
UserTlbCoherent ==
    \A e \in tlb : e.page \in UserPage => e.leaf = Lookup(cr3, e.page)

Abstract == INSTANCE PageMap WITH
    view <- [s \in Space |-> [p \in Page |->
                IF root[s] = NoFrame THEN NotMapped ELSE Lookup(s, p)]],
    live <- Live

\* Seen through Lookup, the operations are those of a map from pages to frames:
\* each changes one page, in all spaces that share it, or fails and changes
\* nothing, whichever tables had to be made or given back.
ImplementsPageMap == Abstract!Spec
=============================================================================
