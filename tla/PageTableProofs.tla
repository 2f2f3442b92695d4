--------------------------- MODULE PageTableProofs ---------------------------
(***************************************************************************)
(* Page tables form a forest and implement a map from pages to frames, for *)
(* any number of levels, indices, pages, frames and spaces.  The inductive *)
(* invariant gives every table in use a home, the space and the indices    *)
(* that lead to it, and says that entries and homes agree.  A walk is then *)
(* a look into the homes: it ends at the table whose home is the way       *)
(* taken, so that what a step does to a walk needs no further induction.   *)
(***************************************************************************)
EXTENDS PageTable, TLAPS

\* Steps that need arithmetic, or that Zenon does not find, name SMT.
USE Zenon

LOCAL INSTANCE WellFoundedInduction

-----------------------------------------------------------------------------
(* The homes of tables.                                                    *)

Spaces == Live \cup {Kernel}
Used == TableFrame \ free

\* The space that a table n indices down the way q of space s belongs to.
Owner(s, q, n) == IF n >= 1 /\ q[1] \in KernelIndex THEN Kernel ELSE s

\* f is the table n indices down the way q of space s.
At(home, f, s, q, n) ==
    /\ f \in Used
    /\ home[f].level = n
    /\ home[f].space = Owner(s, q, n)
    /\ \A k \in 1..n : home[f].way[k] = q[k]

\* Every space has a root of its own.
Roots(home) ==
    /\ \A s \in Spaces : root[s] \in Used /\ home[root[s]].level = 0 /\ home[root[s]].space = s
    /\ \A f \in Used : home[f].level = 0 => f = root[home[f].space]

\* Tables of the kernel's half, and they alone, belong to the kernel.
Homes(home) ==
    \A f \in Used :
        /\ home[f].level \in Path
        /\ home[f].space \in Spaces
        /\ \A k \in 1..home[f].level : home[f].way[k] \in Index
        /\ home[f].level >= 1 => (home[f].space = Kernel <=> home[f].way[1] \in KernelIndex)

\* The child that entry i of table f leads to has the home that f and i make.
Child(home, f, i, g) ==
    /\ g \in Used
    /\ home[g].level = home[f].level + 1
    /\ home[g].space = IF home[f].level = 0 /\ i \in KernelIndex THEN Kernel ELSE home[f].space
    /\ home[g].way[home[g].level] = i
    /\ \A k \in 1..home[f].level : home[g].way[k] = home[f].way[k]

Points(home, f, i, g) ==
    /\ tables[f][i] \in TableEntry
    /\ tables[f][i].table = g
    /\ tables[f][i].user <=> home[g].space # Kernel

Links(home) ==
    \A f \in Used, i \in Index : home[f].level < Levels /\ tables[f][i] # NotMapped =>
        \E g \in Used : Child(home, f, i, g) /\ Points(home, f, i, g)

Leaves(home) ==
    \A f \in Used, i \in Index : home[f].level = Levels /\ tables[f][i] # NotMapped =>
        /\ tables[f][i] \in Leaf
        /\ tables[f][i].user <=> home[f].space # Kernel

\* Every table but a root is linked where its home says, and is not empty.
Parent(home, f, g) ==
    /\ f \in Used
    /\ home[g].level = home[f].level + 1
    /\ home[f].space = home[g].space
    /\ \A k \in 1..home[f].level : home[f].way[k] = home[g].way[k]
    /\ tables[f][home[g].way[home[g].level]] # NotMapped

Parents(home) ==
    \A g \in Used : home[g].level >= 1 =>
        /\ \E f \in Used : Parent(home, f, g)
        /\ \E i \in Index : tables[g][i] # NotMapped

FreeEmpty == \A f \in free, i \in Index : tables[f][i] = NotMapped

SameHome(home, f, g) ==
    /\ home[f].level = home[g].level
    /\ home[f].space = home[g].space
    /\ \A k \in 1..home[f].level : home[f].way[k] = home[g].way[k]

HomesDiffer(home) == \A f, g \in Used : SameHome(home, f, g) => f = g

Shape(home) ==
    /\ Roots(home) /\ Homes(home) /\ Links(home) /\ Leaves(home)
    /\ Parents(home) /\ HomesDiffer(home)
    /\ FreeEmpty /\ KernelHalfShared

\* The image is mapped before the first stack and the first user space.
ImageFirst ==
    ImageMapped \/ (Live = {} /\ \A p \in StackPage : Lookup(Kernel, p) = NotMapped)

\* What the CPU has cached.
Cached ==
    /\ cr3 \in Spaces
    /\ \A e \in tlb : e.global <=> e.page \in KernelPage
    /\ UserTlbCoherent

IInv == TypeOK /\ (\E home : Shape(home)) /\ ImageFirst /\ Cached

-----------------------------------------------------------------------------
(* Walks.                                                                  *)

\* A set of numbers that is not empty has a least element.
LEMMA Least ==
    ASSUME NEW S \in SUBSET Nat, S # {}
    PROVE  \E n \in S : \A m \in S : n <= m
  <1> DEFINE R == OpToRel(<, Nat)
  <1>1. IsWellFoundedOn(R, Nat)
    BY NatLessThanWellFounded
  <1>2. \A m, n \in Nat : <<m, n>> \in R <=> m < n
    BY DEF OpToRel
  <1> HIDE DEF R
  <1>3. PICK n \in S : \A m \in S : ~(<<m, n>> \in R)
    BY <1>1, WFMin
  <1>4. ASSUME NEW m \in S
        PROVE  n <= m
    <2>1. m \in Nat /\ n \in Nat
      OBVIOUS
    <2>2. ~(m < n)
      BY <1>2, <1>3, <2>1
    <2> QED
      BY <2>1, <2>2, SMT
  <1> QED
    BY <1>4

LEMMA NotAFrame == NoFrame \notin TableFrame
  BY NamesAssumption

\* Where entry i of the table up leads.
Target(up, i) ==
    IF up = NoFrame THEN NoFrame
    ELSE IF tables[up][i] = NotMapped THEN NoFrame
    ELSE tables[up][i].table

\* The recursive definition of Walk has a solution, by induction on its length.
LEMMA WalkUnfolds ==
    ASSUME NEW s, NEW p
    PROVE  /\ Walk(s, p)[0] = root[s]
           /\ \A n \in 1..Levels : Walk(s, p)[n] = Target(Walk(s, p)[n - 1], p[n])
  <1> DEFINE Eq(t, k) == t = [n \in 0..k |-> IF n = 0 THEN root[s] ELSE Target(t[n - 1], p[n])]
  <1>1. \A k \in Nat : \E t : Eq(t, k)
    <2> DEFINE B == {k \in Nat : ~\E t : Eq(t, k)}
    <2> SUFFICES ASSUME B # {}
                 PROVE  FALSE
      OBVIOUS
    <2>1. PICK k \in B : \A m \in B : k <= m
      BY Least
    <2>2. CASE k = 0
      <3>1. Eq([n \in 0..0 |-> root[s]], 0)
        BY SMT
      <3> QED
        BY <2>1, <2>2, <3>1
    <2>3. CASE k # 0
      <3>1. k \in Nat /\ k > 0 /\ k - 1 \in Nat /\ k - 1 \notin B
        BY <2>1, <2>3, SMT
      <3>2. PICK t : Eq(t, k - 1)
        BY <3>1
      <3> DEFINE u == [n \in 0..k |-> IF n = k THEN Target(t[k - 1], p[k]) ELSE t[n]]
      <3>3. \A n \in 0..k : u[n] = IF n = 0 THEN root[s] ELSE Target(u[n - 1], p[n])
        <4> SUFFICES ASSUME NEW n \in 0..k
                     PROVE  u[n] = IF n = 0 THEN root[s] ELSE Target(u[n - 1], p[n])
          OBVIOUS
        <4>1. CASE n = k
          BY <3>1, <4>1, SMT
        <4>2. CASE n # k
          <5>1. n \in 0..(k - 1)
            BY <3>1, <4>2, SMT
          <5>2. t[n] = IF n = 0 THEN root[s] ELSE Target(t[n - 1], p[n])
            BY <3>2, <5>1
          <5>3. n # 0 => u[n - 1] = t[n - 1]
            BY <3>1, <5>1, SMT
          <5> QED
            BY <4>2, <5>1, <5>2, <5>3
        <4> QED
          BY <4>1, <4>2
      <3>4. Eq(u, k)
        BY <3>3
      <3> QED
        BY <2>1, <3>4
    <2> QED
      BY <2>2, <2>3
  <1>2. \E t : Eq(t, Levels)
    BY <1>1, LevelsAssumption
  <1>3. Walk(s, p) = CHOOSE t : Eq(t, Levels)
    BY DEF Walk, Path, Target
  <1>4. Eq(Walk(s, p), Levels)
    BY <1>2, <1>3
  <1> QED
    BY <1>4, LevelsAssumption, SMT

\* A walk that has ended does not go on.
LEMMA WalkEnds ==
    ASSUME NEW s, NEW p, NEW m \in Path, Walk(s, p)[m] = NoFrame
    PROVE  \A n \in m..Levels : Walk(s, p)[n] = NoFrame
  <1> DEFINE w == Walk(s, p)
             B == {n \in m..Levels : w[n] # NoFrame}
  <1>1. \A n \in 1..Levels : w[n] = Target(w[n - 1], p[n])
    BY WalkUnfolds, SMT
  <1> HIDE DEF w
  <1>2. m \in Nat /\ B \in SUBSET Nat
    BY LevelsAssumption, SMT DEF Path
  <1> SUFFICES ASSUME B # {}
               PROVE  FALSE
    BY DEF w
  <1> HIDE DEF B
  <1>3. PICK n \in B : \A k \in B : n <= k
    BY <1>2, Least
  <1> USE DEF B
  <1>4. w[m] = NoFrame
    BY DEF w
  <1>5. n \in (m + 1)..Levels /\ w[n] # NoFrame
    BY <1>2, <1>3, <1>4, LevelsAssumption, SMT
  <1>6. n - 1 \in m..Levels /\ n \in 1..Levels /\ ~(n <= n - 1)
    BY <1>2, <1>5, LevelsAssumption, SMT
  <1>7. w[n - 1] = NoFrame
    BY <1>3, <1>6
  <1> QED
    BY <1>1, <1>5, <1>6, <1>7 DEF Target

\* Ways and pages have an index for each level.
Indices(q) == \A k \in 1..Levels : q[k] \in Index

\* A walk meets the table whose home is the way taken, and no other.
LEMMA WalkAt ==
    \A home, s, q : Shape(home) /\ s \in Spaces /\ Indices(q) =>
        \A n \in Path :
            /\ Walk(s, q)[n] \in TableFrame \cup {NoFrame}
            /\ \A f \in TableFrame : Walk(s, q)[n] = f <=> At(home, f, s, q, n)
  <1> SUFFICES ASSUME NEW home, NEW s, NEW q, Shape(home), s \in Spaces, Indices(q)
               PROVE  \A n \in Path :
                          /\ Walk(s, q)[n] \in TableFrame \cup {NoFrame}
                          /\ \A f \in TableFrame : Walk(s, q)[n] = f <=> At(home, f, s, q, n)
    OBVIOUS
  <1> DEFINE w == Walk(s, q)
             P(n) == /\ w[n] \in TableFrame \cup {NoFrame}
                     /\ \A f \in TableFrame : w[n] = f <=> At(home, f, s, q, n)
             B == {n \in Path : ~P(n)}
  <1> USE LevelsAssumption
  <1>1. w[0] = root[s] /\ \A n \in 1..Levels : w[n] = Target(w[n - 1], q[n])
    BY WalkUnfolds, SMT
  <1> HIDE DEF w
  <1>2. P(0)
    BY <1>1, NotAFrame, SMT DEF Shape, Roots, At, Owner, Used
  <1>3. ASSUME NEW n \in 1..Levels, P(n - 1)
        PROVE  P(n)
    <2> DEFINE up == w[n - 1]
    <2>1. w[n] = Target(up, q[n]) /\ q[n] \in Index /\ n - 1 \in Nat /\ n - 1 < Levels
      BY <1>1, SMT DEF Indices
    <2>2. up \in TableFrame => At(home, up, s, q, n - 1)
      BY <1>3
    <2>3. ASSUME NEW f \in TableFrame, At(home, f, s, q, n)
          PROVE  up # NoFrame /\ tables[up][q[n]] # NotMapped
      <3>1. f \in Used /\ home[f].level = n /\ home[f].way[n] = q[n]
            /\ home[f].space = Owner(s, q, n) /\ \A k \in 1..n : home[f].way[k] = q[k]
        BY <2>3, SMT DEF At
      <3>2. PICK g \in Used : Parent(home, g, f)
        <4>1. n >= 1
          BY SMT
        <4>2. home[f].level >= 1
          BY <3>1, <4>1
        <4> QED
          BY <3>1, <4>2 DEF Shape, Parents
      <3>3. /\ g \in TableFrame /\ home[g].space = home[f].space
            /\ home[g].level \in Nat /\ n = home[g].level + 1
            /\ \A k \in 1..(n - 1) : home[g].way[k] = q[k]
            /\ tables[g][q[n]] # NotMapped
        <4>1. home[g].level \in Nat
          BY <3>2, SMT DEF Shape, Homes, Path
        <4>2. n = home[g].level + 1 /\ home[g].space = home[f].space
          BY <3>1, <3>2 DEF Parent
        <4>3. home[g].level = n - 1
          BY <4>1, <4>2, SMT
        <4>4. tables[g][q[n]] # NotMapped /\ \A k \in 1..(n - 1) : home[g].way[k] = home[f].way[k]
          BY <3>1, <3>2, <4>3 DEF Parent
        <4> QED
          BY <3>1, <4>1, <4>2, <4>4, SMT DEF Used
      <3>4. CASE n >= 2
        <4>1. Owner(s, q, n) = Owner(s, q, n - 1)
          BY <2>1, <3>4, SMT DEF Owner
        <4>2. At(home, g, s, q, n - 1)
          BY <3>1, <3>2, <3>3, <4>1, SMT DEF At
        <4> QED
          BY <1>3, <3>3, <4>2, NotAFrame, SMT
      <3>5. CASE n = 1
        <4>1. up = root[s] /\ g = root[home[f].space] /\ up \in TableFrame
          <5>1. home[g].level = 0
            BY <3>3, <3>5, SMT
          <5>2. up = root[s]
            BY <1>1, <3>5, SMT
          <5>3. g = root[home[f].space]
            BY <3>2, <3>3, <5>1 DEF Shape, Roots
          <5>4. root[s] \in TableFrame
            BY DEF Shape, Roots, Used
          <5> QED
            BY <5>2, <5>3, <5>4
        <4>2. q[1] \in KernelIndex => tables[root[s]][q[1]] = tables[root[Kernel]][q[1]]
          BY DEF Spaces, Shape, KernelHalfShared
        <4> QED
          BY <3>1, <3>3, <3>5, <4>1, <4>2, NotAFrame DEF Owner
      <3> QED
        BY <3>4, <3>5, SMT
    <2>4. ASSUME up # NoFrame, tables[up][q[n]] # NotMapped
          PROVE  At(home, tables[up][q[n]].table, s, q, n)
      <3> DEFINE g == tables[up][q[n]].table
      <3>1. up \in TableFrame /\ At(home, up, s, q, n - 1)
        BY <1>3, <2>2, <2>4
      <3>2. Child(home, up, q[n], g) /\ home[up].level = n - 1
        BY <2>1, <2>4, <3>1, SMT DEF At, Shape, Links, Points
      <3> HIDE DEF g
      <3>3. home[g].level = n /\ g \in Used /\ \A k \in 1..n : home[g].way[k] = q[k]
        <4>1. home[g].level = n /\ g \in Used /\ home[g].way[n] = q[n]
          BY <2>1, <3>2, SMT DEF Child
        <4>2. \A k \in 1..(n - 1) : home[g].way[k] = q[k]
          BY <3>1, <3>2 DEF Child, At
        <4> QED
          BY <2>1, <4>1, <4>2, SMT
      <3>4. home[g].space = Owner(s, q, n)
        <4>1. CASE n = 1
          BY <3>1, <3>2, <4>1, SMT DEF Child, At, Owner
        <4>2. CASE n # 1
          BY <2>1, <3>1, <3>2, <4>2, SMT DEF Child, At, Owner
        <4> QED
          BY <4>1, <4>2
      <3>5. At(home, g, s, q, n)
        BY <3>3, <3>4 DEF At
      <3> QED
        BY <3>5 DEF g
    <2>5. \A f, g \in TableFrame : At(home, f, s, q, n) /\ At(home, g, s, q, n) => f = g
      <3> SUFFICES ASSUME NEW f \in TableFrame, NEW g \in TableFrame,
                          At(home, f, s, q, n), At(home, g, s, q, n)
                   PROVE  f = g
        OBVIOUS
      <3>1. f \in Used /\ g \in Used /\ SameHome(home, f, g)
        BY DEF At, SameHome
      <3> QED
        BY <3>1 DEF Shape, HomesDiffer
    <2>6. \A f : At(home, f, s, q, n) => f \in TableFrame
      BY DEF At, Used
    <2> QED
      BY <2>1, <2>3, <2>4, <2>5, <2>6, NotAFrame DEF Target
  <1> HIDE DEF P
  <1>4. B = {}
    <2> SUFFICES ASSUME B # {}
                 PROVE  FALSE
      OBVIOUS
    <2>1. B \in SUBSET Nat
      BY SMT DEF Path
    <2> HIDE DEF B
    <2>2. PICK n \in B : \A m \in B : n <= m
      BY <2>1, Least
    <2> USE DEF B
    <2>3. n # 0 /\ n \in 1..Levels /\ n - 1 \in Path
      BY <1>2, <2>1, <2>2, SMT DEF Path
    <2>4. P(n - 1)
      BY <2>1, <2>2, <2>3, SMT
    <2> QED
      BY <1>3, <2>2, <2>3, <2>4
  <1> QED
    BY <1>4 DEF w, P

LEMMA PageIndices ==
    ASSUME NEW p \in Page
    PROVE  Indices(p) /\ p[Levels + 1] \in Index /\ p[1] \in Index
  BY HalvesAssumption, LevelsAssumption, SMT DEF Indices

\* The entries that a walk passes.
LEMMA WalkEntry ==
    ASSUME NEW home, Shape(home), NEW s \in Spaces, NEW q, Indices(q),
           NEW n \in 1..Levels, Walk(s, q)[n] # NoFrame
    PROVE  LET up == Walk(s, q)[n - 1] IN
           /\ At(home, up, s, q, n - 1)
           /\ At(home, Walk(s, q)[n], s, q, n)
           /\ tables[up][q[n]] # NotMapped
           /\ tables[up][q[n]].table = Walk(s, q)[n]
           /\ tables[up][q[n]] \in TableEntry
           /\ tables[up][q[n]].user <=> Owner(s, q, n) # Kernel
  <1> DEFINE up == Walk(s, q)[n - 1]
             g == Walk(s, q)[n]
  <1>1. n - 1 \in Path /\ n \in Path /\ n - 1 < Levels /\ q[n] \in Index
    BY LevelsAssumption, SMT DEF Path, Indices
  <1>2. g = Target(up, q[n])
    BY WalkUnfolds, SMT
  <1>3. up # NoFrame /\ tables[up][q[n]] # NotMapped /\ tables[up][q[n]].table = g
    BY <1>2 DEF Target
  <1>4. At(home, g, s, q, n)
    <2>1. g \in TableFrame
      BY <1>1, WalkAt
    <2> QED
      BY <1>1, <2>1, WalkAt
  <1>5. At(home, up, s, q, n - 1)
    <2>1. up \in TableFrame
      BY <1>1, <1>3, WalkAt, SMT
    <2> QED
      BY <1>1, <2>1, WalkAt
  <1> HIDE DEF up, g
  <1>6. up \in Used /\ home[up].level < Levels /\ home[g].space = Owner(s, q, n)
    BY <1>1, <1>4, <1>5 DEF At
  <1>7. /\ tables[up][q[n]] \in TableEntry
        /\ tables[up][q[n]].user <=> home[g].space # Kernel
    BY <1>1, <1>3, <1>6 DEF Shape, Links, Points
  <1> QED
    BY <1>3, <1>4, <1>5, <1>6, <1>7 DEF up, g

LEMMA WalkLink ==
    ASSUME NEW home, Shape(home), NEW s \in Spaces, NEW q, Indices(q),
           NEW n \in 1..Levels, Walk(s, q)[n] # NoFrame
    PROVE  /\ tables[Walk(s, q)[n - 1]][q[n]] # NotMapped
           /\ tables[Walk(s, q)[n - 1]][q[n]].table = Walk(s, q)[n]
  BY WalkEntry, SMT

\* The entry of a page is in the last table of its way.
EntryAt(home, s, p) ==
    /\ \A f : At(home, f, s, p, Levels) => Lookup(s, p) = tables[f][p[Levels + 1]]
    /\ Lookup(s, p) # NotMapped =>
          \E f \in Used : At(home, f, s, p, Levels) /\ tables[f][p[Levels + 1]] = Lookup(s, p)

LEMMA LookupAt ==
    \A home, s, p : Shape(home) /\ s \in Spaces /\ p \in Page => EntryAt(home, s, p)
  <1> SUFFICES ASSUME NEW home, NEW s, NEW p, Shape(home), s \in Spaces, p \in Page
               PROVE  /\ \A f : At(home, f, s, p, Levels) => Lookup(s, p) = tables[f][p[Levels + 1]]
                      /\ Lookup(s, p) # NotMapped =>
                            \E f \in Used : At(home, f, s, p, Levels) /\ tables[f][p[Levels + 1]] = Lookup(s, p)
    BY SMT DEF EntryAt
  <1>1. Levels \in Path
    BY LevelsAssumption, SMT DEF Path
  <1>2. /\ Walk(s, p)[Levels] \in TableFrame \cup {NoFrame}
        /\ \A f \in TableFrame : Walk(s, p)[Levels] = f <=> At(home, f, s, p, Levels)
    BY <1>1, PageIndices, WalkAt
  <1>3. \A f : At(home, f, s, p, Levels) => f \in TableFrame /\ f \in Used
    BY DEF At, Used
  <1> QED
    BY <1>2, <1>3, NotAFrame DEF Lookup

-----------------------------------------------------------------------------
(* What a step does to the pages.                                          *)

\* The spaces that see a change which space s makes.
SeenBy(s) == IF s = Kernel THEN Spaces ELSE {s}

\* Page p of space s becomes e, and no other page changes.
Changed(s, p, e) ==
    \A t \in Spaces, q \in Page :
        Lookup(t, q)' = IF q = p /\ t \in SeenBy(s) THEN e ELSE Lookup(t, q)

LEMMA LookupAtNext ==
    \A home, s, p : Shape(home)' /\ s \in Spaces' /\ p \in Page => EntryAt(home, s, p)'
  <1>1. (\A home, s, p : Shape(home) /\ s \in Spaces /\ p \in Page => EntryAt(home, s, p))'
    BY LookupAt, PTL
  <1> QED
    BY <1>1

\* A page whose last table is the same, with the same entry, is mapped as before.
LEMMA SameEntry ==
    ASSUME NEW home, NEW new, Shape(home), Shape(new)',
           NEW s \in Spaces, NEW t \in Spaces', NEW p \in Page,
           \A g : At(new, g, t, p, Levels)' <=> At(home, g, s, p, Levels),
           \A g : At(home, g, s, p, Levels) => tables'[g][p[Levels + 1]] = tables[g][p[Levels + 1]]
    PROVE  Lookup(t, p)' = Lookup(s, p)
  <1>1. EntryAt(home, s, p)
    BY LookupAt
  <1>2. EntryAt(new, t, p)'
    BY LookupAtNext
  <1> QED
    BY <1>1, <1>2, SMT DEF EntryAt

LEMMA PageHalves ==
    /\ \A p \in Page : p \in UserPage <=> p[1] \notin KernelIndex
    /\ \A p \in Page : p \in KernelPage <=> p[1] \in KernelIndex
  BY HalvesAssumption DEF Page

\* A change of one page keeps the image where it is and what is cached right.
LEMMA ChangedKeeps ==
    ASSUME ImageFirst, Cached, NEW s \in Spaces, NEW p \in Page, NEW e,
           s = Kernel <=> p \in KernelPage,
           p \in StackPage /\ e # NotMapped => ImageMapped,
           p \in BootPage => e # NotMapped,
           Changed(s, p, e), FlushIfActive(s, p), UNCHANGED <<root, cr3>>
    PROVE  ImageFirst' /\ Cached'
  <1>1. Live' = Live /\ Spaces' = Spaces
    BY DEF Live, Spaces
  <1>2. \A q \in Page : Lookup(Kernel, q)' = IF q = p /\ s = Kernel THEN e ELSE Lookup(Kernel, q)
    BY DEF Changed, SeenBy, Spaces
  <1>3. ImageMapped => ImageMapped'
    BY <1>2, HalvesAssumption DEF ImageMapped, Page, KernelPage
  <1>4. ASSUME ~ImageMapped
        PROVE  Live' = {} /\ \A q \in StackPage : Lookup(Kernel, q)' = NotMapped
    BY <1>1, <1>2, <1>4 DEF ImageFirst, Page, KernelPage
  <1>5. ImageFirst'
    BY <1>3, <1>4 DEF ImageFirst
  <1>6. UserTlbCoherent'
    <2> SUFFICES ASSUME NEW d \in tlb', d.page \in UserPage
                 PROVE  d.leaf = Lookup(cr3, d.page)'
      BY DEF UserTlbCoherent
    <2>1. d \in tlb /\ (cr3 = s => d.page # p)
      BY DEF FlushIfActive
    <2>2. d.page \in Page /\ d.page \notin KernelPage
      BY PageHalves DEF Page
    <2>3. d.page = p => cr3 \notin SeenBy(s)
      BY <2>1, <2>2 DEF SeenBy
    <2>4. \A t : t = cr3' => Lookup(cr3, d.page)' = Lookup(t, d.page)'
      BY SMT DEF Lookup, Walk
    <2>5. \A t \in Spaces : t = cr3 => Lookup(t, d.page)' = Lookup(cr3, d.page)
      BY <2>2, <2>3 DEF Changed
    <2> QED
      BY <2>1, <2>4, <2>5 DEF Cached, UserTlbCoherent
  <1> QED
    BY <1>1, <1>5, <1>6 DEF Cached, FlushIfActive

LEMMA IInvInit == Init => IInv
  <1> SUFFICES ASSUME Init
               PROVE  IInv
    OBVIOUS
  <1>1. PICK r \in TableFrame :
            /\ root = [s \in Space |-> IF s = Kernel THEN r ELSE NoFrame]
            /\ free = TableFrame \ {r}
    BY DEF Init
  <1>2. Live = {} /\ Spaces = {Kernel} /\ Used = {r} /\ root[Kernel] = r
    BY <1>1, NamesAssumption DEF Live, Spaces, Used, Space
  <1>3. \A f \in TableFrame, i \in Index : tables[f][i] = NotMapped
    BY DEF Init, EmptyTable
  <1>4. TypeOK
    BY <1>1, <1>3 DEF Init, EmptyTable, TypeOK, Space
  <1> DEFINE home == [f \in TableFrame |-> [space |-> Kernel, level |-> 0, way |-> EmptyTable]]
  <1>5. home[r].space = Kernel /\ home[r].level = 0
    OBVIOUS
  <1> HIDE DEF home
  <1>6. Shape(home)
    <2>1. Roots(home)
      BY <1>2, <1>5 DEF Roots
    <2>2. Homes(home)
      BY <1>2, <1>5, LevelsAssumption, SMT DEF Homes, Path
    <2>3. Links(home) /\ Leaves(home)
      BY <1>2, <1>3, SMT DEF Links, Leaves
    <2>4. Parents(home)
      BY <1>2, <1>5, SMT DEF Parents
    <2>5. HomesDiffer(home)
      BY <1>2 DEF HomesDiffer
    <2>6. FreeEmpty /\ KernelHalfShared
      BY <1>1, <1>2, <1>3 DEF FreeEmpty, KernelHalfShared
    <2> QED
      BY <2>1, <2>2, <2>3, <2>4, <2>5, <2>6 DEF Shape
  <1>7. \A p \in Page : Lookup(Kernel, p) = NotMapped
    <2> SUFFICES ASSUME NEW p \in Page, Lookup(Kernel, p) # NotMapped
                 PROVE  FALSE
      OBVIOUS
    <2>1. PICK f \in Used : At(home, f, Kernel, p, Levels)
      BY <1>2, <1>6, LookupAt DEF EntryAt
    <2> QED
      BY <1>2, <1>5, <2>1, LevelsAssumption DEF At
  <1>8. ImageFirst
    BY <1>2, <1>7 DEF ImageFirst, Page, KernelPage
  <1>9. Cached
    BY <1>2 DEF Init, Cached, UserTlbCoherent
  <1> QED
    BY <1>4, <1>6, <1>8, <1>9 DEF IInv

-----------------------------------------------------------------------------
(* Mapping a page.                                                         *)

\* The walk of a space that exists has an end.
LEMMA DepthOk ==
    ASSUME NEW s, NEW p, Walk(s, p)[0] # NoFrame
    PROVE  /\ Depth(Walk(s, p)) \in Path
           /\ \A n \in Path : Walk(s, p)[n] # NoFrame <=> n <= Depth(Walk(s, p))
  <1> DEFINE w == Walk(s, p)
             B == {n \in Path : w[n] = NoFrame}
             End(n) == w[n] # NoFrame /\ \A k \in Path : k > n => w[k] = NoFrame
  <1>1. Path \in SUBSET Nat /\ 0 \in Path /\ Levels \in Path /\ \A n \in Path : n <= Levels
    BY LevelsAssumption, SMT DEF Path
  <1>2. \A m, n \in Path : m <= n /\ w[m] = NoFrame => w[n] = NoFrame
    BY WalkEnds, SMT DEF Path
  <1>3. w[0] # NoFrame
    OBVIOUS
  <1>4. Depth(w) = CHOOSE n \in Path : End(n)
    BY DEF Depth
  <1> HIDE DEF w
  <1>5. \E n \in Path : End(n)
    <2>1. CASE B = {}
      <3>1. w[Levels] # NoFrame
        BY <1>1, <2>1
      <3>2. \A k \in Path : ~(k > Levels)
        BY <1>1, SMT
      <3> QED
        BY <1>1, <3>1, <3>2
    <2>2. CASE B # {}
      <3>1. B \in SUBSET Nat
        BY <1>1
      <3> HIDE DEF B
      <3>2. PICK b \in B : \A m \in B : b <= m
        BY <2>2, <3>1, Least
      <3> USE DEF B
      <3>3. b \in 1..Levels /\ b \in Path
        BY <1>1, <1>3, <3>2, SMT DEF Path
      <3>4. b - 1 \in Path /\ ~(b <= b - 1)
        BY <3>3, LevelsAssumption, SMT DEF Path
      <3>5. \A k \in Path : k > b - 1 => w[k] = NoFrame
        BY <1>1, <1>2, <3>2, <3>3, SMT
      <3> QED
        BY <3>2, <3>4, <3>5
    <2> QED
      BY <2>1, <2>2
  <1>6. Depth(w) \in Path /\ End(Depth(w))
    BY <1>4, <1>5
  <1>7. ASSUME NEW n \in Path
        PROVE  w[n] # NoFrame <=> n <= Depth(w)
    <2> HIDE DEF B
    <2>1. n \in Nat /\ Depth(w) \in Nat
      BY <1>1, <1>6
    <2>2. CASE n <= Depth(w)
      BY <1>2, <1>6, <2>2
    <2>3. CASE n > Depth(w)
      BY <1>6, <2>1, <2>3, SMT
    <2> QED
      BY <2>1, <2>2, <2>3, SMT
  <1> QED
    BY <1>6, <1>7 DEF w

\* The entries on the way of a user page have the user bit already.
LEMMA UpgradeDone ==
    ASSUME TypeOK, NEW home, Shape(home), NEW s \in Spaces, NEW p \in Page,
           s = Kernel <=> p \in KernelPage, NEW leaf, leaf.user <=> s # Kernel,
           NEW f \in TableFrame, NEW i \in Index
    PROVE  Upgraded(Walk(s, p), p, leaf)[f][i] = tables[f][i]
  <1> DEFINE w == Walk(s, p)
  <1>1. w[0] # NoFrame
    BY WalkUnfolds, NotAFrame, SMT DEF Shape, Roots, Used
  <1>2. SUFFICES ASSUME leaf.user, NEW n \in 1..Depth(w), w[n - 1] = f, p[n] = i
                 PROVE  [tables[f][i] EXCEPT !.user = TRUE] = tables[f][i]
    BY DEF Upgraded
  <1>3. n \in 1..Levels /\ n \in Path /\ w[n] # NoFrame /\ n >= 1
    <2>1. Depth(w) \in Path /\ \A k \in Path : w[k] # NoFrame <=> k <= Depth(w)
      BY <1>1, DepthOk
    <2> HIDE DEF w
    <2>2. n \in 1..Levels /\ n \in Path /\ n >= 1 /\ n <= Depth(w)
      BY <2>1, LevelsAssumption, SMT DEF Path
    <2> QED
      BY <2>1, <2>2
  <1>4. Indices(p) /\ Owner(s, p, n) = s
    BY PageIndices, PageHalves DEF Owner
  <1>5. tables[f][i] \in TableEntry /\ (tables[f][i].user <=> s # Kernel)
    BY <1>2, <1>3, <1>4, WalkEntry
  <1>6. \A e \in TableEntry : e.user => [e EXCEPT !.user = TRUE] = e
    BY DEF TableEntry
  <1> QED
    BY <1>2, <1>5, <1>6

\* The new tables are different free frames, one for each level without a table.
LEMMA NewTablesDiffer ==
    ASSUME NEW w, Depth(w) \in Path, NEW nt \in NewTables(w)
    PROVE  /\ nt \in [(Depth(w) + 1)..Levels -> free]
           /\ \A m, n \in (Depth(w) + 1)..Levels : nt[m] = nt[n] => m = n
  <1> DEFINE D == (Depth(w) + 1)..Levels
  <1>1. nt \in [D -> free]
    BY DEF NewTables
  <1>2. \A m, n \in D : m < n => nt[m] # nt[n]
    <2> SUFFICES ASSUME NEW m \in D, NEW n \in D, m < n
                 PROVE  nt[m] # nt[n]
      OBVIOUS
    <2>1. m \in (Depth(w) + 1)..(n - 1)
      BY LevelsAssumption, SMT DEF Path
    <2>2. nt[n] \notin {nt[k] : k \in (Depth(w) + 1)..(n - 1)}
      BY DEF NewTables, IsLowest
    <2> QED
      BY <2>1, <2>2
  <1>3. \A n \in D : n \in Int
    BY LevelsAssumption, SMT DEF Path
  <1> QED
    BY <1>1, <1>2, <1>3, SMT

\* A branch of tables is grafted at depth d: tb[n] is the table n indices down
\* the way p of space s, new if n > d.
Branch(home, d, tb, s, p) ==
    /\ d \in Path
    /\ tb \in [Path -> TableFrame]
    /\ \A n \in Path : tb[n] \in Used <=> n <= d
    /\ \A f \in Used, n \in 1..Levels : At(home, f, s, p, n) => n <= d

Grown(home, new, tb, s, p) ==
    /\ Used' = Used \cup {tb[n] : n \in Path}
    /\ \A f \in Used : new[f] = home[f]
    /\ \A n \in Path :
          /\ new[tb[n]].level = n
          /\ new[tb[n]].space = s
          /\ \A k \in 1..n : new[tb[n]].way[k] = p[k]

Entered(d, tb, p, leaf) ==
    /\ tables[tb[Levels]][p[Levels + 1]] = NotMapped
    /\ tables'[tb[Levels]][p[Levels + 1]] = leaf
    /\ \A n \in (d + 1)..Levels :
          /\ tables[tb[n - 1]][p[n]] = NotMapped
          /\ tables'[tb[n - 1]][p[n]] = NewEntry(tb[n], leaf)
    /\ \A f \in TableFrame, i \in Index :
          \/ f = tb[Levels] /\ i = p[Levels + 1]
          \/ \E n \in (d + 1)..Levels : f = tb[n - 1] /\ i = p[n]
          \/ tables'[f][i] = tables[f][i]

LEMMA MapGrafts ==
    ASSUME TypeOK, NEW home, Shape(home), NEW s \in Spaces, NEW p \in Page,
           s = Kernel <=> p \in KernelPage, NEW leaf \in Leaf, leaf.user <=> s # Kernel,
           MapOk(s, p, leaf)
    PROVE  \E new, d, tb : /\ Branch(home, d, tb, s, p)
                           /\ Grown(home, new, tb, s, p)
                           /\ Entered(d, tb, p, leaf)
  <1> DEFINE w == Walk(s, p)
             D == (Depth(w) + 1)..Levels
  <1>1. PICK nt \in NewTables(w) : /\ tables' = Published(w, p, leaf, nt)
                                   /\ free' = free \ {nt[n] : n \in DOMAIN nt}
    BY DEF MapOk
  <1>2. w[0] = root[s] /\ w[0] # NoFrame /\ \A n \in 1..Levels : w[n] = Target(w[n - 1], p[n])
    BY WalkUnfolds, NotAFrame, SMT DEF Shape, Roots, Used
  <1>3. Depth(w) \in Path /\ \A n \in Path : w[n] # NoFrame <=> n <= Depth(w)
    BY <1>2, DepthOk
  <1>4. nt \in [D -> free] /\ \A m, n \in D : nt[m] = nt[n] => m = n
    BY <1>3, NewTablesDiffer
  <1>5. \A n \in Path : /\ w[n] \in TableFrame \cup {NoFrame}
                        /\ \A f \in TableFrame : w[n] = f <=> At(home, f, s, p, n)
    BY WalkAt, PageIndices
  <1>6. Lookup(s, p) = NotMapped
    BY DEF MapOk
  <1>7. \A f \in TableFrame, i \in Index : Upgraded(w, p, leaf)[f][i] = tables[f][i]
    BY UpgradeDone, SMT
  <1>8. PICK d \in Path : d = Depth(w)
    BY <1>3
  <1>9. d \in Nat /\ Levels \in Path /\ D = (d + 1)..Levels /\ d <= Levels
    BY <1>8, LevelsAssumption, SMT DEF Path
  <1>10. free \subseteq TableFrame
    BY DEF TypeOK
  <1> DEFINE tab == [n \in Path |-> IF n <= d THEN w[n] ELSE nt[n]]
  <1>11. PICK tb : tb = tab
    OBVIOUS
  <1>12. \A n \in Path : /\ n <= d => tb[n] = w[n] /\ At(home, tb[n], s, p, n)
                         /\ n > d => n \in D /\ tb[n] = nt[n] /\ tb[n] \in free
    BY <1>3, <1>4, <1>5, <1>8, <1>9, <1>11, SMT DEF Path
  <1>13. Branch(home, d, tb, s, p)
    <2>1. tb \in [Path -> TableFrame]
      BY <1>9, <1>10, <1>11, <1>12, SMT DEF Path, At, Used
    <2>2. \A n \in Path : tb[n] \in Used <=> n <= d
      BY <1>9, <1>12, SMT DEF Path, At, Used
    <2>3. \A f \in Used, n \in 1..Levels : At(home, f, s, p, n) => n <= d
      BY <1>3, <1>5, <1>8, NotAFrame, SMT DEF Path, Used
    <2> QED
      BY <2>1, <2>2, <2>3 DEF Branch
  <1> HIDE DEF w, D, tab
  <1>14. \A m, n \in Path : tb[m] = tb[n] => m = n
    <2> SUFFICES ASSUME NEW m \in Path, NEW n \in Path, tb[m] = tb[n]
                 PROVE  m = n
      OBVIOUS
    <2>1. m \in Nat /\ n \in Nat /\ (m <= d <=> n <= d)
      BY <1>13, SMT DEF Path, Branch
    <2>2. CASE m <= d
      BY <1>12, <2>1, <2>2, SMT DEF At
    <2>3. CASE m > d
      BY <1>4, <1>9, <1>12, <2>1, <2>3, SMT
    <2> QED
      BY <1>9, <2>1, <2>2, <2>3, SMT
  <1>15. DOMAIN nt = D /\ {nt[n] : n \in DOMAIN nt} = {tb[n] : n \in D}
         /\ \A n \in D : n \in Path /\ n - 1 \in Path /\ n > d /\ tb[n] = nt[n] /\ n \in 1..Levels
    <2>1. \A n \in D : n \in Path /\ n - 1 \in Path /\ n > d /\ n \in 1..Levels
      BY <1>9, LevelsAssumption, SMT DEF Path
    <2> QED
      BY <1>4, <1>12, <2>1, SMT
  <1>16. PICK new : new = [f \in TableFrame |-> IF f \in Used THEN home[f] ELSE
                              [space |-> s, level |-> CHOOSE n \in Path : tb[n] = f, way |-> p]]
    OBVIOUS
  <1>17. Grown(home, new, tb, s, p)
    <2>1. Used' = Used \cup {tb[n] : n \in Path}
      <3>1. Used' = Used \cup {tb[n] : n \in D}
        BY <1>1, <1>4, <1>10, <1>15, SMT DEF Used
      <3>2. \A n \in Path : n \in D \/ tb[n] \in Used
        BY <1>9, <1>12, <1>13, SMT DEF Branch, Path
      <3> QED
        BY <1>15, <3>1, <3>2, SMT
    <2>2. \A f \in Used : new[f] = home[f]
      BY <1>16 DEF Used
    <2>3. ASSUME NEW n \in Path
          PROVE  /\ new[tb[n]].level = n
                 /\ new[tb[n]].space = s
                 /\ \A k \in 1..n : new[tb[n]].way[k] = p[k]
      <3>1. CASE n <= d
        <4>1. Owner(s, p, n) = s
          BY PageHalves DEF Owner
        <4> QED
          BY <1>12, <2>2, <3>1, <4>1, SMT DEF At
      <3>2. CASE n > d
        <4>1. tb[n] \in TableFrame /\ tb[n] \notin Used
          BY <1>10, <1>12, <3>2 DEF Used
        <4>2. (CHOOSE m \in Path : tb[m] = tb[n]) = n
          BY <1>14
        <4> QED
          BY <1>16, <4>1, <4>2
      <3> QED
        BY <1>9, <3>1, <3>2, SMT DEF Path
    <2> QED
      BY <2>1, <2>2, <2>3 DEF Grown
  <1>18. Entered(d, tb, p, leaf)
    <2> DEFINE T(n) == IF n <= Depth(w) THEN w[n] ELSE nt[n]
               C(f, i) == CHOOSE n \in DOMAIN nt : f = T(n - 1) /\ i = p[n]
    <2>1. \A f \in TableFrame, i \in Index :
             tables'[f][i] = IF f = T(Levels) /\ i = p[Levels + 1] THEN leaf
                             ELSE IF \E n \in DOMAIN nt : f = T(n - 1) /\ i = p[n]
                                  THEN NewEntry(nt[C(f, i)], leaf)
                                  ELSE Upgraded(w, p, leaf)[f][i]
      BY <1>1 DEF Published
    <2>2. \A n \in Path : T(n) = tb[n]
      BY <1>8, <1>9, <1>12, SMT DEF Path
    <2> HIDE DEF T
    <2>3. \A n \in D : C(tb[n - 1], p[n]) = n
      <3> SUFFICES ASSUME NEW n \in D
                   PROVE  C(tb[n - 1], p[n]) = n
        OBVIOUS
      <3>1. \E m \in DOMAIN nt : tb[n - 1] = T(m - 1) /\ p[n] = p[m]
        BY <1>15, <2>2
      <3> DEFINE c == C(tb[n - 1], p[n])
      <3>2. c \in D /\ tb[n - 1] = T(c - 1)
        BY <1>15, <3>1
      <3> HIDE DEF c
      <3>3. n - 1 = c - 1 /\ c \in Int /\ n \in Int
        BY <1>14, <1>15, <2>2, <3>2, SMT
      <3> QED
        BY <3>3, SMT DEF c
    <2> HIDE DEF C
    <2>4. /\ p[Levels + 1] \in Index /\ tb[Levels] \in TableFrame
          /\ \A n \in D : p[n] \in Index /\ tb[n - 1] \in TableFrame /\ n - 1 # Levels
      BY <1>9, <1>13, <1>15, PageIndices, SMT DEF Branch, Indices, Path
    <2>5. tables'[tb[Levels]][p[Levels + 1]] = leaf
      BY <1>9, <2>1, <2>2, <2>4
    <2>6. ASSUME NEW n \in D
          PROVE  tables'[tb[n - 1]][p[n]] = NewEntry(tb[n], leaf)
      <3>1. tb[n - 1] # T(Levels)
        BY <1>9, <1>14, <1>15, <2>2, <2>4
      <3>2. \E m \in DOMAIN nt : tb[n - 1] = T(m - 1) /\ p[n] = p[m]
        BY <1>15, <2>2
      <3> QED
        BY <1>15, <2>1, <2>3, <2>4, <3>1, <3>2, SMT
    <2>7. \A f \in TableFrame, i \in Index :
             \/ f = tb[Levels] /\ i = p[Levels + 1]
             \/ \E n \in D : f = tb[n - 1] /\ i = p[n]
             \/ tables'[f][i] = tables[f][i]
      <3> SUFFICES ASSUME NEW f \in TableFrame, NEW i \in Index,
                          ~(f = tb[Levels] /\ i = p[Levels + 1]),
                          ~\E n \in D : f = tb[n - 1] /\ i = p[n]
                   PROVE  tables'[f][i] = tables[f][i]
        OBVIOUS
      <3>1. ~(f = T(Levels) /\ i = p[Levels + 1])
        BY <1>9, <2>2
      <3>2. ~\E n \in DOMAIN nt : f = T(n - 1) /\ i = p[n]
        BY <1>15, <2>2
      <3> QED
        BY <1>7, <2>1, <3>1, <3>2, SMT
    <2>8. tables[tb[Levels]][p[Levels + 1]] = NotMapped
      <3>1. CASE d = Levels
        BY <1>6, <1>9, <1>12, <3>1, LookupAt, SMT DEF EntryAt
      <3>2. CASE d # Levels
        BY <1>9, <1>12, <2>4, <3>2, SMT DEF Shape, FreeEmpty, Path
      <3> QED
        BY <3>1, <3>2
    <2>9. ASSUME NEW n \in D
          PROVE  tables[tb[n - 1]][p[n]] = NotMapped
      <3>1. CASE n = d + 1
        <4>1. tb[n - 1] = w[n - 1] /\ w[n - 1] # NoFrame /\ w[n] = NoFrame
          BY <1>3, <1>8, <1>9, <1>12, <1>15, <3>1, SMT
        <4>2. w[n] = Target(w[n - 1], p[n])
          BY <1>2, <1>15
        <4>3. ASSUME tables[w[n - 1]][p[n]] # NotMapped
              PROVE  FALSE
          <5>1. At(home, tb[n - 1], s, p, n - 1) /\ n - 1 < Levels
            BY <1>9, <1>12, <1>15, <3>1, SMT
          <5>2. PICK h \in Used : Points(home, tb[n - 1], p[n], h)
            BY <2>4, <4>1, <4>3, <5>1 DEF At, Shape, Links
          <5> QED
            BY <4>1, <4>2, <4>3, <5>2, NotAFrame DEF Points, Target, Used
        <4> QED
          BY <4>1, <4>3
      <3>2. CASE n # d + 1
        <4>1. n - 1 > d
          BY <1>9, <1>15, <3>2, SMT DEF Path
        <4> QED
          BY <1>12, <1>15, <2>4, <4>1 DEF Shape, FreeEmpty
      <3> QED
        BY <3>1, <3>2
    <2> QED
      BY <1>9, <2>5, <2>6, <2>7, <2>8, <2>9 DEF Entered
  <1> QED
    BY <1>13, <1>17, <1>18

\* Tables with the grafted branch have the shape again.
LEMMA GraftedShape ==
    ASSUME TypeOK, NEW home, Shape(home), NEW s \in Spaces, NEW p \in Page,
           s = Kernel <=> p \in KernelPage, NEW leaf \in Leaf, leaf.user <=> s # Kernel,
           NEW new, NEW d, NEW tb,
           Branch(home, d, tb, s, p), Grown(home, new, tb, s, p), Entered(d, tb, p, leaf),
           free' \subseteq free, root' = root, s = Kernel /\ Live # {} => d >= 1
    PROVE  Shape(new)'
  <1> DEFINE D == (d + 1)..Levels
  <1>1. /\ d \in Nat /\ d <= Levels /\ Levels \in Path /\ Levels >= 1 /\ 0 \in Path
        /\ \A n \in Path : n \in Nat /\ n <= Levels
        /\ \A n \in D : n \in Nat /\ n \in Path /\ n - 1 \in Path /\ n > d /\ n >= 1 /\ n - 1 < Levels
        /\ \A n \in Path : n > d => n \in D
    BY LevelsAssumption, SMT DEF Branch, Path
  <1>2. Live' = Live /\ Spaces' = Spaces
    BY DEF Live, Spaces
  <1>3. \A n \in Path : tb[n] \in TableFrame /\ tb[n] \in Used' /\ (tb[n] \in Used <=> n <= d)
    BY DEF Branch, Grown
  <1>4. \A n \in Path : new[tb[n]].level = n /\ new[tb[n]].space = s
    BY DEF Grown
  <1>5. \A f \in Used' : (f \in Used /\ new[f] = home[f]) \/ (f \notin Used /\ \E n \in D : f = tb[n])
    BY <1>1, <1>3, SMT DEF Grown
  <1>6. Used \subseteq Used' /\ \A f \in Used : new[f] = home[f]
    BY DEF Grown
  <1>7. \A n \in 1..Levels : p[n] \in Index
    BY PageIndices DEF Indices
  <1>8. p[Levels + 1] \in Index /\ (s = Kernel <=> p[1] \in KernelIndex)
    BY PageIndices, PageHalves
  <1>9. leaf # NotMapped /\ \A f \in TableFrame : NewEntry(f, leaf) \in TableEntry /\ NewEntry(f, leaf) # NotMapped
    BY NamesAssumption, SMT DEF Leaf, TableEntry, NewEntry
  <1>10. \A f \in TableFrame, i \in Index : tables[f][i] # NotMapped => tables'[f][i] = tables[f][i]
    BY SMT DEF Entered
  <1>11. \A f \in Used', i \in Index :
            \/ f = tb[Levels] /\ i = p[Levels + 1]
            \/ \E n \in D : f = tb[n - 1] /\ i = p[n]
            \/ f \in Used /\ tables'[f][i] = tables[f][i]
            \/ tables'[f][i] = NotMapped
    <2>1. \A f \in TableFrame \ Used, i \in Index : tables[f][i] = NotMapped
      BY DEF Shape, FreeEmpty, Used
    <2>2. \A f \in Used' : f \in TableFrame
      BY <1>3, <1>5, <1>1 DEF Used
    <2> QED
      BY <2>1, <2>2, SMT DEF Entered
  <1>12. \A f \in Used : f \in TableFrame /\ home[f].level \in Path /\ home[f].space \in Spaces
    BY DEF Used, Shape, Homes
  <1> HIDE DEF D
  <1>13. Roots(new)'
    <2>1. \A v \in Spaces : root[v] \in Used' /\ new[root[v]].level = 0 /\ new[root[v]].space = v
      BY <1>6 DEF Shape, Roots
    <2>2. ASSUME NEW f \in Used', new[f].level = 0
          PROVE  f = root[new[f].space]
      <3>1. f \in Used /\ new[f] = home[f]
        BY <1>1, <1>4, <1>5, <2>2, SMT
      <3> QED
        BY <2>2, <3>1 DEF Shape, Roots
    <2> QED
      BY <1>2, <2>1, <2>2 DEF Roots
  <1>14. Homes(new)'
    <2> SUFFICES ASSUME NEW f \in Used'
                 PROVE  /\ new[f].level \in Path
                        /\ new[f].space \in Spaces'
                        /\ \A k \in 1..new[f].level : new[f].way[k] \in Index
                        /\ new[f].level >= 1 => (new[f].space = Kernel <=> new[f].way[1] \in KernelIndex)
      BY DEF Homes
    <2>1. CASE f \in Used
      BY <1>2, <1>6, <2>1 DEF Shape, Homes
    <2>2. ASSUME NEW n \in D, f = tb[n]
          PROVE  /\ new[f].level = n /\ new[f].space = s /\ n \in Path /\ n >= 1
                 /\ \A k \in 1..n : new[f].way[k] \in Index
                 /\ new[f].way[1] = p[1]
      BY <1>1, <1>7, <2>2, SMT DEF Grown, Path
    <2> QED
      BY <1>2, <1>5, <1>8, <2>1, <2>2
  <1>15. Leaves(new)'
    <2> SUFFICES ASSUME NEW f \in Used', NEW i \in Index, new[f].level = Levels, tables'[f][i] # NotMapped
                 PROVE  /\ tables'[f][i] \in Leaf
                        /\ tables'[f][i].user <=> new[f].space # Kernel
      BY DEF Leaves
    <2>1. CASE f = tb[Levels] /\ i = p[Levels + 1]
      BY <1>1, <1>4, <2>1, SMT DEF Entered
    <2>2. CASE \E n \in D : f = tb[n - 1] /\ i = p[n]
      BY <1>1, <1>4, <2>2, SMT
    <2>3. CASE f \in Used /\ tables'[f][i] = tables[f][i]
      BY <1>6, <2>3 DEF Shape, Leaves
    <2> QED
      BY <1>11, <2>1, <2>2, <2>3
  <1>16. FreeEmpty'
    <2> SUFFICES ASSUME NEW f \in free', NEW i \in Index
                 PROVE  tables'[f][i] = NotMapped
      BY DEF FreeEmpty
    <2>1. f \in TableFrame /\ f \notin Used' /\ tables[f][i] = NotMapped
      BY DEF Used, TypeOK, Shape, FreeEmpty
    <2>2. \A n \in Path : f # tb[n]
      BY <1>3, <2>1
    <2> QED
      BY <1>1, <2>1, <2>2 DEF Entered, D
  <1>17. HomesDiffer(new)'
    <2>1. ASSUME NEW f \in Used', NEW g \in Used', SameHome(new, f, g), f \notin Used
          PROVE  f = g
      <3>1. PICK n \in D : f = tb[n]
        BY <1>5, <2>1
      <3>2. /\ new[g].level = n /\ new[g].space = s
            /\ \A k \in 1..n : new[g].way[k] = p[k]
        BY <1>1, <1>4, <2>1, <3>1, SMT DEF SameHome, Grown
      <3>3. CASE g \in Used
        <4>1. Owner(s, p, n) = s
          BY <1>1, <1>8 DEF Owner
        <4>2. At(home, g, s, p, n)
          BY <1>6, <3>2, <3>3, <4>1 DEF At
        <4> QED
          BY <1>1, <3>3, <4>2, SMT DEF Branch, D
      <3>4. CASE g \notin Used
        BY <1>1, <1>4, <1>5, <3>1, <3>2, <3>4, SMT
      <3> QED
        BY <3>3, <3>4
    <2>2. \A f, g \in Used' : SameHome(new, f, g) => SameHome(new, g, f)
      BY DEF SameHome
    <2>3. \A f, g \in Used : SameHome(new, f, g) => f = g
      BY <1>6, SMT DEF Shape, HomesDiffer, SameHome
    <2> QED
      BY <2>1, <2>2, <2>3, SMT DEF HomesDiffer, SameHome
  <1>18. KernelHalfShared'
    <2>1. ASSUME NEW v \in Spaces, NEW i \in KernelIndex, Live # {}
          PROVE  tables'[root[v]][i] = tables[root[v]][i]
      <3>1. root[v] \in TableFrame /\ new[root[v]].level = 0 /\ i \in Index
        BY <1>6, <1>12, HalvesAssumption DEF Shape, Roots
      <3>2. root[v] # tb[Levels]
        BY <1>1, <1>4, <3>1, SMT
      <3>3. ASSUME NEW n \in D, root[v] = tb[n - 1], i = p[n]
            PROVE  FALSE
        <4>1. n = 1 /\ d = 0
          BY <1>1, <1>4, <3>1, <3>3, SMT
        <4> QED
          BY <1>8, <2>1, <3>3, <4>1, SMT
      <3> QED
        BY <3>1, <3>2, <3>3 DEF Entered, D
    <2>2. \A v \in Live : v \in Spaces
      BY DEF Spaces
    <2>3. Kernel \in Spaces
      BY DEF Spaces
    <2> QED
      BY <1>2, <2>1, <2>2, <2>3, SMT DEF Shape, KernelHalfShared
  <1>19. Links(new)'
    <2> SUFFICES ASSUME NEW g \in Used', NEW i \in Index, new[g].level < Levels, tables'[g][i] # NotMapped
                 PROVE  \E h \in Used' : Child(new, g, i, h)' /\ Points(new, g, i, h)'
      BY DEF Links
    <2>1. CASE g = tb[Levels]
      BY <1>1, <1>4, <2>1, SMT
    <2>2. ASSUME NEW n \in D, g = tb[n - 1], i = p[n]
          PROVE  \E h \in Used' : Child(new, g, i, h)' /\ Points(new, g, i, h)'
      <3>1. /\ new[g].level = n - 1 /\ new[g].space = s /\ \A k \in 1..(n - 1) : new[g].way[k] = p[k]
            /\ new[tb[n]].level = n /\ new[tb[n]].space = s /\ \A k \in 1..n : new[tb[n]].way[k] = p[k]
            /\ tb[n] \in Used' /\ tb[n] \in TableFrame
        BY <1>1, <1>3, <2>2, SMT DEF Grown
      <3>2. new[tb[n]].way[n] = i /\ \A k \in 1..(n - 1) : new[tb[n]].way[k] = p[k]
        BY <1>1, <2>2, <3>1, SMT
      <3>3. n - 1 = 0 => i = p[1]
        BY <1>1, <2>2, SMT
      <3>4. Child(new, g, i, tb[n])'
        BY <1>1, <1>8, <3>1, <3>2, <3>3, SMT DEF Child
      <3>5. tables'[g][i] = NewEntry(tb[n], leaf)
        BY <2>2 DEF Entered, D
      <3>6. Points(new, g, i, tb[n])'
        BY <1>9, <3>1, <3>5, SMT DEF Points, NewEntry
      <3> QED
        BY <3>1, <3>4, <3>6
    <2>3. CASE g \in Used /\ tables'[g][i] = tables[g][i]
      <3>1. PICK h \in Used : Child(home, g, i, h) /\ Points(home, g, i, h)
        BY <1>6, <2>3 DEF Shape, Links
      <3>2. new[g] = home[g] /\ new[h] = home[h] /\ h \in Used'
        BY <1>6, <2>3
      <3>3. Child(new, g, i, h)'
        BY <3>1, <3>2 DEF Child
      <3>4. Points(new, g, i, h)'
        BY <2>3, <3>1, <3>2 DEF Points
      <3> QED
        BY <3>2, <3>3, <3>4
    <2> QED
      BY <1>11, <2>1, <2>2, <2>3
  <1>20. Parents(new)'
    <2> SUFFICES ASSUME NEW g \in Used', new[g].level >= 1
                 PROVE  /\ \E h \in Used' : Parent(new, h, g)'
                        /\ \E i \in Index : tables'[g][i] # NotMapped
      BY DEF Parents
    <2>1. CASE g \in Used
      <3>1. PICK h \in Used : Parent(home, h, g)
        BY <1>6, <2>1 DEF Shape, Parents
      <3>2. PICK i \in Index : tables[g][i] # NotMapped
        BY <1>6, <2>1 DEF Shape, Parents
      <3>3. home[g].way[home[g].level] \in Index
        BY <1>6, <2>1, SMT DEF Shape, Homes, Path
      <3>4. h \in Used' /\ Parent(new, h, g)'
        <4>1. h \in Used' /\ h \in TableFrame /\ new[h] = home[h] /\ new[g] = home[g]
          BY <1>6, <1>12, <2>1
        <4>2. tables[h][home[g].way[home[g].level]] # NotMapped
          BY <3>1 DEF Parent
        <4>3. tables'[h][home[g].way[home[g].level]] # NotMapped
          BY <1>10, <3>3, <4>1, <4>2
        <4> QED
          BY <3>1, <4>1, <4>3 DEF Parent
      <3> QED
        BY <1>10, <1>12, <2>1, <3>2, <3>4
    <2>2. ASSUME NEW n \in D, g = tb[n]
          PROVE  /\ Parent(new, tb[n - 1], g)' /\ tb[n - 1] \in Used'
                 /\ \E i \in Index : tables'[g][i] # NotMapped
      <3>1. /\ new[g].level = n /\ new[g].space = s /\ \A k \in 1..n : new[g].way[k] = p[k]
            /\ new[tb[n - 1]].level = n - 1 /\ new[tb[n - 1]].space = s
            /\ \A k \in 1..(n - 1) : new[tb[n - 1]].way[k] = p[k]
            /\ tb[n - 1] \in Used' /\ tb[n] \in TableFrame
        BY <1>1, <1>3, <2>2 DEF Grown
      <3>2. new[g].way[n] = p[n] /\ \A k \in 1..(n - 1) : new[g].way[k] = p[k]
        BY <1>1, <3>1, SMT
      <3>3. tables'[tb[n - 1]][p[n]] # NotMapped
        BY <1>9, <3>1 DEF Entered, D
      <3>4. Parent(new, tb[n - 1], g)'
        <4>1. new[g].level = new[tb[n - 1]].level + 1
          BY <1>1, <3>1, SMT
        <4>2. \A k \in 1..(n - 1) : new[tb[n - 1]].way[k] = new[g].way[k]
          BY <3>1, <3>2
        <4> QED
          BY <2>2, <3>1, <3>2, <3>3, <4>1, <4>2 DEF Parent
      <3>5. \E i \in Index : tables'[g][i] # NotMapped
        <4>1. CASE n = Levels
          BY <1>8, <1>9, <2>2, <4>1 DEF Entered
        <4>2. CASE n # Levels
          <5>1. n + 1 \in D /\ n + 1 \in 1..Levels /\ (n + 1) - 1 = n
            BY <1>1, <4>2, SMT DEF D
          <5>2. tables'[tb[n]][p[n + 1]] = NewEntry(tb[n + 1], leaf)
            BY <5>1 DEF Entered, D
          <5> QED
            BY <1>1, <1>3, <1>7, <1>9, <2>2, <5>1, <5>2
        <4> QED
          BY <4>1, <4>2
      <3> QED
        BY <3>1, <3>4, <3>5
    <2> QED
      BY <1>5, <2>1, <2>2
  <1> QED
    BY <1>13, <1>14, <1>15, <1>16, <1>17, <1>18, <1>19, <1>20 DEF Shape

\* A page is told by its indices.
LEMMA SamePage ==
    ASSUME NEW p \in Page, NEW q \in Page,
           \A k \in 1..Levels : q[k] = p[k], q[Levels + 1] = p[Levels + 1]
    PROVE  p = q
  <1> DEFINE S == 1..(Levels + 1)
  <1>1. p \in [S -> Index] /\ q \in [S -> Index]
    BY HalvesAssumption
  <1>2. \A k \in S : p[k] = q[k]
    <2>1. \A k \in S : k \in 1..Levels \/ k = Levels + 1
      BY LevelsAssumption, SMT
    <2> QED
      BY <2>1
  <1> HIDE DEF S
  <1> QED
    BY <1>1, <1>2, SMT

\* Grafting changes the one page.
LEMMA GraftedView ==
    ASSUME NEW home, Shape(home), NEW s \in Spaces, NEW p \in Page,
           s = Kernel <=> p \in KernelPage, NEW leaf \in Leaf,
           NEW new, NEW d, NEW tb,
           Branch(home, d, tb, s, p), Grown(home, new, tb, s, p), Entered(d, tb, p, leaf),
           root' = root, Shape(new)'
    PROVE  Changed(s, p, leaf)
  <1> SUFFICES ASSUME NEW t \in Spaces, NEW q \in Page
               PROVE  Lookup(t, q)' = IF q = p /\ t \in SeenBy(s) THEN leaf ELSE Lookup(t, q)
    BY DEF Changed
  <1>1. t \in Spaces' /\ EntryAt(home, t, q) /\ EntryAt(new, t, q)'
    <2>1. t \in Spaces'
      BY DEF Spaces, Live
    <2> QED
      BY <2>1, LookupAt, LookupAtNext
  <1>2. Levels \in Path /\ Levels >= 1 /\ Levels \in Nat
    BY LevelsAssumption, SMT DEF Path
  <1>3. s = Kernel <=> p[1] \in KernelIndex
    BY PageHalves
  <1>4. /\ tb[Levels] \in Used' /\ new[tb[Levels]].level = Levels /\ new[tb[Levels]].space = s
        /\ \A k \in 1..Levels : new[tb[Levels]].way[k] = p[k]
    BY <1>2 DEF Grown
  <1>5. CASE q = p /\ t \in SeenBy(s)
    <2>1. Owner(t, q, Levels) = s
      BY <1>2, <1>3, <1>5 DEF Owner, SeenBy
    <2>2. At(new, tb[Levels], t, q, Levels)'
      BY <1>4, <1>5, <2>1 DEF At
    <2>3. tables'[tb[Levels]][q[Levels + 1]] = leaf
      BY <1>5 DEF Entered
    <2> QED
      BY <1>1, <1>5, <2>2, <2>3 DEF EntryAt
  <1>6. CASE ~(q = p /\ t \in SeenBy(s))
    <2>1. ASSUME Lookup(t, q) # NotMapped
          PROVE  Lookup(t, q)' = Lookup(t, q)
      <3>1. PICK f \in Used : At(home, f, t, q, Levels) /\ tables[f][q[Levels + 1]] = Lookup(t, q)
        BY <1>1, <2>1 DEF EntryAt
      <3>2. At(new, f, t, q, Levels)'
        BY <3>1 DEF At, Grown
      <3>3. tables'[f][q[Levels + 1]] = Lookup(t, q)
        BY <2>1, <3>1, PageIndices, SMT DEF Entered, Used
      <3> QED
        BY <1>1, <3>2, <3>3 DEF EntryAt
    <2>2. ASSUME Lookup(t, q) = NotMapped, Lookup(t, q)' # NotMapped
          PROVE  FALSE
      <3>1. PICK f \in Used' : At(new, f, t, q, Levels)' /\ tables'[f][q[Levels + 1]] # NotMapped
        BY <1>1, <2>2 DEF EntryAt
      <3>2. /\ f \in TableFrame /\ q[Levels + 1] \in Index
            /\ new[f].level = Levels /\ new[f].space = Owner(t, q, Levels)
            /\ \A k \in 1..Levels : new[f].way[k] = q[k]
        BY <3>1, PageIndices DEF At, Used
      <3>3. CASE f = tb[Levels] /\ q[Levels + 1] = p[Levels + 1]
        <4>1. q = p
          BY <1>4, <3>2, <3>3, SamePage, SMT
        <4>2. t \in SeenBy(s)
          BY <1>2, <1>3, <1>4, <3>2, <3>3, <4>1 DEF Owner, SeenBy
        <4> QED
          BY <1>6, <4>1, <4>2
      <3>4. CASE \E n \in (d + 1)..Levels : f = tb[n - 1] /\ q[Levels + 1] = p[n]
        <4>1. PICK n \in (d + 1)..Levels : f = tb[n - 1]
          BY <3>4
        <4>2. n - 1 \in Path /\ n - 1 # Levels
          BY <1>2, SMT DEF Branch, Path
        <4> QED
          BY <3>2, <4>1, <4>2 DEF Grown
      <3>5. CASE tables'[f][q[Levels + 1]] = tables[f][q[Levels + 1]]
        <4>1. f \in Used
          BY <3>1, <3>2, <3>5 DEF Used, Shape, FreeEmpty
        <4>2. At(home, f, t, q, Levels)
          BY <3>2, <4>1 DEF At, Grown
        <4> QED
          BY <1>1, <2>2, <3>1, <3>5, <4>2 DEF EntryAt
      <3> QED
        BY <3>2, <3>3, <3>4, <3>5 DEF Entered
    <2> QED
      BY <1>6, <2>1, <2>2
  <1> QED
    BY <1>5, <1>6

\* The root entry above the stacks is there once the image is mapped.
LEMMA StackTable ==
    ASSUME NEW home, Shape(home), ImageMapped, NEW p \in StackPage
    PROVE  \E f \in Used : At(home, f, Kernel, p, 1)
  <1>1. PICK q \in ImagePage : p[1] = q[1]
    BY StacksBesideImage
  <1>2. q \in Page /\ Indices(q) /\ Kernel \in Spaces
    BY PageIndices, HalvesAssumption DEF Page, KernelPage, Spaces
  <1>3. Walk(Kernel, q)[Levels] # NoFrame
    BY DEF ImageMapped, Lookup
  <1>4. 1 \in 1..Levels /\ 1 \in Path /\ Levels \in 1..Levels
    BY LevelsAssumption, SMT DEF Path
  <1>5. Walk(Kernel, q)[1] # NoFrame
    BY <1>3, <1>4, WalkEnds
  <1>6. At(home, Walk(Kernel, q)[1], Kernel, q, 1)
    BY <1>2, <1>4, <1>5, WalkEntry
  <1> QED
    BY <1>1, <1>6, SMT DEF At, Owner

LEMMA MapStep ==
    ASSUME TypeOK, NEW home, Shape(home), NEW s \in Spaces, NEW p \in Page,
           s = Kernel <=> p \in KernelPage, NEW leaf \in Leaf, leaf.user <=> s # Kernel,
           p \in BootPage => Live = {}, p \in StackPage => ImageMapped,
           MapOk(s, p, leaf)
    PROVE  (\E new : Shape(new)') /\ Changed(s, p, leaf) /\ TypeOK'
  <1>1. PICK new, d, tb : /\ Branch(home, d, tb, s, p)
                          /\ Grown(home, new, tb, s, p)
                          /\ Entered(d, tb, p, leaf)
    BY MapGrafts
  <1>2. root' = root /\ free' \subseteq free
    BY DEF MapOk
  <1>3. ASSUME s = Kernel, Live # {}
        PROVE  d >= 1
    <2>1. PICK f \in Used : At(home, f, s, p, 1)
      BY <1>3, StackTable DEF KernelPage
    <2> QED
      BY <1>1, <2>1, LevelsAssumption, SMT DEF Branch, Path
  <1>4. Shape(new)'
    BY <1>1, <1>2, <1>3, GraftedShape
  <1>5. Changed(s, p, leaf)
    BY <1>1, <1>2, <1>4, GraftedView
  <1>6. TypeOK'
    <2> DEFINE Entry == TableEntry \cup Leaf \cup {NotMapped}
    <2>1. tables' = [f \in TableFrame |-> [i \in Index |-> tables'[f][i]]]
      BY DEF MapOk, Published
    <2>2. \A f \in TableFrame : NewEntry(f, leaf) \in TableEntry
      BY DEF NewEntry, TableEntry, Leaf
    <2>3. \A n \in (d + 1)..Levels : tb[n] \in TableFrame
      BY <1>1, LevelsAssumption, SMT DEF Branch, Path
    <2>4. \A f \in TableFrame, i \in Index : tables'[f][i] \in Entry
      <3> SUFFICES ASSUME NEW f \in TableFrame, NEW i \in Index
                   PROVE  tables'[f][i] \in Entry
        OBVIOUS
      <3>1. CASE f = tb[Levels] /\ i = p[Levels + 1]
        BY <1>1, <3>1 DEF Entered
      <3>2. ASSUME NEW n \in (d + 1)..Levels, f = tb[n - 1], i = p[n]
            PROVE  tables'[f][i] \in Entry
        BY <1>1, <2>2, <2>3, <3>2 DEF Entered
      <3>3. tables[f][i] \in Entry
        BY DEF TypeOK
      <3> QED
        BY <1>1, <3>1, <3>2, <3>3 DEF Entered
    <2> HIDE DEF Entry
    <2>5. tables' \in [TableFrame -> [Index -> Entry]]
      BY <2>1, <2>4
    <2>6. tlb' \subseteq tlb /\ UNCHANGED <<root, cr3>>
      BY DEF MapOk, FlushIfActive
    <2> QED
      BY <1>2, <2>5, <2>6 DEF TypeOK, Entry
  <1> QED
    BY <1>4, <1>5, <1>6

-----------------------------------------------------------------------------
(* What the invariant says of the checked properties.                      *)

\* A table in use is on a way of its own space.
LEMMA WayTo ==
    ASSUME NEW home, Shape(home), NEW f \in Used
    PROVE  \E q \in Way : /\ Indices(q)
                          /\ home[f].level >= 1 => q[1] = home[f].way[1]
                          /\ At(home, f, home[f].space, q, home[f].level)
  <1> DEFINE n == home[f].level
  <1>1. /\ n \in Path /\ \A k \in 1..n : home[f].way[k] \in Index
        /\ n >= 1 => (home[f].space = Kernel <=> home[f].way[1] \in KernelIndex)
    BY DEF Shape, Homes
  <1>2. PICK i : i \in Index
    BY HalvesAssumption
  <1> DEFINE q == [k \in 1..Levels |-> IF k \in 1..n THEN home[f].way[k] ELSE i]
  <1>3. q \in Way
    BY <1>1, <1>2 DEF Way
  <1>4. \A k \in 1..n : k \in 1..Levels /\ q[k] = home[f].way[k]
    BY <1>1, LevelsAssumption, SMT DEF Path
  <1>5. n >= 1 => q[1] = home[f].way[1]
    BY <1>1, <1>4, SMT DEF Path
  <1>6. Indices(q)
    BY <1>3 DEF Way, Indices
  <1> HIDE DEF q
  <1>7. At(home, f, home[f].space, q, n)
    BY <1>1, <1>4, <1>5 DEF At, Owner
  <1> QED
    BY <1>3, <1>5, <1>6, <1>7

LEMMA ShapeImpliesForest ==
    ASSUME NEW home, Shape(home)
    PROVE  TablesAreForest
  <1>1. ASSUME NEW s \in Spaces, NEW q \in Way, NEW n \in Path, Walk(s, q)[n] # NoFrame
        PROVE  At(home, Walk(s, q)[n], s, q, n)
    <2>1. Indices(q)
      BY DEF Way, Indices
    <2> QED
      BY <1>1, <2>1, WalkAt
  <1>2. ASSUME NEW f \in Used
        PROVE  \E q \in Way : Walk(home[f].space, q)[home[f].level] = f
    <2>1. PICK q \in Way : Indices(q) /\ At(home, f, home[f].space, q, home[f].level)
      BY WayTo
    <2>2. home[f].space \in Spaces /\ home[f].level \in Path /\ f \in TableFrame
      BY DEF Shape, Homes, Used
    <2> QED
      BY <2>1, <2>2, WalkAt, SMT
  <1>3. TableFrame \ free = UNION {Tables(s) : s \in Live \cup {Kernel}}
    <2>1. ASSUME NEW s \in Spaces, NEW f \in Tables(s)
          PROVE  f \in Used
      BY <1>1, <2>1, SMT DEF Tables, At
    <2>2. ASSUME NEW f \in Used
          PROVE  \E s \in Spaces : f \in Tables(s)
      BY <1>2, NotAFrame, SMT DEF Tables, Used, Shape, Homes
    <2> QED
      BY <2>1, <2>2 DEF Used, Spaces
  <1>4. ASSUME NEW a \in Places, NEW b \in Places, a.frame = b.frame
        PROVE  /\ a.way = b.way
               /\ a.space = b.space \/ (a.way # <<>> /\ a.way[1] \in KernelIndex)
    <2>1. PICK s \in Spaces, q \in Way, n \in Path :
             /\ a = [space |-> s, way |-> [k \in 1..n |-> q[k]], frame |-> Walk(s, q)[n]]
             /\ a.frame # NoFrame
      BY SMT DEF Places, Spaces
    <2>2. PICK t \in Spaces, r \in Way, m \in Path :
             /\ b = [space |-> t, way |-> [k \in 1..m |-> r[k]], frame |-> Walk(t, r)[m]]
             /\ b.frame # NoFrame
      BY SMT DEF Places, Spaces
    <2>3. At(home, a.frame, s, q, n) /\ At(home, a.frame, t, r, m)
      BY <1>1, <1>4, <2>1, <2>2
    <2>4. n = m /\ Owner(s, q, n) = Owner(t, r, m) /\ \A k \in 1..n : q[k] = r[k]
      BY <2>3 DEF At
    <2>5. a.way = b.way
      BY <2>1, <2>2, <2>4
    <2>6. CASE n >= 1 /\ q[1] \in KernelIndex
      <3>1. a.way[1] = q[1] /\ 1 \in DOMAIN a.way
        BY <2>1, <2>6, SMT DEF Path
      <3>2. a.way # <<>>
        BY <3>1, SMT
      <3> QED
        BY <2>5, <2>6, <3>1, <3>2
    <2>7. CASE ~(n >= 1 /\ q[1] \in KernelIndex)
      <3>1. ~(m >= 1 /\ r[1] \in KernelIndex)
        BY <2>4, <2>7, SMT DEF Path
      <3> QED
        BY <2>1, <2>2, <2>4, <2>5, <2>7, <3>1 DEF Owner
    <2> QED
      BY <2>6, <2>7
  <1>5. ASSUME NEW s \in Spaces, NEW f \in Tables(s) \ {root[s]}
        PROVE  tables[f] # EmptyTable
    <2>1. PICK q \in Way, n \in Path : f = Walk(s, q)[n] /\ f # NoFrame
      BY SMT DEF Tables
    <2>2. At(home, f, s, q, n)
      BY <1>1, <2>1
    <2>3. home[f].level # 0
      BY <2>2, SMT DEF At, Owner, Shape, Roots
    <2>4. f \in Used /\ home[f].level >= 1
      BY <2>2, <2>3, SMT DEF At, Path
    <2>5. PICK i \in Index : tables[f][i] # NotMapped
      BY <2>4 DEF Shape, Parents
    <2> QED
      BY <2>5 DEF EmptyTable
  <1> QED
    BY <1>3, <1>4, <1>5 DEF TablesAreForest, Spaces

LEMMA ShapeImpliesUserBits ==
    ASSUME NEW home, Shape(home)
    PROVE  UserBitsRight
  <1> SUFFICES ASSUME NEW s \in Spaces, NEW p \in Page, Lookup(s, p) # NotMapped
               PROVE  UserAccessible(s, p) <=> p \in UserPage
    BY DEF UserBitsRight, Spaces
  <1>1. PICK f \in Used : At(home, f, s, p, Levels) /\ tables[f][p[Levels + 1]] = Lookup(s, p)
    BY LookupAt DEF EntryAt
  <1>2. Levels >= 1 /\ home[f].level = Levels /\ home[f].space = Owner(s, p, Levels)
        /\ home[f].way[1] = p[1]
    BY <1>1, LevelsAssumption, SMT DEF At
  <1>3. p[Levels + 1] \in Index /\ Indices(p)
    BY PageIndices
  <1>4. Lookup(s, p).user <=> home[f].space # Kernel
    BY <1>1, <1>2, <1>3, SMT DEF Shape, Leaves
  <1>5. home[f].space = Kernel <=> p[1] \in KernelIndex
    BY <1>1, <1>2 DEF Shape, Homes
  <1>6. p \in UserPage <=> p[1] \notin KernelIndex
    BY HalvesAssumption DEF Page
  <1>7. ASSUME p \in UserPage, NEW n \in 1..Levels
        PROVE  tables[Walk(s, p)[n - 1]][p[n]].user
    <2>1. Walk(s, p)[n] # NoFrame
      <3>1. Walk(s, p)[Levels] # NoFrame
        BY DEF Lookup
      <3> QED
        BY <3>1, WalkEnds, LevelsAssumption, SMT DEF Path
    <2>2. Owner(s, p, n) = Owner(s, p, Levels)
      BY <1>2, SMT DEF Owner
    <2> QED
      BY <1>2, <1>3, <1>5, <1>6, <1>7, <2>1, <2>2, WalkEntry
  <1> QED
    BY <1>4, <1>5, <1>6, <1>7 DEF UserAccessible

-----------------------------------------------------------------------------
(* Making a space.                                                         *)

LEMMA NewUserStep ==
    ASSUME TypeOK, NEW home, Shape(home), NEW u \in Users, NEW from \in Spaces, new_user(from, u)
    PROVE  \E new : /\ Shape(new)'
                    /\ Live' = Live \cup {u}
                    /\ \A t \in Spaces, p \in Page : Lookup(t, p)' = Lookup(t, p)
                    /\ \A p \in Page : Lookup(u, p)' =
                          IF p \in KernelPage THEN Lookup(Kernel, p) ELSE NotMapped
  <1>1. PICK f \in free : /\ root' = [root EXCEPT ![u] = f]
                          /\ tables' = [tables EXCEPT ![f] = CopiedHalf(from)]
                          /\ free' = free \ {f}
    BY DEF new_user
  <1>2. /\ u \in Space /\ u # Kernel /\ f \in TableFrame /\ f # NoFrame /\ f \notin Used
        /\ u \notin Live /\ root[u] = NoFrame /\ root[Kernel] \in Used
    BY NamesAssumption, SMT DEF TypeOK, Space, new_user, Live, Shape, Roots, Spaces, Used
  <1>3. Live' = Live \cup {u} /\ Spaces' = Spaces \cup {u} /\ Used' = Used \cup {f}
    BY <1>1, <1>2 DEF Live, Spaces, Used, TypeOK, Space
  <1>4. \A s \in Spaces' : root'[s] = IF s = u THEN f ELSE root[s]
    BY <1>1, <1>2, <1>3 DEF TypeOK, Space, Live, Spaces
  <1>5. \A g \in TableFrame, i \in Index :
            tables'[g][i] = IF g = f THEN IF i \in KernelIndex THEN tables[root[Kernel]][i] ELSE NotMapped
                            ELSE tables[g][i]
    <2>1. \A i \in KernelIndex : tables[root[from]][i] = tables[root[Kernel]][i]
      BY DEF Spaces, Shape, KernelHalfShared
    <2> QED
      BY <1>1, <1>2, <2>1 DEF CopiedHalf, TypeOK
  <1> DEFINE new == [g \in TableFrame |->
                        IF g = f THEN [space |-> u, level |-> 0, way |-> EmptyTable] ELSE home[g]]
  <1>6. new[f].space = u /\ new[f].level = 0 /\ \A g \in Used : new[g] = home[g]
    BY <1>2 DEF Used
  <1> HIDE DEF new
  <1>7. \A g \in Used : g # f /\ g \in TableFrame /\ home[g].level \in Path /\ home[g].space \in Spaces
    BY <1>2 DEF Used, Shape, Homes
  <1>8. Shape(new)'
    <2>1. Roots(new)'
      <3>1. ASSUME NEW v \in Spaces'
            PROVE  root'[v] \in Used' /\ new[root'[v]].level = 0 /\ new[root'[v]].space = v
        <4>1. CASE v = u
          BY <1>3, <1>4, <1>6, <4>1
        <4>2. CASE v # u
          <5>1. v \in Spaces /\ root'[v] = root[v]
            BY <1>3, <1>4, <4>2
          <5>2. root[v] \in Used /\ home[root[v]].level = 0 /\ home[root[v]].space = v
            BY <5>1 DEF Shape, Roots
          <5> QED
            BY <1>3, <1>6, <5>1, <5>2
        <4> QED
          BY <4>1, <4>2
      <3>2. ASSUME NEW g \in Used', new[g].level = 0
            PROVE  g = root'[new[g].space]
        <4>1. CASE g = f
          BY <1>3, <1>4, <1>6, <4>1
        <4>2. CASE g # f
          <5>1. g \in Used /\ new[g] = home[g]
            BY <1>3, <1>6, <4>2
          <5>2. g = root[home[g].space] /\ home[g].space \in Spaces
            BY <1>7, <3>2, <5>1 DEF Shape, Roots
          <5>3. home[g].space # u
            BY <1>2, <5>2 DEF Spaces
          <5> QED
            BY <1>3, <1>4, <5>1, <5>2, <5>3
        <4> QED
          BY <4>1, <4>2
      <3> QED
        BY <3>1, <3>2 DEF Roots
    <2>2. Homes(new)'
      <3>1. 0 \in Path /\ ~(0 >= 1) /\ \A k \in 1..0 : FALSE
        BY LevelsAssumption, SMT DEF Path
      <3> SUFFICES ASSUME NEW g \in Used'
                   PROVE  /\ new[g].level \in Path /\ new[g].space \in Spaces'
                          /\ \A k \in 1..new[g].level : new[g].way[k] \in Index
                          /\ new[g].level >= 1 => (new[g].space = Kernel <=> new[g].way[1] \in KernelIndex)
        BY DEF Homes
      <3>2. CASE g = f
        BY <1>3, <1>6, <3>1, <3>2
      <3>3. CASE g # f
        <4>1. g \in Used /\ new[g] = home[g]
          BY <1>3, <1>6, <3>3
        <4> QED
          BY <1>3, <4>1 DEF Shape, Homes
      <3> QED
        BY <3>2, <3>3
    <2>3. Links(new)'
      <3> SUFFICES ASSUME NEW g \in Used', NEW i \in Index, new[g].level < Levels, tables'[g][i] # NotMapped
                   PROVE  \E h \in Used' : Child(new, g, i, h)' /\ Points(new, g, i, h)'
        BY DEF Links
      <3>1. CASE g = f
        <4>1. i \in KernelIndex /\ tables'[g][i] = tables[root[Kernel]][i]
          BY <1>2, <1>5, <3>1
        <4>2. home[root[Kernel]].level = 0 /\ home[root[Kernel]].level < Levels
          BY LevelsAssumption, SMT DEF Shape, Roots, Spaces
        <4>3. PICK h \in Used : Child(home, root[Kernel], i, h) /\ Points(home, root[Kernel], i, h)
          BY <1>2, <3>1, <4>1, <4>2 DEF Shape, Links
        <4>4. new[h] = home[h] /\ home[h].level = 1 /\ home[h].space = Kernel /\ home[h].way[1] = i
          BY <1>6, <4>1, <4>2, <4>3, SMT DEF Child
        <4>5. Child(new, g, i, h)'
          <5>1. 0 + 1 = 1 /\ \A k \in 1..0 : FALSE
            BY SMT
          <5> QED
            BY <1>3, <1>6, <3>1, <4>1, <4>4, <5>1 DEF Child
        <4>6. Points(new, g, i, h)'
          BY <4>1, <4>3, <4>4 DEF Points
        <4> QED
          BY <1>3, <4>5, <4>6
      <3>2. CASE g # f
        <4>1. g \in Used /\ new[g] = home[g] /\ tables'[g][i] = tables[g][i]
          BY <1>3, <1>5, <1>6, <1>7, <3>2
        <4>2. PICK h \in Used : Child(home, g, i, h) /\ Points(home, g, i, h)
          BY <4>1 DEF Shape, Links
        <4>3. new[h] = home[h]
          BY <1>6
        <4>4. Child(new, g, i, h)'
          BY <1>3, <4>1, <4>2, <4>3 DEF Child
        <4>5. Points(new, g, i, h)'
          BY <4>1, <4>2, <4>3 DEF Points
        <4> QED
          BY <1>3, <4>4, <4>5
      <3> QED
        BY <3>1, <3>2
    <2>4. Leaves(new)'
      <3> SUFFICES ASSUME NEW g \in Used', NEW i \in Index, new[g].level = Levels, tables'[g][i] # NotMapped
                   PROVE  tables'[g][i] \in Leaf /\ (tables'[g][i].user <=> new[g].space # Kernel)
        BY DEF Leaves
      <3>1. g # f
        BY <1>6, LevelsAssumption
      <3>2. g \in Used /\ g \in TableFrame /\ new[g] = home[g]
        BY <1>3, <1>6, <1>7, <3>1
      <3>3. tables'[g][i] = tables[g][i]
        BY <1>5, <3>1, <3>2
      <3> QED
        BY <3>2, <3>3 DEF Shape, Leaves
    <2>5. Parents(new)'
      <3> SUFFICES ASSUME NEW g \in Used', new[g].level >= 1
                   PROVE  /\ \E h \in Used' : Parent(new, h, g)'
                          /\ \E i \in Index : tables'[g][i] # NotMapped
        BY DEF Parents
      <3>1. g \in Used /\ new[g] = home[g]
        BY <1>3, <1>6, SMT
      <3>2. PICK h \in Used : Parent(home, h, g)
        BY <3>1 DEF Shape, Parents
      <3>3. PICK i \in Index : tables[g][i] # NotMapped
        BY <3>1 DEF Shape, Parents
      <3>4. home[g].way[home[g].level] \in Index
        <4>1. home[g].level \in Path /\ home[g].level >= 1
          BY <1>7, <3>1
        <4>2. home[g].level \in 1..home[g].level
          BY <4>1, SMT DEF Path
        <4> QED
          BY <3>1, <4>2 DEF Shape, Homes
      <3>5. Parent(new, h, g)'
        <4>1. h \in Used' /\ new[h] = home[h]
          BY <1>3, <1>6
        <4>2. tables'[h][home[g].way[home[g].level]] = tables[h][home[g].way[home[g].level]]
          BY <1>5, <1>7, <3>4
        <4> QED
          BY <3>1, <3>2, <4>1, <4>2 DEF Parent
      <3> QED
        BY <1>3, <1>5, <1>7, <3>1, <3>2, <3>3, <3>5
    <2>6. HomesDiffer(new)'
      <3>1. ASSUME NEW g \in Used, new[g].level = 0, new[g].space = u
            PROVE  FALSE
        <4>1. home[g].space \in Spaces /\ home[g].space = u /\ new[g] = home[g]
          BY <1>6, <1>7, <3>1
        <4> QED
          BY <1>2, <4>1 DEF Spaces
      <3>2. ASSUME NEW g \in Used', NEW h \in Used', SameHome(new, g, h)
            PROVE  g = h
        <4>1. new[g].level = new[h].level /\ new[g].space = new[h].space
          BY <3>2 DEF SameHome
        <4>2. CASE g = f \/ h = f
          BY <1>3, <1>6, <3>1, <4>1, <4>2
        <4>3. CASE g # f /\ h # f
          <5>1. g \in Used /\ h \in Used /\ new[g] = home[g] /\ new[h] = home[h]
            BY <1>3, <1>6, <4>3
          <5>2. SameHome(home, g, h)
            BY <3>2, <5>1 DEF SameHome
          <5> QED
            BY <5>1, <5>2 DEF Shape, HomesDiffer
        <4> QED
          BY <4>2, <4>3
      <3> QED
        BY <3>2 DEF HomesDiffer, SameHome
    <2>7. FreeEmpty' /\ KernelHalfShared'
      <3>1. FreeEmpty'
        BY <1>1, <1>2, <1>5 DEF Shape, FreeEmpty, TypeOK
      <3>2. KernelHalfShared'
        <4> SUFFICES ASSUME NEW v \in Live', NEW i \in KernelIndex
                     PROVE  tables'[root'[v]][i] = tables'[root'[Kernel]][i]
          BY DEF KernelHalfShared
        <4>1. i \in Index /\ Kernel \in Spaces' /\ v \in Spaces'
          BY <1>3, HalvesAssumption DEF Spaces
        <4>2. tables'[root'[Kernel]][i] = tables[root[Kernel]][i]
          BY <1>2, <1>4, <1>5, <1>7, <4>1
        <4>3. CASE v = u
          BY <1>2, <1>4, <1>5, <4>1, <4>2, <4>3
        <4>4. CASE v # u
          <5>1. v \in Live /\ v \in Spaces /\ root'[v] = root[v]
            BY <1>3, <1>4, <4>1, <4>4
          <5>2. root[v] \in Used
            BY <5>1 DEF Shape, Roots
          <5>3. tables'[root[v]][i] = tables[root[v]][i]
            BY <1>5, <1>7, <4>1, <5>2
          <5>4. tables[root[v]][i] = tables[root[Kernel]][i]
            BY <5>1 DEF Shape, KernelHalfShared
          <5> QED
            BY <4>2, <5>1, <5>3, <5>4
        <4> QED
          BY <4>3, <4>4
      <3> QED
        BY <3>1, <3>2
    <2> QED
      BY <2>1, <2>2, <2>3, <2>4, <2>5, <2>6, <2>7 DEF Shape
  <1>9. ASSUME NEW s \in Spaces, NEW t \in Spaces', NEW p \in Page, Owner(s, p, Levels) = Owner(t, p, Levels)
        PROVE  Lookup(t, p)' = Lookup(s, p)
    <2>1. \A g : At(new, g, t, p, Levels)' <=> At(home, g, s, p, Levels)
      BY <1>3, <1>6, <1>9, LevelsAssumption DEF At
    <2>2. \A g : At(home, g, s, p, Levels) => tables'[g][p[Levels + 1]] = tables[g][p[Levels + 1]]
      BY <1>5, <1>7, PageIndices DEF At
    <2> QED
      BY <1>8, <2>1, <2>2, SameEntry
  <1>10. \A t \in Spaces, p \in Page : Lookup(t, p)' = Lookup(t, p)
    BY <1>3, <1>9
  <1>11. ASSUME NEW p \in Page
         PROVE  Lookup(u, p)' = IF p \in KernelPage THEN Lookup(Kernel, p) ELSE NotMapped
    <2>1. CASE p \in KernelPage
      <3>1. Owner(Kernel, p, Levels) = Owner(u, p, Levels)
        BY <2>1, PageHalves, LevelsAssumption, SMT DEF Owner
      <3>2. Kernel \in Spaces /\ u \in Spaces'
        BY <1>3 DEF Spaces
      <3> QED
        BY <1>9, <2>1, <3>1, <3>2
    <2>2. CASE p \notin KernelPage
      <3> SUFFICES ASSUME Lookup(u, p)' # NotMapped
                   PROVE  FALSE
        BY <2>2
      <3>1. PICK g \in Used' : At(new, g, u, p, Levels)'
        BY <1>3, <1>8, LookupAtNext DEF EntryAt
      <3>2. new[g].space = u /\ new[g].level = Levels
        BY <2>2, <3>1, PageHalves DEF At, Owner
      <3>3. g \in Used
        BY <1>3, <1>6, <3>1, <3>2, LevelsAssumption
      <3> QED
        BY <1>2, <1>6, <1>7, <3>2, <3>3 DEF Spaces
    <2> QED
      BY <2>1, <2>2
  <1> QED
    BY <1>3, <1>8, <1>10, <1>11

-----------------------------------------------------------------------------
(* Destroying a space.                                                     *)

\* The tables that destroy_user gives back are those that belong to the space.
LEMMA TablesBelowBelong ==
    ASSUME NEW home, Shape(home), NEW u \in Live
    PROVE  TablesBelow(u) \cup {root[u]} = {f \in Used : home[f].space = u}
  <1>1. u \in Spaces /\ u # Kernel /\ root[u] \in Used /\ home[root[u]].space = u
    BY NamesAssumption DEF Spaces, Live, Shape, Roots
  <1>2. ASSUME NEW q \in LowerHalf, NEW n \in 1..Levels, Walk(u, q)[n] # NoFrame
        PROVE  Walk(u, q)[n] \in Used /\ home[Walk(u, q)[n]].space = u
    <2>1. Indices(q) /\ q[1] \notin KernelIndex /\ n \in Path
      BY LevelsAssumption, SMT DEF LowerHalf, Indices, Path
    <2>2. Walk(u, q)[n] \in TableFrame
      BY <1>1, <1>2, <2>1, WalkAt
    <2>3. At(home, Walk(u, q)[n], u, q, n)
      BY <1>1, <2>1, <2>2, WalkAt
    <2> QED
      BY <2>1, <2>3 DEF At, Owner
  <1>3. ASSUME NEW f \in Used, home[f].space = u, f # root[u]
        PROVE  f \in TablesBelow(u)
    <2>1. home[f].level \in Path /\ home[f].level # 0
      BY <1>3 DEF Shape, Homes, Roots
    <2>2. home[f].level \in 1..Levels
      BY <2>1, LevelsAssumption, SMT DEF Path
    <2>3. PICK q \in Way : /\ Indices(q) /\ q[1] = home[f].way[1]
                           /\ At(home, f, u, q, home[f].level)
      BY <1>3, <2>2, WayTo, SMT
    <2>4. q \in LowerHalf
      BY <1>1, <1>3, <2>2, <2>3, SMT DEF Way, LowerHalf, Shape, Homes
    <2>5. f \in TableFrame
      BY DEF Used
    <2>6. Walk(u, q)[home[f].level] = f
      BY <1>1, <2>1, <2>3, <2>5, WalkAt, SMT
    <2> QED
      BY <2>2, <2>4, <2>5, <2>6, NotAFrame, SMT DEF TablesBelow
  <1> QED
    BY <1>1, <1>2, <1>3, SMT DEF TablesBelow

LEMMA DestroyStep ==
    ASSUME TypeOK, NEW home, Shape(home), NEW u \in Users, destroy_user(u)
    PROVE  /\ Shape(home)'
           /\ Live' = Live \ {u}
           /\ \A t \in Spaces \ {u}, p \in Page : Lookup(t, p)' = Lookup(t, p)
  <1> DEFINE gone == {f \in Used : home[f].space = u}
  <1>1. u \in Live /\ u # Kernel
    BY NamesAssumption DEF destroy_user
  <1>2. /\ tables' = [f \in TableFrame |-> IF f \in gone THEN EmptyTable ELSE tables[f]]
        /\ free' = free \cup gone
        /\ root' = [root EXCEPT ![u] = NoFrame]
    BY <1>1, TablesBelowBelong, SMT DEF destroy_user
  <1>3. Live' = Live \ {u} /\ Spaces' = Spaces \ {u}
    BY <1>1, <1>2, NamesAssumption DEF Live, Spaces, TypeOK, Space
  <1>4. \A s \in Spaces' : root'[s] = root[s]
    BY <1>2, <1>3 DEF Live, Spaces, TypeOK, Space
  <1>5. Used' = {f \in Used : home[f].space # u}
    BY <1>2 DEF Used
  <1>6. \A f \in Used', i \in Index : f \in Used /\ tables'[f][i] = tables[f][i]
    BY <1>2, <1>5 DEF Used
  <1> HIDE DEF gone
  <1>7. Roots(home)'
    BY <1>3, <1>4, <1>5 DEF Shape, Roots, Homes
  <1>8. Homes(home)'
    BY <1>3, <1>5 DEF Shape, Homes
  <1>9. Links(home)'
    <2> SUFFICES ASSUME NEW g \in Used', NEW i \in Index, home[g].level < Levels, tables'[g][i] # NotMapped
                 PROVE  \E h \in Used' : Child(home, g, i, h)' /\ Points(home, g, i, h)'
      BY DEF Links
    <2>1. g \in Used /\ home[g].space # u /\ tables'[g][i] = tables[g][i]
      BY <1>5, <1>6
    <2>2. PICK h \in Used : Child(home, g, i, h) /\ Points(home, g, i, h)
      BY <2>1 DEF Shape, Links
    <2>3. home[h].space # u
      BY <1>1, <2>1, <2>2 DEF Child
    <2>4. h \in Used' /\ Child(home, g, i, h)'
      BY <1>5, <2>2, <2>3 DEF Child
    <2>5. Points(home, g, i, h)'
      BY <2>1, <2>2 DEF Points
    <2> QED
      BY <2>4, <2>5
  <1>10. Leaves(home)'
    BY <1>6 DEF Shape, Leaves
  <1>11. Parents(home)'
    <2> SUFFICES ASSUME NEW g \in Used', home[g].level >= 1
                 PROVE  /\ \E h \in Used' : Parent(home, h, g)'
                        /\ \E i \in Index : tables'[g][i] # NotMapped
      BY DEF Parents
    <2>1. g \in Used /\ home[g].space # u
      BY <1>5
    <2>2. PICK h \in Used : Parent(home, h, g)
      BY <2>1 DEF Shape, Parents
    <2>3. PICK i \in Index : tables[g][i] # NotMapped
      BY <2>1 DEF Shape, Parents
    <2>4. home[g].way[home[g].level] \in Index
      <3>1. home[g].level \in Path /\ \A k \in 1..home[g].level : home[g].way[k] \in Index
        BY <2>1 DEF Shape, Homes
      <3>2. home[g].level \in 1..home[g].level
        BY <3>1, SMT DEF Path
      <3> QED
        BY <3>1, <3>2
    <2>5. h \in Used' /\ Parent(home, h, g)'
      BY <1>5, <1>6, <2>1, <2>2, <2>4 DEF Parent
    <2> QED
      BY <1>6, <2>3, <2>5
  <1>12. HomesDiffer(home)'
    BY <1>5 DEF Shape, HomesDiffer, SameHome
  <1>13. FreeEmpty'
    BY <1>2 DEF Shape, FreeEmpty, EmptyTable, TypeOK, gone, Used
  <1>14. KernelHalfShared'
    <2>1. Kernel \in Spaces' /\ \A v \in Live' : v \in Live /\ v \in Spaces'
      BY <1>1, <1>3 DEF Spaces
    <2>2. \A s \in Spaces' : root'[s] \in Used'
      BY <1>7 DEF Roots
    <2> QED
      <3> SUFFICES ASSUME NEW v \in Live', NEW i \in KernelIndex
                   PROVE  tables'[root'[v]][i] = tables'[root'[Kernel]][i]
        BY DEF KernelHalfShared
      <3>1. ASSUME NEW t \in Spaces'
            PROVE  tables'[root'[t]][i] = tables[root[t]][i]
        <4>1. i \in Index
          BY HalvesAssumption
        <4>2. tables'[root'[t]][i] = tables[root'[t]][i]
          BY <1>6, <2>2, <4>1
        <4> QED
          BY <1>4, <4>2
      <3>2. tables[root[v]][i] = tables[root[Kernel]][i]
        BY <2>1 DEF Shape, KernelHalfShared
      <3> QED
        BY <2>1, <3>1, <3>2
  <1>15. Shape(home)'
    BY <1>7, <1>8, <1>9, <1>10, <1>11, <1>12, <1>13, <1>14 DEF Shape
  <1>16. ASSUME NEW t \in Spaces \ {u}, NEW p \in Page
         PROVE  Lookup(t, p)' = Lookup(t, p)
    <2>1. Owner(t, p, Levels) # u
      BY <1>1 DEF Owner
    <2>2. \A g : At(home, g, t, p, Levels)' <=> At(home, g, t, p, Levels)
      BY <1>5, <2>1 DEF At
    <2>3. \A g : At(home, g, t, p, Levels) => tables'[g][p[Levels + 1]] = tables[g][p[Levels + 1]]
      BY <1>5, <1>6, <2>1, PageIndices DEF At
    <2> QED
      BY <1>3, <1>15, <2>2, <2>3, SameEntry
  <1> QED
    BY <1>3, <1>15, <1>16

-----------------------------------------------------------------------------
(* Unmapping a page.                                                       *)

\* Table n of the walk has no entry but the one that the walk takes.
RestEmpty(w, p, n) == \A i \in Index \ {p[n + 1]} : tables[w[n]][i] = NotMapped

\* The recursive definition of Emptied has a solution: a table is empty when it
\* and all tables below it have no other entry.
LEMMA EmptiedUnfolds ==
    ASSUME NEW w, NEW p
    PROVE  /\ Emptied(w, p) \subseteq 1..Levels
           /\ \A n \in 1..Levels :
                 n \in Emptied(w, p) <=> (n = Levels \/ n + 1 \in Emptied(w, p)) /\ RestEmpty(w, p, n)
  <1> DEFINE S == 1..(Levels + 1)
             Eq(e) == e = [n \in S |-> n = Levels + 1 \/ (e[n + 1] /\ RestEmpty(w, p, n))]
             all == [n \in S |-> \A m \in n..Levels : RestEmpty(w, p, m)]
             empty == CHOOSE e : Eq(e)
  <1>1. Levels \in Nat
    BY LevelsAssumption
  <1>2. ASSUME NEW n \in S
        PROVE  all[n] <=> (n = Levels + 1 \/ (all[n + 1] /\ RestEmpty(w, p, n)))
    <2>1. CASE n = Levels + 1
      BY <1>1, <2>1, SMT
    <2>2. CASE n # Levels + 1
      <3>1. n + 1 \in S /\ n \in n..Levels
        BY <1>1, <2>2, SMT
      <3>2. \A m : m \in n..Levels <=> m = n \/ m \in (n + 1)..Levels
        BY <1>1, <3>1, SMT
      <3> QED
        BY <2>2, <3>1, <3>2
    <2> QED
      BY <2>1, <2>2
  <1>3. Eq(all)
    <2> DEFINE other == [n \in S |-> n = Levels + 1 \/ (all[n + 1] /\ RestEmpty(w, p, n))]
    <2>1. \A n \in S : all[n] = other[n]
      BY <1>2
    <2> QED
      BY <2>1
  <1>4. Eq(empty)
    BY <1>3
  <1>5. Emptied(w, p) = {n \in 1..Levels : empty[n]}
    BY DEF Emptied, RestEmpty
  <1> HIDE DEF empty
  <1>6. ASSUME NEW n \in S
        PROVE  empty[n] = (n = Levels + 1 \/ (empty[n + 1] /\ RestEmpty(w, p, n)))
    BY <1>4
  <1>7. \A n \in 1..Levels : n \in S /\ n # Levels + 1
    BY <1>1, SMT
  <1>8. Levels + 1 \in S
    BY <1>1, SMT
  <1>9. \A n \in 1..Levels : empty[n] <=> (empty[n + 1] /\ RestEmpty(w, p, n))
    BY <1>6, <1>7
  <1>10. empty[Levels + 1]
    BY <1>6, <1>8
  <1>11. \A n \in 1..Levels : n = Levels \/ n + 1 \in 1..Levels
    BY <1>1, SMT
  <1>12. \A n \in 1..Levels : n = Levels => n + 1 = Levels + 1
    OBVIOUS
  <1> HIDE DEF S, Eq, all
  <1> QED
    BY <1>5, <1>9, <1>10, <1>11, <1>12

\* The walk of a mapped page reaches the last table.
LEMMA MappedWalk ==
    ASSUME NEW home, Shape(home), NEW s \in Spaces, NEW p \in Page, Lookup(s, p) # NotMapped
    PROVE  /\ \A n \in Path : At(home, Walk(s, p)[n], s, p, n)
           /\ \A n \in 1..Levels : /\ tables[Walk(s, p)[n - 1]][p[n]] # NotMapped
                                   /\ tables[Walk(s, p)[n - 1]][p[n]].table = Walk(s, p)[n]
           /\ tables[Walk(s, p)[Levels]][p[Levels + 1]] # NotMapped
  <1>1. Walk(s, p)[Levels] # NoFrame /\ Indices(p)
    BY PageIndices DEF Lookup
  <1>2. \A n \in Path : Walk(s, p)[n] # NoFrame
    BY <1>1, WalkEnds, LevelsAssumption, SMT DEF Path
  <1>3. \A n \in Path : At(home, Walk(s, p)[n], s, p, n)
    BY <1>1, <1>2, WalkAt
  <1>4. \A n \in 1..Levels : n \in Path
    BY LevelsAssumption, SMT DEF Path
  <1>5. \A n \in 1..Levels : /\ tables[Walk(s, p)[n - 1]][p[n]] # NotMapped
                             /\ tables[Walk(s, p)[n - 1]][p[n]].table = Walk(s, p)[n]
    <2> TAKE n \in 1..Levels
    <2>1. Walk(s, p)[n] # NoFrame
      BY <1>2, <1>4
    <2> QED
      BY <1>1, <2>1, WalkLink
  <1>6. tables[Walk(s, p)[Levels]][p[Levels + 1]] # NotMapped
    BY <1>1 DEF Lookup
  <1> QED
    BY <1>3, <1>5, <1>6

\* Below the root entry of the stacks the image stays: unmapping a stack never
\* empties the table that the entry leads to.
LEMMA StackTableStays ==
    ASSUME NEW home, Shape(home), ImageMapped, NEW p \in StackPage, Lookup(Kernel, p) # NotMapped
    PROVE  1 \notin Emptied(Walk(Kernel, p), p)
  <1> DEFINE w == Walk(Kernel, p)
             gone == Emptied(w, p)
  <1>1. PICK q \in ImagePage : p[1] = q[1]
    BY StacksBesideImage
  <1>2. /\ p \in Page /\ q \in Page /\ Kernel \in Spaces /\ p # q /\ Lookup(Kernel, q) # NotMapped
        /\ q[Levels + 1] \in Index /\ Indices(q)
    BY HalvesAssumption, PageIndices DEF Page, KernelPage, Spaces, ImageMapped
  <1> DEFINE v == Walk(Kernel, q)
             B == {k \in 1..(Levels + 1) : q[k] # p[k]}
  <1>3. B # {} /\ B \in SUBSET Nat
    BY <1>2, SamePage, LevelsAssumption, SMT
  <1> HIDE DEF B
  <1>4. PICK k \in B : \A m \in B : k <= m
    BY <1>3, Least
  <1> USE DEF B
  <1>5. k \in 2..(Levels + 1) /\ q[k] # p[k] /\ \A m \in 1..(k - 1) : q[m] = p[m]
    BY <1>1, <1>4, LevelsAssumption, SMT
  <1>6. PICK n \in 1..Levels : n + 1 = k
    BY <1>5, LevelsAssumption, SMT
  <1>7. n \in Path /\ k - 1 = n /\ n >= 1
    BY <1>6, LevelsAssumption, SMT DEF Path
  <1>8. At(home, w[n], Kernel, p, n) /\ At(home, v[n], Kernel, q, n)
    BY <1>2, <1>7, MappedWalk
  <1>9. w[n] = v[n]
    <2>1. Owner(Kernel, p, n) = Owner(Kernel, q, n)
      BY DEF Owner
    <2>2. \A m \in 1..n : q[m] = p[m]
      BY <1>5, <1>7
    <2> HIDE DEF w, v
    <2>3. w[n] \in Used /\ v[n] \in Used /\ SameHome(home, w[n], v[n])
      BY <1>8, <2>1, <2>2 DEF At, SameHome
    <2> QED
      BY <2>3 DEF Shape, HomesDiffer
  <1>10. tables[v[n]][q[k]] # NotMapped /\ q[k] \in Index
    <2>1. CASE n = Levels
      BY <1>2, <1>6, <2>1, MappedWalk
    <2>2. CASE n # Levels
      <3>1. k \in 1..Levels /\ k - 1 = n
        BY <1>6, <1>7, <2>2, LevelsAssumption, SMT
      <3> QED
        BY <1>2, <3>1, MappedWalk DEF Indices
    <2> QED
      BY <2>1, <2>2
  <1>11. ~RestEmpty(w, p, n)
    BY <1>5, <1>6, <1>9, <1>10 DEF RestEmpty
  <1>12. \A m \in 1..Levels : m \in gone <=> (m = Levels \/ m + 1 \in gone) /\ RestEmpty(w, p, m)
    BY EmptiedUnfolds
  <1> HIDE DEF w, v, gone
  <1> SUFFICES ASSUME 1 \in gone
               PROVE  FALSE
    BY DEF w, gone
  <1> DEFINE A == {m \in 1..Levels : m \notin gone}
  <1>13. n \in A /\ A \in SUBSET Nat
    BY <1>11, <1>12, SMT
  <1> HIDE DEF A
  <1>14. PICK b \in A : \A m \in A : b <= m
    BY <1>13, Least
  <1> USE DEF A
  <1>15. b \in 2..Levels /\ b \notin gone
    BY <1>14, LevelsAssumption, SMT
  <1>16. b - 1 \in 1..Levels /\ ~(b <= b - 1) /\ b - 1 # Levels /\ (b - 1) + 1 = b
    BY <1>15, LevelsAssumption, SMT
  <1>17. b - 1 \in gone
    BY <1>14, <1>16
  <1> QED
    BY <1>12, <1>15, <1>16, <1>17

\* A branch is pruned: w[n] is table n of the walk, gone the levels whose tables
\* go back to the pool.
Pruned(home, w, gone, s, p) ==
    /\ \A n \in Path : At(home, w[n], s, p, n)
    /\ gone \subseteq 1..Levels
    /\ \A n \in 1..Levels : n \in gone <=> (n = Levels \/ n + 1 \in gone) /\ RestEmpty(w, p, n)
    /\ s = Kernel => 1 \notin gone
    /\ \A n \in 1..Levels : tables[w[n - 1]][p[n]].table = w[n]

Cut(w, gone, p, f, i) == \E n \in Path : f = w[n] /\ i = p[n + 1] /\ (n = Levels \/ n + 1 \in gone)

Dropped(w, gone, p) ==
    /\ \A f \in TableFrame, i \in Index :
          tables'[f][i] = IF Cut(w, gone, p, f, i) THEN NotMapped ELSE tables[f][i]
    /\ free' = free \cup {w[n] : n \in gone}

LEMMA UnmapPrunes ==
    ASSUME NEW home, Shape(home), NEW s \in Spaces, NEW p \in Page,
           s = Kernel => p \in StackPage /\ ImageMapped, UnmapOk(s, p)
    PROVE  \E w, gone : Pruned(home, w, gone, s, p) /\ Dropped(w, gone, p)
  <1>1. PICK w, gone : w = Walk(s, p) /\ gone = Emptied(Walk(s, p), p)
    OBVIOUS
  <1>2. Lookup(s, p) # NotMapped
    BY DEF UnmapOk
  <1>3. Pruned(home, w, gone, s, p)
    <2>1. /\ \A n \in Path : At(home, w[n], s, p, n)
          /\ \A n \in 1..Levels : tables[w[n - 1]][p[n]].table = w[n]
      BY <1>1, <1>2, MappedWalk
    <2>2. /\ gone \subseteq 1..Levels
          /\ \A n \in 1..Levels : n \in gone <=> (n = Levels \/ n + 1 \in gone) /\ RestEmpty(w, p, n)
      BY <1>1, EmptiedUnfolds
    <2>3. s = Kernel => 1 \notin gone
      BY <1>1, <1>2, StackTableStays
    <2> QED
      BY <2>1, <2>2, <2>3 DEF Pruned
  <1>4. Dropped(w, gone, p)
    BY <1>1 DEF UnmapOk, Dropped, Cut
  <1> QED
    BY <1>3, <1>4

\* Tables without the pruned branch have the shape again.
LEMMA PrunedShape ==
    ASSUME TypeOK, NEW home, Shape(home), NEW s \in Spaces, NEW p \in Page,
           s = Kernel <=> p \in KernelPage, NEW w, NEW gone,
           Pruned(home, w, gone, s, p), Dropped(w, gone, p), root' = root
    PROVE  Shape(home)'
  <1>1. /\ Levels \in Path /\ Levels >= 1 /\ Levels \in Nat
        /\ \A n \in Path : n \in Nat /\ n <= Levels
        /\ \A n \in gone : n \in 1..Levels /\ n \in Path /\ n >= 1
        /\ \A n \in Path : n = Levels \/ n + 1 \in 1..Levels
        /\ \A n \in Path : n = 0 \/ n \in 1..Levels
    BY LevelsAssumption, SMT DEF Pruned, Path
  <1>2. Live' = Live /\ Spaces' = Spaces
    BY DEF Live, Spaces
  <1>3. s = Kernel <=> p[1] \in KernelIndex
    BY PageHalves
  <1>4. \A n \in Path : /\ w[n] \in Used /\ w[n] \in TableFrame /\ home[w[n]].level = n
                        /\ home[w[n]].space = s /\ \A k \in 1..n : home[w[n]].way[k] = p[k]
    BY <1>3 DEF Pruned, At, Owner, Used
  <1>5. \A f \in Used, n \in Path :
            /\ home[f].level = n /\ home[f].space = s /\ \A k \in 1..n : home[f].way[k] = p[k]
            => f = w[n]
    <2>1. ASSUME NEW f \in Used, NEW n \in Path, home[f].level = n, home[f].space = s,
                 \A k \in 1..n : home[f].way[k] = p[k]
          PROVE  f = w[n]
      <3>1. w[n] \in Used /\ SameHome(home, f, w[n])
        BY <1>4, <2>1 DEF SameHome
      <3> QED
        BY <3>1 DEF Shape, HomesDiffer
    <2> QED
      BY <2>1
  <1>6. \A f : f \in Used' <=> f \in Used /\ \A n \in gone : f # w[n]
    BY DEF Dropped, Used
  <1>7. \A n \in Path : w[n] \in Used' <=> n \notin gone
    <2> TAKE n \in Path
    <2>1. ASSUME NEW m \in gone, w[n] = w[m]
          PROVE  n = m
      <3>1. m \in Path
        BY <1>1
      <3>2. home[w[m]].level = m /\ home[w[n]].level = n
        BY <1>4, <3>1
      <3> QED
        BY <2>1, <3>2
    <2>2. w[n] \in Used
      BY <1>4
    <2>3. w[n] \in Used' <=> \A m \in gone : w[n] # w[m]
      BY <1>6, <2>2
    <2> QED
      BY <2>1, <2>3
  <1>8. \A f \in Used : f \in TableFrame /\ home[f].level \in Path /\ home[f].space \in Spaces
    BY DEF Used, Shape, Homes
  <1>9. \A f \in Used, i \in Index : tables'[f][i] # NotMapped => tables'[f][i] = tables[f][i] /\ ~Cut(w, gone, p, f, i)
    BY <1>8 DEF Dropped
  <1>10. \A f \in TableFrame, i \in Index : ~Cut(w, gone, p, f, i) => tables'[f][i] = tables[f][i]
    BY DEF Dropped
  <1>11. Roots(home)'
    <2>1. \A v \in Spaces : root[v] \in Used /\ home[root[v]].level = 0
      BY DEF Shape, Roots
    <2>2. \A v \in Spaces : root[v] \in Used'
      <3>1. \A n \in gone : n # 0
        BY <1>1, SMT
      <3>2. ASSUME NEW v \in Spaces, NEW n \in gone, root[v] = w[n]
            PROVE  FALSE
        <4>1. n \in Path /\ n # 0
          BY <1>1, <3>1
        <4>2. home[w[n]].level = n
          BY <1>4, <4>1
        <4>3. home[root[v]].level = 0
          BY <2>1
        <4> QED
          BY <3>2, <4>1, <4>2, <4>3
      <3> QED
        BY <1>6, <2>1, <3>2
    <2> QED
      BY <1>2, <1>6, <2>2 DEF Shape, Roots
  <1>12. Homes(home)' /\ HomesDiffer(home)'
    BY <1>2, <1>6 DEF Shape, Homes, HomesDiffer
  <1>13. Leaves(home)'
    BY <1>6, <1>9 DEF Shape, Leaves
  <1>14. FreeEmpty'
    <2> SUFFICES ASSUME NEW f \in free', NEW i \in Index
                 PROVE  tables'[f][i] = NotMapped
      BY DEF FreeEmpty
    <2>1. CASE f \in free
      BY <2>1 DEF Dropped, Shape, FreeEmpty, TypeOK
    <2>2. ASSUME NEW n \in gone, f = w[n]
          PROVE  tables'[f][i] = NotMapped
      <3>1. n \in 1..Levels /\ (n = Levels \/ n + 1 \in gone) /\ RestEmpty(w, p, n)
        BY <1>1 DEF Pruned
      <3>2. i = p[n + 1] => Cut(w, gone, p, f, i)
        BY <1>1, <2>2, <3>1 DEF Cut
      <3> QED
        BY <1>1, <1>4, <2>2, <3>1, <3>2 DEF Dropped, RestEmpty
    <2> QED
      BY <2>1, <2>2 DEF Dropped
  <1>15. KernelHalfShared'
    <2>1. ASSUME NEW v \in Spaces, NEW i \in KernelIndex
          PROVE  tables'[root[v]][i] = tables[root[v]][i]
      <3>1. root[v] \in TableFrame /\ home[root[v]].level = 0 /\ i \in Index
        BY <1>8, HalvesAssumption DEF Shape, Roots
      <3>2. ~Cut(w, gone, p, root[v], i)
        <4>1. 0 + 1 = 1 /\ Levels # 0
          BY LevelsAssumption, SMT
        <4>2. ASSUME NEW n \in Path, root[v] = w[n], i = p[n + 1], n = Levels \/ n + 1 \in gone
              PROVE  FALSE
          <5>1. n = 0
            BY <1>4, <3>1, <4>2
          <5>2. i = p[1] /\ 1 \in gone
            BY <4>1, <4>2, <5>1
          <5> QED
            BY <1>3, <5>2 DEF Pruned
        <4> QED
          BY <4>2 DEF Cut
      <3> QED
        BY <1>10, <3>1, <3>2
    <2>2. Kernel \in Spaces /\ \A v \in Live : v \in Spaces
      BY DEF Spaces
    <2> QED
      <3> SUFFICES ASSUME NEW v \in Live, NEW i \in KernelIndex
                   PROVE  tables'[root[v]][i] = tables'[root[Kernel]][i]
        BY <1>2 DEF KernelHalfShared
      <3>1. tables[root[v]][i] = tables[root[Kernel]][i]
        BY DEF Shape, KernelHalfShared
      <3> QED
        BY <2>1, <2>2, <3>1
  <1>16. Links(home)'
    <2> SUFFICES ASSUME NEW g \in Used', NEW i \in Index, home[g].level < Levels, tables'[g][i] # NotMapped
                 PROVE  \E h \in Used' : Child(home, g, i, h)' /\ Points(home, g, i, h)'
      BY DEF Links
    <2>1. g \in Used /\ tables'[g][i] = tables[g][i] /\ ~Cut(w, gone, p, g, i)
      BY <1>6, <1>9
    <2>2. PICK h \in Used : Child(home, g, i, h) /\ Points(home, g, i, h)
      BY <2>1 DEF Shape, Links
    <2>3. ASSUME NEW n \in gone, h = w[n]
          PROVE  FALSE
      <3>1. /\ n \in Path /\ n \in Nat /\ n >= 1
            /\ home[h].level = n /\ home[h].space = s /\ \A k \in 1..n : home[h].way[k] = p[k]
        BY <1>1, <1>4, <2>3
      <3>2. home[g].level = n - 1 /\ home[g].level \in Nat /\ n - 1 \in Path
        <4>1. home[g].level \in Path /\ n = home[g].level + 1
          BY <1>8, <2>1, <2>2, <3>1 DEF Child
        <4> QED
          BY <4>1, LevelsAssumption, SMT DEF Path
      <3>3. i = p[n] /\ \A k \in 1..(n - 1) : home[g].way[k] = p[k]
        <4>1. n \in 1..n /\ \A k \in 1..(n - 1) : k \in 1..n
          BY <3>1, SMT
        <4>2. home[h].way[n] = i /\ \A k \in 1..(n - 1) : home[h].way[k] = home[g].way[k]
          BY <2>2, <3>1, <3>2 DEF Child
        <4> QED
          BY <3>1, <4>1, <4>2
      <3>4. CASE n = 1 /\ i \in KernelIndex
        BY <1>3, <2>3, <3>3, <3>4 DEF Pruned
      <3>5. CASE ~(n = 1 /\ i \in KernelIndex)
        <4>1. home[g].space = s
          <5>1. n - 1 = 0 => n = 1
            BY <3>1, SMT
          <5> QED
            BY <2>2, <3>1, <3>2, <3>5, <5>1 DEF Child
        <4>2. g = w[n - 1]
          BY <1>5, <2>1, <3>2, <3>3, <4>1
        <4>3. (n - 1) + 1 = n
          BY <3>1, SMT
        <4>4. Cut(w, gone, p, g, i)
          BY <3>2, <3>3, <4>2, <4>3 DEF Cut
        <4> QED
          BY <2>1, <4>4
      <3> QED
        BY <3>4, <3>5
    <2>4. h \in Used'
      BY <1>6, <2>3
    <2>5. Child(home, g, i, h)'
      BY <2>2, <2>4 DEF Child
    <2>6. Points(home, g, i, h)'
      BY <2>1, <2>2 DEF Points
    <2> QED
      BY <2>4, <2>5, <2>6
  <1>17. Parents(home)'
    <2> SUFFICES ASSUME NEW g \in Used', home[g].level >= 1
                 PROVE  /\ \E h \in Used' : Parent(home, h, g)'
                        /\ \E i \in Index : tables'[g][i] # NotMapped
      BY DEF Parents
    <2>1. g \in Used /\ \A n \in gone : g # w[n]
      BY <1>6
    <2>2. PICK h \in Used : Parent(home, h, g)
      BY <2>1 DEF Shape, Parents
    <2> DEFINE j == home[g].way[home[g].level]
    <2>3. /\ j \in Index /\ home[g].level = home[h].level + 1 /\ home[h].space = home[g].space
          /\ \A k \in 1..home[h].level : home[h].way[k] = home[g].way[k]
          /\ tables[h][j] # NotMapped /\ home[h].level \in Nat /\ home[g].level \in Path
      <3>1. /\ home[g].level = home[h].level + 1 /\ home[h].space = home[g].space
            /\ \A k \in 1..home[h].level : home[h].way[k] = home[g].way[k]
            /\ tables[h][j] # NotMapped
        BY <2>2 DEF Parent
      <3>2. /\ home[g].level \in Path /\ home[h].level \in Path
            /\ \A k \in 1..home[g].level : home[g].way[k] \in Index
        BY <2>1, <2>2 DEF Shape, Homes
      <3>3. home[h].level \in Nat /\ home[g].level \in 1..home[g].level
        BY <3>2, SMT DEF Path
      <3> QED
        BY <3>1, <3>2, <3>3
    <2>4. ASSUME NEW n \in Path, h = w[n], n + 1 \in gone, j = p[n + 1]
          PROVE  FALSE
      <3>1. /\ n \in Nat /\ home[h].level = n /\ home[h].space = s /\ \A k \in 1..n : home[h].way[k] = p[k]
        BY <1>1, <1>4, <2>4
      <3>2. home[g].level = n + 1 /\ home[g].space = s /\ n + 1 \in Path
        BY <1>1, <2>3, <2>4, <3>1
      <3>3. \A k \in 1..(n + 1) : home[g].way[k] = p[k]
        <4>1. \A k \in 1..n : home[g].way[k] = p[k]
          BY <2>3, <3>1
        <4>2. home[g].way[n + 1] = p[n + 1]
          BY <2>4, <3>2
        <4>3. \A k \in 1..(n + 1) : k \in 1..n \/ k = n + 1
          BY <3>1, SMT
        <4> QED
          BY <4>1, <4>2, <4>3
      <3>4. g = w[n + 1]
        BY <1>5, <2>1, <3>2, <3>3
      <3> QED
        BY <2>1, <2>4, <3>4
    <2>5. ASSUME NEW n \in gone, h = w[n]
          PROVE  FALSE
      <3>1. n \in Path /\ home[h].level = n /\ n \in 1..Levels
        BY <1>1, <1>4, <2>5
      <3>2. n # Levels
        <4>1. n + 1 \in Path /\ n \in Nat
          BY <1>1, <2>3, <3>1
        <4> QED
          BY <4>1, LevelsAssumption, SMT DEF Path
      <3>3. n + 1 \in gone /\ RestEmpty(w, p, n)
        BY <3>1, <3>2 DEF Pruned
      <3>4. j = p[n + 1]
        BY <2>3, <2>5, <3>3 DEF RestEmpty
      <3> QED
        BY <2>4, <2>5, <3>1, <3>3, <3>4
    <2>6. h \in Used'
      BY <1>6, <2>5
    <2>7. ~Cut(w, gone, p, h, j)
      <3> SUFFICES ASSUME NEW n \in Path, h = w[n], j = p[n + 1], n = Levels
                   PROVE  FALSE
        BY <2>4 DEF Cut
      <3>1. Levels + 1 \in Path
        BY <1>4, <2>3
      <3> QED
        BY <3>1, LevelsAssumption, SMT DEF Path
    <2>8. Parent(home, h, g)'
      BY <1>8, <1>10, <2>2, <2>3, <2>6, <2>7 DEF Parent
    <2>9. \E i \in Index : tables'[g][i] # NotMapped
      <3>1. PICK i \in Index : tables[g][i] # NotMapped
        BY <2>1 DEF Shape, Parents
      <3>2. CASE ~Cut(w, gone, p, g, i)
        BY <1>8, <1>10, <2>1, <3>1, <3>2
      <3>3. CASE Cut(w, gone, p, g, i)
        <4>1. PICK n \in Path : g = w[n] /\ (n = Levels \/ n + 1 \in gone)
          BY <3>3 DEF Cut
        <4>2. home[g].level = n /\ n \in 1..Levels /\ n \notin gone
          <5>1. home[g].level = n /\ n \in Nat /\ (n = 0 \/ n \in 1..Levels) /\ n \notin gone
            BY <1>1, <1>4, <1>7, <4>1
          <5>2. ~(0 >= 1)
            BY SMT
          <5> QED
            BY <5>1, <5>2
        <4>3. PICK r \in Index : r # p[n + 1] /\ tables[g][r] # NotMapped
          BY <4>1, <4>2 DEF Pruned, RestEmpty
        <4>4. ~Cut(w, gone, p, g, r)
          BY <1>4, <4>2, <4>3 DEF Cut
        <4> QED
          BY <1>8, <1>10, <2>1, <4>3, <4>4
      <3> QED
        BY <3>2, <3>3
    <2> QED
      BY <2>6, <2>8, <2>9
  <1> QED
    BY <1>11, <1>12, <1>13, <1>14, <1>15, <1>16, <1>17 DEF Shape

\* Pruning changes the one page.
LEMMA PrunedView ==
    ASSUME NEW home, Shape(home), NEW s \in Spaces, NEW p \in Page,
           s = Kernel <=> p \in KernelPage, NEW w, NEW gone,
           Pruned(home, w, gone, s, p), Dropped(w, gone, p), root' = root, Shape(home)'
    PROVE  Changed(s, p, NotMapped)
  <1> SUFFICES ASSUME NEW t \in Spaces, NEW q \in Page
               PROVE  Lookup(t, q)' = IF q = p /\ t \in SeenBy(s) THEN NotMapped ELSE Lookup(t, q)
    BY DEF Changed
  <1>1. t \in Spaces' /\ EntryAt(home, t, q) /\ EntryAt(home, t, q)'
    <2>1. t \in Spaces'
      BY DEF Spaces, Live
    <2> QED
      BY <2>1, LookupAt, LookupAtNext
  <1>2. Levels \in Path /\ Levels >= 1 /\ Levels \in Nat
    BY LevelsAssumption, SMT DEF Path
  <1>3. s = Kernel <=> p[1] \in KernelIndex
    BY PageHalves
  <1>4. /\ w[Levels] \in Used /\ home[w[Levels]].level = Levels /\ home[w[Levels]].space = s
        /\ \A k \in 1..Levels : home[w[Levels]].way[k] = p[k]
    BY <1>2, <1>3 DEF Pruned, At, Owner
  <1>5. q[Levels + 1] \in Index /\ \A f \in Used : f \in TableFrame
    BY PageIndices DEF Used
  <1>6. Used' \subseteq Used
    BY DEF Dropped, Used
  <1>7. CASE q = p /\ t \in SeenBy(s)
    <2> SUFFICES ASSUME Lookup(t, q)' # NotMapped
                 PROVE  FALSE
      BY <1>7
    <2>1. PICK f \in Used' : At(home, f, t, q, Levels)' /\ tables'[f][q[Levels + 1]] # NotMapped
      BY <1>1 DEF EntryAt
    <2>2. Owner(t, q, Levels) = s
      BY <1>2, <1>3, <1>7 DEF Owner, SeenBy
    <2>3. f = w[Levels]
      <3>1. f \in Used /\ SameHome(home, f, w[Levels])
        BY <1>4, <1>6, <1>7, <2>1, <2>2 DEF At, SameHome
      <3> QED
        BY <1>4, <3>1 DEF Shape, HomesDiffer
    <2>4. Cut(w, gone, p, f, q[Levels + 1])
      BY <1>2, <1>7, <2>3 DEF Cut
    <2> QED
      BY <1>5, <1>6, <2>1, <2>4 DEF Dropped
  <1>8. CASE ~(q = p /\ t \in SeenBy(s))
    <2>1. ASSUME NEW f \in Used, At(home, f, t, q, Levels)
          PROVE  tables'[f][q[Levels + 1]] = tables[f][q[Levels + 1]]
      <3>1. ASSUME NEW n \in Path, f = w[n], q[Levels + 1] = p[n + 1]
            PROVE  FALSE
        <4>1. n = Levels
          BY <2>1, <3>1 DEF At, Pruned
        <4>2. q = p
          <5>1. \A k \in 1..Levels : q[k] = p[k]
            BY <1>4, <2>1, <3>1, <4>1 DEF At
          <5>2. \A k \in 1..(Levels + 1) : k \in 1..Levels \/ k = Levels + 1
            BY LevelsAssumption, SMT
          <5> QED
            BY <3>1, <4>1, <5>1, <5>2, SamePage
        <4>3. t \in SeenBy(s)
          BY <1>2, <1>3, <1>4, <2>1, <3>1, <4>1, <4>2 DEF At, Owner, SeenBy
        <4> QED
          BY <1>8, <4>2, <4>3
      <3> QED
        BY <1>5, <3>1 DEF Dropped, Cut
    <2>2. ASSUME Lookup(t, q) # NotMapped
          PROVE  Lookup(t, q)' = Lookup(t, q)
      <3>1. PICK f \in Used : At(home, f, t, q, Levels) /\ tables[f][q[Levels + 1]] = Lookup(t, q)
        BY <1>1, <2>2 DEF EntryAt
      <3>2. tables'[f][q[Levels + 1]] # NotMapped
        BY <2>1, <2>2, <3>1
      <3>3. f \in Used'
        BY <1>5, <3>2 DEF Shape, FreeEmpty, Used
      <3>4. At(home, f, t, q, Levels)'
        BY <3>1, <3>3 DEF At
      <3> QED
        BY <1>1, <2>1, <3>1, <3>4 DEF EntryAt
    <2>3. ASSUME Lookup(t, q) = NotMapped, Lookup(t, q)' # NotMapped
          PROVE  FALSE
      <3>1. PICK f \in Used' : At(home, f, t, q, Levels)' /\ tables'[f][q[Levels + 1]] # NotMapped
        BY <1>1, <2>3 DEF EntryAt
      <3>2. At(home, f, t, q, Levels)
        BY <1>6, <3>1 DEF At
      <3> QED
        BY <1>1, <1>6, <2>1, <2>3, <3>1, <3>2 DEF EntryAt
    <2> QED
      BY <1>8, <2>2, <2>3
  <1> QED
    BY <1>7, <1>8

LEMMA UnmapStep ==
    ASSUME TypeOK, NEW home, Shape(home), NEW s \in Spaces, NEW p \in Page,
           s = Kernel <=> p \in KernelPage, s = Kernel => p \in StackPage /\ ImageMapped,
           UnmapOk(s, p)
    PROVE  Shape(home)' /\ Changed(s, p, NotMapped) /\ TypeOK'
  <1>1. PICK w, gone : Pruned(home, w, gone, s, p) /\ Dropped(w, gone, p)
    BY UnmapPrunes
  <1>2. root' = root
    BY DEF UnmapOk
  <1>3. Shape(home)'
    BY <1>1, <1>2, PrunedShape
  <1>4. Changed(s, p, NotMapped)
    BY <1>1, <1>2, <1>3, PrunedView
  <1>5. TypeOK'
    <2>1. tables' \in [TableFrame -> [Index -> TableEntry \cup Leaf \cup {NotMapped}]]
      BY DEF UnmapOk, TypeOK
    <2>2. free' \subseteq TableFrame
      <3>1. \A n \in gone : n \in Path
        BY <1>1, LevelsAssumption, SMT DEF Pruned, Path
      <3>2. \A n \in Path : w[n] \in TableFrame
        BY <1>1 DEF Pruned, At, Used
      <3> QED
        BY <1>1, <3>1, <3>2 DEF Dropped, TypeOK
    <2>3. tlb' \subseteq tlb /\ UNCHANGED <<root, cr3>>
      BY DEF UnmapOk, FlushIfActive
    <2> QED
      BY <2>1, <2>2, <2>3 DEF TypeOK
  <1> QED
    BY <1>3, <1>4, <1>5

-----------------------------------------------------------------------------
(* The invariant.                                                          *)

\* What the callers of map and unmap see to: user pages go to user spaces, with
\* the user bit, and the kernel's pages to the kernel, the image first.
Allowed(s, p) ==
    \/ s \in Live /\ p \in UserPage
    \/ s = Kernel /\ p \in BootPage /\ Live = {}
    \/ s = Kernel /\ p \in StackPage

LEMMA AllowedHalf ==
    ASSUME NEW s, NEW p, Allowed(s, p)
    PROVE  s \in Spaces /\ p \in Page /\ (s = Kernel <=> p \in KernelPage)
  BY PageHalves, NamesAssumption DEF Allowed, Spaces, Live, Page, KernelPage

LEMMA MapKeeps ==
    ASSUME IInv, NEW s, NEW p, Allowed(s, p), p \in StackPage => ImageMapped,
           NEW leaf \in Leaf, leaf.user <=> s # Kernel, MapOk(s, p, leaf)
    PROVE  IInv' /\ Changed(s, p, leaf)
  <1>1. PICK home : Shape(home)
    BY DEF IInv
  <1>2. s \in Spaces /\ p \in Page /\ (s = Kernel <=> p \in KernelPage)
    BY AllowedHalf
  <1>3. p \in BootPage => Live = {}
    BY <1>2, HalvesAssumption, NamesAssumption DEF Allowed, Live, KernelPage
  <1>4. (\E new : Shape(new)') /\ Changed(s, p, leaf) /\ TypeOK'
    BY <1>1, <1>2, <1>3, MapStep DEF IInv
  <1>5. leaf # NotMapped
    BY NamesAssumption DEF Leaf
  <1>6. ImageFirst' /\ Cached'
    <2>1. FlushIfActive(s, p) /\ UNCHANGED <<root, cr3>>
      BY DEF MapOk
    <2> QED
      BY <1>2, <1>4, <1>5, <2>1, ChangedKeeps DEF IInv
  <1> QED
    BY <1>4, <1>6 DEF IInv

LEMMA UnmapKeeps ==
    ASSUME IInv, NEW s, NEW p, Allowed(s, p), p \notin BootPage, UnmapOk(s, p)
    PROVE  IInv' /\ Changed(s, p, NotMapped)
  <1>1. PICK home : Shape(home)
    BY DEF IInv
  <1>2. s \in Spaces /\ p \in Page /\ (s = Kernel <=> p \in KernelPage)
    BY AllowedHalf
  <1>3. s = Kernel => p \in StackPage /\ ImageMapped
    BY <1>2 DEF KernelPage, UnmapOk, IInv, ImageFirst
  <1>4. Shape(home)' /\ Changed(s, p, NotMapped) /\ TypeOK'
    BY <1>1, <1>2, <1>3, UnmapStep DEF IInv
  <1>5. ImageFirst' /\ Cached'
    <2>1. FlushIfActive(s, p) /\ UNCHANGED <<root, cr3>>
      BY DEF UnmapOk
    <2> QED
      BY <1>2, <1>4, <2>1, ChangedKeeps DEF IInv
  <1> QED
    BY <1>4, <1>5 DEF IInv

\* Where the tables stay, so do the homes and the pages.
LEMMA SameTables ==
    ASSUME UNCHANGED <<tables, root, free>>
    PROVE  /\ \A home : Shape(home)' <=> Shape(home)
           /\ \A t, p : Lookup(t, p)' = Lookup(t, p)
           /\ Live' = Live /\ Spaces' = Spaces
           /\ ImageFirst' <=> ImageFirst
  <1>1. Live' = Live /\ Spaces' = Spaces /\ Used' = Used
    BY DEF Live, Spaces, Used
  <1>2. \A t, p : Lookup(t, p)' = Lookup(t, p)
    BY SMT DEF Lookup, Walk
  <1>3. ASSUME NEW home
        PROVE  Shape(home)' <=> Shape(home)
    <2>1. Roots(home)' <=> Roots(home)
      BY <1>1 DEF Roots
    <2>2. Homes(home)' <=> Homes(home)
      BY <1>1 DEF Homes
    <2>3. Links(home)' <=> Links(home)
      <3>1. \A f, i, g : Child(home, f, i, g)' <=> Child(home, f, i, g)
        BY <1>1 DEF Child
      <3>2. \A f, i, g : Points(home, f, i, g)' <=> Points(home, f, i, g)
        BY DEF Points
      <3> QED
        BY <1>1, <3>1, <3>2 DEF Links
    <2>4. Leaves(home)' <=> Leaves(home)
      BY <1>1 DEF Leaves
    <2>5. Parents(home)' <=> Parents(home)
      BY <1>1 DEF Parents, Parent
    <2>6. HomesDiffer(home)' <=> HomesDiffer(home)
      BY <1>1 DEF HomesDiffer
    <2>7. (FreeEmpty' <=> FreeEmpty) /\ (KernelHalfShared' <=> KernelHalfShared)
      BY <1>1 DEF FreeEmpty, KernelHalfShared
    <2> QED
      BY <2>1, <2>2, <2>3, <2>4, <2>5, <2>6, <2>7 DEF Shape
  <1>4. ImageFirst' <=> ImageFirst
    BY <1>1, <1>2 DEF ImageFirst, ImageMapped
  <1> QED
    BY <1>1, <1>2, <1>3, <1>4

\* What Lookup finds is nothing or an entry of a last table.
LEMMA LookupLeaf ==
    ASSUME NEW home, Shape(home), NEW s \in Spaces, NEW p \in Page, Lookup(s, p) # NotMapped
    PROVE  Lookup(s, p) \in Leaf
  <1>1. PICK f \in Used : At(home, f, s, p, Levels) /\ tables[f][p[Levels + 1]] = Lookup(s, p)
    BY LookupAt DEF EntryAt
  <1> QED
    BY <1>1, PageIndices DEF At, Shape, Leaves

LEMMA NewUserKeeps ==
    ASSUME IInv, NEW u \in Users, NEW from \in Spaces, ImageMapped, new_user(from, u)
    PROVE  IInv'
  <1>1. PICK home : Shape(home)
    BY DEF IInv
  <1>2. PICK new : /\ Shape(new)' /\ Live' = Live \cup {u}
                   /\ \A t \in Spaces, p \in Page : Lookup(t, p)' = Lookup(t, p)
    BY <1>1, NewUserStep DEF IInv
  <1>3. TypeOK'
    <2>1. root[from] \in TableFrame
      BY <1>1 DEF Shape, Roots, Used
    <2>2. CopiedHalf(from) \in [Index -> TableEntry \cup Leaf \cup {NotMapped}]
      BY <2>1 DEF IInv, TypeOK, CopiedHalf
    <2>3. PICK f \in free : /\ root' = [root EXCEPT ![u] = f]
                            /\ tables' = [tables EXCEPT ![f] = CopiedHalf(from)]
                            /\ free' = free \ {f} /\ UNCHANGED <<cr3, tlb>>
      BY DEF new_user
    <2>4. TypeOK /\ f \in TableFrame
      BY DEF IInv, TypeOK
    <2>5. tables' \in [TableFrame -> [Index -> TableEntry \cup Leaf \cup {NotMapped}]]
      BY <2>2, <2>3, <2>4 DEF TypeOK
    <2>6. root' \in [Space -> TableFrame \cup {NoFrame}]
      BY <2>3, <2>4 DEF TypeOK
    <2> QED
      BY <2>3, <2>4, <2>5, <2>6 DEF TypeOK
  <1>4. Spaces' = Spaces \cup {u} /\ Kernel \in Spaces
    BY <1>2 DEF Spaces
  <1>5. ImageFirst'
    BY <1>2, <1>4, HalvesAssumption DEF ImageFirst, ImageMapped, Page, KernelPage
  <1>6. Cached'
    <2>1. cr3' = cr3 /\ tlb' = tlb
      BY DEF new_user
    <2>2. PICK c \in Spaces : c = cr3
      BY DEF IInv, Cached
    <2>3. \A p : Lookup(cr3, p)' = Lookup(c, p)'
      BY <2>1, <2>2, SMT DEF Lookup, Walk
    <2>4. \A e \in tlb : e.page \in Page
      BY DEF IInv, TypeOK
    <2> QED
      BY <1>2, <1>4, <2>1, <2>2, <2>3, <2>4 DEF IInv, Cached, UserTlbCoherent
  <1> QED
    BY <1>2, <1>3, <1>5, <1>6 DEF IInv

LEMMA DestroyKeeps ==
    ASSUME IInv, NEW u \in Users, destroy_user(u)
    PROVE  IInv'
  <1>1. PICK home : Shape(home)
    BY DEF IInv
  <1>2. /\ Shape(home)' /\ Live' = Live \ {u}
        /\ \A t \in Spaces \ {u}, p \in Page : Lookup(t, p)' = Lookup(t, p)
    BY <1>1, DestroyStep DEF IInv
  <1>3. u \in Live /\ u # Kernel /\ cr3 # u /\ cr3' = cr3 /\ tlb' = tlb
    BY NamesAssumption DEF destroy_user
  <1>4. TypeOK'
    <2>1. TablesBelow(u) \cup {root[u]} \subseteq TableFrame
      BY <1>1, <1>3, TablesBelowBelong DEF Used
    <2> QED
      BY <1>3, <2>1 DEF IInv, TypeOK, destroy_user, EmptyTable
  <1>5. Spaces' = Spaces \ {u} /\ Kernel \in Spaces \ {u}
    BY <1>2, <1>3 DEF Spaces
  <1>6. ImageFirst'
    BY <1>2, <1>3, <1>5, HalvesAssumption DEF IInv, ImageFirst, ImageMapped, Page, KernelPage
  <1>7. Cached'
    <2>1. PICK c \in Spaces \ {u} : c = cr3
      BY <1>3 DEF IInv, Cached
    <2>2. \A p : Lookup(cr3, p)' = Lookup(c, p)'
      BY <1>3, <2>1, SMT DEF Lookup, Walk
    <2>3. \A e \in tlb : e.page \in Page
      BY DEF IInv, TypeOK
    <2> QED
      BY <1>2, <1>3, <1>5, <2>1, <2>2, <2>3 DEF IInv, Cached, UserTlbCoherent
  <1> QED
    BY <1>2, <1>4, <1>6, <1>7 DEF IInv

LEMMA CpuKeeps ==
    ASSUME IInv, (\E u \in Users : activate(u)) \/ (\E p \in Page : Access(p))
    PROVE  IInv' /\ UNCHANGED <<tables, root, free, ret>>
  <1>1. PICK home : Shape(home)
    BY DEF IInv
  <1>2. UNCHANGED <<tables, root, free, ret>>
    BY DEF activate, Access
  <1>3. /\ Shape(home)' /\ ImageFirst' /\ Live' = Live /\ Spaces' = Spaces
        /\ \A t, p : Lookup(t, p)' = Lookup(t, p)
    BY <1>1, <1>2, SameTables DEF IInv
  <1>4. CASE \E u \in Users : activate(u)
    <2>1. tlb' = {e \in tlb : e.global} /\ cr3' \in Live
      BY <1>4 DEF activate
    <2>2. \A e \in tlb' : e.page \in KernelPage /\ e.page \notin UserPage /\ e.global
      BY <2>1, PageHalves DEF IInv, Cached, Page
    <2>3. TypeOK'
      BY <1>2, <2>1 DEF IInv, TypeOK, Live, Space
    <2>4. Cached'
      BY <1>3, <2>1, <2>2 DEF Cached, UserTlbCoherent, Spaces
    <2> QED
      BY <1>2, <1>3, <2>3, <2>4 DEF IInv
  <1>5. CASE \E p \in Page : Access(p)
    <2>1. PICK p \in Page : Access(p)
      BY <1>5
    <2>2. PICK c \in Spaces : c = cr3
      BY DEF IInv, Cached
    <2>3. cr3' = cr3 /\ Lookup(c, p) # NotMapped
          /\ tlb' = {[page |-> p, leaf |-> Lookup(c, p), global |-> p \in KernelPage]}
      BY <2>1, <2>2 DEF Access
    <2>4. Lookup(c, p) \in Leaf
      BY <1>1, <2>3, LookupLeaf
    <2>5. TypeOK'
      BY <1>2, <2>3, <2>4, SMT DEF IInv, TypeOK
    <2>6. \A q : Lookup(cr3, q)' = Lookup(c, q)
      <3>1. cr3' = c
        BY <2>2, <2>3
      <3>2. \A q : Lookup(cr3, q)' = Lookup(c, q)'
        BY <3>1, SMT DEF Lookup, Walk
      <3> QED
        BY <1>3, <3>2
    <2>7. Cached'
      <3>1. \A e \in tlb' : e.page = p /\ e.leaf = Lookup(c, p) /\ e.global = (p \in KernelPage)
        BY <2>3, SMT
      <3>2. cr3' \in Spaces'
        BY <1>3, <2>2, <2>3
      <3>3. UserTlbCoherent'
        BY <2>6, <3>1 DEF UserTlbCoherent
      <3> QED
        BY <3>1, <3>2, <3>3 DEF Cached
    <2> QED
      BY <1>2, <1>3, <2>5, <2>7 DEF IInv
  <1> QED
    BY <1>4, <1>5

\* A failed operation changes the answer only.
Failed == UNCHANGED <<tables, root, free, cr3, tlb>>

LEMMA FailedKeeps ==
    ASSUME IInv, Failed
    PROVE  IInv'
  <1>1. PICK home : Shape(home)
    BY DEF IInv
  <1>2. /\ Shape(home)' /\ ImageFirst' /\ Spaces' = Spaces
        /\ \A t, p : Lookup(t, p)' = Lookup(t, p)
    BY <1>1, SameTables DEF IInv, Failed
  <1>3. TypeOK'
    BY DEF IInv, TypeOK, Failed
  <1>4. Cached'
    <2>1. PICK c : c = cr3
      OBVIOUS
    <2>2. \A p : Lookup(cr3, p)' = Lookup(c, p)'
      BY <2>1, SMT DEF Failed, Lookup, Walk
    <2> QED
      BY <1>2, <2>1, <2>2 DEF IInv, Cached, UserTlbCoherent, Failed
  <1> QED
    BY <1>2, <1>3, <1>4 DEF IInv

\* The cases of a step.
UserLeaf(d) == [data |-> d, user |-> TRUE]
KernelLeaf(d) == [data |-> d, user |-> FALSE]

LEMMA StepCases ==
    ASSUME Next
    PROVE  \/ \E s \in Spaces, p \in Page, leaf \in Leaf :
                /\ Allowed(s, p) /\ (p \in StackPage => ImageMapped) /\ (leaf.user <=> s # Kernel)
                /\ map(s, p, leaf)
           \/ \E s \in Spaces, p \in Page : Allowed(s, p) /\ p \notin BootPage /\ unmap(s, p)
           \/ \E u \in Users, from \in Spaces : ImageMapped /\ new_user(from, u)
           \/ new_user_fails
           \/ \E u \in Users : destroy_user(u)
           \/ (\E u \in Users : activate(u)) \/ (\E p \in Page : Access(p))
  <1>1. \A d \in Data : /\ UserLeaf(d) \in Leaf /\ UserLeaf(d).user = TRUE
                        /\ KernelLeaf(d) \in Leaf /\ KernelLeaf(d).user = FALSE
    BY DEF UserLeaf, KernelLeaf, Leaf
  <1>2. /\ \A u \in Live : u \in Spaces /\ u # Kernel
        /\ Kernel \in Spaces
        /\ \A p \in UserPage : p \in Page /\ p \notin StackPage /\ p \notin BootPage
        /\ \A p \in BootPage : p \in Page /\ p \notin StackPage
        /\ \A p \in StackPage : p \in Page /\ p \notin BootPage
    BY HalvesAssumption, NamesAssumption DEF Live, Spaces, Page, KernelPage
  <1>3. CASE \E u \in Live, p \in UserPage, d \in Data : map(u, p, UserLeaf(d))
    BY <1>1, <1>2, <1>3 DEF Allowed
  <1>4. CASE \E u \in Live, p \in UserPage : unmap(u, p)
    BY <1>2, <1>4 DEF Allowed
  <1>5. CASE \E p \in BootPage, d \in Data : Live = {} /\ map(Kernel, p, KernelLeaf(d))
    BY <1>1, <1>2, <1>5 DEF Allowed
  <1>6. CASE \E p \in StackPage, d \in Data : ImageMapped /\ map(Kernel, p, KernelLeaf(d))
    BY <1>1, <1>2, <1>6 DEF Allowed
  <1>7. CASE \E p \in StackPage : unmap(Kernel, p)
    BY <1>2, <1>7 DEF Allowed
  <1> QED
    BY <1>3, <1>4, <1>5, <1>6, <1>7 DEF Next, UserLeaf, KernelLeaf, Spaces

LEMMA IInvStep == IInv /\ [Next]_vars => IInv'
  <1> SUFFICES ASSUME IInv, [Next]_vars
               PROVE  IInv'
    OBVIOUS
  <1>1. ASSUME NEW s \in Spaces, NEW p \in Page, NEW leaf \in Leaf, Allowed(s, p),
               p \in StackPage => ImageMapped, leaf.user <=> s # Kernel, map(s, p, leaf)
        PROVE  IInv'
    BY <1>1, MapKeeps, FailedKeeps DEF map, MapAlreadyMapped, MapOutOfFrames, Failed
  <1>2. ASSUME NEW s \in Spaces, NEW p \in Page, Allowed(s, p), p \notin BootPage, unmap(s, p)
        PROVE  IInv'
    BY <1>2, UnmapKeeps, FailedKeeps DEF unmap, UnmapNotMapped, Failed
  <1>3. CASE new_user_fails \/ UNCHANGED vars
    BY <1>3, FailedKeeps DEF new_user_fails, vars, Failed
  <1>4. CASE Next
    BY <1>1, <1>2, <1>3, <1>4, StepCases, NewUserKeeps, DestroyKeeps, CpuKeeps
  <1> QED
    BY <1>3, <1>4

\* The invariant holds in every state of every behaviour.
THEOREM IInvHolds == Spec => []IInv
  BY IInvInit, IInvStep, PTL DEF Spec

-----------------------------------------------------------------------------
(* The tables implement a map from pages to frames.                        *)

\* The map that the tables stand for.
View == [s \in Space |-> [p \in Page |-> IF root[s] = NoFrame THEN NotMapped ELSE Lookup(s, p)]]

LEMMA ViewOf ==
    \A home : TypeOK /\ Shape(home) =>
        /\ \A s \in Space : s \in Spaces <=> root[s] # NoFrame
        /\ \A s \in Spaces, p \in Page : s \in Space /\ View[s][p] = Lookup(s, p)
        /\ \A s \in Space \ Spaces : View[s] = [p \in Page |-> NotMapped]
  <1> SUFFICES ASSUME NEW home, TypeOK, Shape(home)
               PROVE  /\ \A s \in Space : s \in Spaces <=> root[s] # NoFrame
                      /\ \A s \in Spaces, p \in Page : s \in Space /\ View[s][p] = Lookup(s, p)
                      /\ \A s \in Space \ Spaces : View[s] = [p \in Page |-> NotMapped]
    OBVIOUS
  <1>1. \A s \in Space : s \in Spaces <=> root[s] # NoFrame
    BY NotAFrame, SMT DEF Spaces, Live, Space, Shape, Roots, Used
  <1>2. \A s \in Spaces : s \in Space
    BY DEF Spaces, Live, Space
  <1>3. \A s \in Spaces, p \in Page : View[s][p] = Lookup(s, p)
    BY <1>1, <1>2 DEF View
  <1>4. \A s \in Space \ Spaces : View[s] = [p \in Page |-> NotMapped]
    BY <1>1 DEF View
  <1> QED
    BY <1>1, <1>2, <1>3, <1>4

LEMMA ChangedIsUpdate ==
    ASSUME TypeOK, NEW home, Shape(home), NEW s \in Spaces, NEW p \in Page, NEW e,
           Changed(s, p, e), root' = root
    PROVE  Abstract!Update(s, p, e)
  <1>1. /\ \A t \in Space : t \in Spaces <=> root[t] # NoFrame
        /\ \A t \in Spaces : t \in Space
    BY ViewOf
  <1>2. View' = [t \in Space |-> IF t \in SeenBy(s) THEN [View[t] EXCEPT ![p] = e] ELSE View[t]]
    <2> DEFINE W == [t \in Space |-> IF t \in SeenBy(s) THEN [View[t] EXCEPT ![p] = e] ELSE View[t]]
    <2>1. \A t \in Space, q \in Page : View'[t][q] = IF root[t] = NoFrame THEN NotMapped ELSE Lookup(t, q)'
      BY DEF View
    <2>2. \A t \in Space, q \in Page : View[t][q] = IF root[t] = NoFrame THEN NotMapped ELSE Lookup(t, q)
      BY DEF View
    <2>3. SeenBy(s) \subseteq Spaces
      BY DEF SeenBy
    <2>4. \A t \in Space : View[t] = [q \in Page |-> View[t][q]] /\ View'[t] = [q \in Page |-> View'[t][q]]
      BY DEF View
    <2>5. ASSUME NEW t \in Space
          PROVE  W[t] = [q \in Page |-> IF q = p /\ t \in SeenBy(s) THEN e ELSE View[t][q]]
      BY <2>4
    <2>6. ASSUME NEW t \in Space, NEW q \in Page
          PROVE  View'[t][q] = IF q = p /\ t \in SeenBy(s) THEN e ELSE View[t][q]
      BY <1>1, <2>1, <2>2, <2>3 DEF Changed
    <2> HIDE DEF W
    <2>7. ASSUME NEW t \in Space
          PROVE  View'[t] = W[t]
      <3>1. [q \in Page |-> View'[t][q]] = [q \in Page |-> IF q = p /\ t \in SeenBy(s) THEN e ELSE View[t][q]]
        BY <2>6
      <3>2. View'[t] = [q \in Page |-> View'[t][q]]
        BY <2>4
      <3> QED
        BY <2>5, <3>1, <3>2
    <2> USE DEF W
    <2>8. View' = [t \in Space |-> View'[t]]
      BY DEF View
    <2> QED
      BY <2>7, <2>8
  <1>3. Abstract!Seen(s) = SeenBy(s) /\ Abstract!Space = Space /\ Abstract!Page = Page
    BY DEF Abstract!Seen, SeenBy, Spaces, Abstract!Space, Space, Abstract!Page, Page
  <1> QED
    BY <1>2, <1>3 DEF Abstract!Update, View

\* The first tables map nothing.
LEMMA RefinesInit == Init => Abstract!Init
  <1> SUFFICES ASSUME Init
               PROVE  Abstract!Init
    OBVIOUS
  <1>1. IInv
    BY IInvInit
  <1>2. PICK home : Shape(home)
    BY <1>1 DEF IInv
  <1>3. Live = {}
    BY NamesAssumption DEF Init, Live, Space
  <1>4. \A s \in Space, p \in Page : View[s][p] = NotMapped
    <2>1. \A p \in Page : Lookup(Kernel, p) = NotMapped
      <3> SUFFICES ASSUME NEW p \in Page, Lookup(Kernel, p) # NotMapped
                   PROVE  FALSE
        OBVIOUS
      <3>1. PICK f \in Used : tables[f][p[Levels + 1]] = Lookup(Kernel, p)
        BY <1>2, LookupAt DEF EntryAt, Spaces
      <3> QED
        BY <3>1, PageIndices DEF Init, EmptyTable, Used
    <2> QED
      BY <1>3, <2>1 DEF View, Space, Live
  <1>5. View = [s \in Space |-> [p \in Page |-> NotMapped]]
    BY <1>4 DEF View
  <1> QED
    BY <1>3, <1>5 DEF Abstract!Init, Abstract!Empty, Abstract!Page, Abstract!Space, Space, Page, View, Init

LEMMA RefinesMap ==
    ASSUME IInv, NEW s \in Spaces, NEW p \in Page, NEW leaf \in Leaf, Allowed(s, p),
           p \in StackPage => ImageMapped, leaf.user <=> s # Kernel, map(s, p, leaf)
    PROVE  Abstract!Next
  <1>1. PICK home : TypeOK /\ Shape(home)
    BY DEF IInv
  <1>2. View[s][p] = Lookup(s, p)
    BY <1>1, ViewOf
  <1>3. (s \in Live /\ p \in UserPage) \/ (s = Kernel /\ p \in KernelPage)
    BY DEF Allowed, KernelPage
  <1>4. CASE MapOk(s, p, leaf)
    <2>1. Changed(s, p, leaf) /\ root' = root /\ ret' = "Ok" /\ Lookup(s, p) = NotMapped
      BY <1>4, MapKeeps DEF MapOk
    <2>2. Abstract!Update(s, p, leaf)
      BY <1>1, <2>1, ChangedIsUpdate
    <2>3. Abstract!Map(s, p, leaf)
      BY <1>2, <2>1, <2>2 DEF Abstract!Map, View, Live
    <2> QED
      BY <1>3, <2>3 DEF Abstract!Next, Abstract!Operation
  <1>5. CASE MapAlreadyMapped(s, p)
    <2>1. View' = View /\ Live' = Live
      BY <1>5, SameTables DEF MapAlreadyMapped, View
    <2>2. Abstract!AlreadyMapped(s, p)
      BY <1>2, <1>5, <2>1 DEF Abstract!AlreadyMapped, MapAlreadyMapped, View
    <2> QED
      BY <1>3, <2>2 DEF Abstract!Next, Abstract!Operation
  <1>6. CASE MapOutOfFrames(s, p)
    <2>1. View' = View /\ Live' = Live
      BY <1>6, SameTables DEF MapOutOfFrames, View
    <2> QED
      BY <1>6, <2>1 DEF Abstract!Next, Abstract!OutOfFrames, MapOutOfFrames, View
  <1> QED
    BY <1>4, <1>5, <1>6 DEF map

LEMMA RefinesUnmap ==
    ASSUME IInv, NEW s \in Spaces, NEW p \in Page, Allowed(s, p), p \notin BootPage, unmap(s, p)
    PROVE  Abstract!Next
  <1>1. PICK home : TypeOK /\ Shape(home)
    BY DEF IInv
  <1>2. View[s][p] = Lookup(s, p)
    BY <1>1, ViewOf
  <1>3. (s \in Live /\ p \in UserPage) \/ (s = Kernel /\ p \in KernelPage)
    BY DEF Allowed, KernelPage
  <1>4. CASE UnmapOk(s, p)
    <2>1. Changed(s, p, NotMapped) /\ root' = root /\ ret' = "Ok" /\ Lookup(s, p) # NotMapped
      BY <1>4, UnmapKeeps DEF UnmapOk
    <2>2. Abstract!Update(s, p, NotMapped)
      BY <1>1, <2>1, ChangedIsUpdate
    <2>3. Abstract!Unmap(s, p)
      BY <1>2, <2>1, <2>2 DEF Abstract!Unmap, View, Live
    <2> QED
      BY <1>3, <2>3 DEF Abstract!Next, Abstract!Operation
  <1>5. CASE UnmapNotMapped(s, p)
    <2>1. View' = View /\ Live' = Live
      BY <1>5, SameTables DEF UnmapNotMapped, View
    <2>2. Abstract!NothingMapped(s, p)
      BY <1>2, <1>5, <2>1 DEF Abstract!NothingMapped, UnmapNotMapped, View
    <2> QED
      BY <1>3, <2>2 DEF Abstract!Next, Abstract!Operation
  <1> QED
    BY <1>4, <1>5 DEF unmap

LEMMA ViewOfNext ==
    \A home : TypeOK' /\ Shape(home)' =>
        /\ \A s \in Spaces', p \in Page : s \in Space /\ View'[s][p] = Lookup(s, p)'
        /\ \A s \in Space \ Spaces' : View'[s] = [p \in Page |-> NotMapped]
  <1>1. (\A home : TypeOK /\ Shape(home) =>
            /\ \A s \in Space : s \in Spaces <=> root[s] # NoFrame
            /\ \A s \in Spaces, p \in Page : s \in Space /\ View[s][p] = Lookup(s, p)
            /\ \A s \in Space \ Spaces : View[s] = [p \in Page |-> NotMapped])'
    BY ViewOf, PTL
  <1> QED
    BY <1>1

\* Views are told by their pages.
LEMMA SameView ==
    ASSUME NEW t, NEW F, t \in Space, F = [p \in Page |-> F[p]], \A p \in Page : View'[t][p] = F[p]
    PROVE  View'[t] = F
  <1>1. View'[t] = [p \in Page |-> View'[t][p]]
    BY DEF View
  <1> QED
    BY <1>1

LEMMA RefinesCreate ==
    ASSUME IInv, NEW u \in Users, NEW from \in Spaces, ImageMapped, new_user(from, u)
    PROVE  Abstract!Next
  <1>1. PICK home : TypeOK /\ Shape(home)
    BY DEF IInv
  <1>2. PICK new : /\ Shape(new)' /\ Live' = Live \cup {u}
                   /\ \A t \in Spaces, p \in Page : Lookup(t, p)' = Lookup(t, p)
                   /\ \A p \in Page : Lookup(u, p)' =
                         IF p \in KernelPage THEN Lookup(Kernel, p) ELSE NotMapped
    BY <1>1, NewUserStep
  <1>3. TypeOK' /\ u \notin Live /\ ret' = "Ok" /\ Spaces' = Spaces \cup {u} /\ u \in Space /\ Kernel \in Spaces
    BY <1>2, NewUserKeeps DEF new_user, Live, Spaces, Space, IInv
  <1> DEFINE F == [p \in Page |-> IF p \in KernelPage THEN View[Kernel][p] ELSE NotMapped]
  <1>4. View'[u] = F
    <2>1. ASSUME NEW p \in Page
          PROVE  View'[u][p] = F[p]
      <3>1. View'[u][p] = Lookup(u, p)'
        BY <1>2, <1>3, ViewOfNext
      <3>2. View[Kernel][p] = Lookup(Kernel, p)
        BY <1>1, <1>3, ViewOf
      <3>3. F[p] = IF p \in KernelPage THEN View[Kernel][p] ELSE NotMapped
        OBVIOUS
      <3> QED
        BY <1>2, <3>1, <3>2, <3>3
    <2>2. F = [p \in Page |-> F[p]]
      OBVIOUS
    <2> HIDE DEF F
    <2> QED
      BY <1>3, <2>1, <2>2, SameView
  <1>5. ASSUME NEW t \in Space \ {u}
        PROVE  View'[t] = View[t]
    <2>1. CASE t \in Spaces
      <3>1. ASSUME NEW p \in Page
            PROVE  View'[t][p] = View[t][p]
        <4>1. View'[t][p] = Lookup(t, p)'
          BY <1>2, <1>3, <2>1, ViewOfNext
        <4>2. View[t][p] = Lookup(t, p)
          BY <1>1, <2>1, ViewOf
        <4> QED
          BY <1>2, <2>1, <4>1, <4>2
      <3>2. View[t] = [p \in Page |-> View[t][p]]
        BY DEF View
      <3> QED
        BY <3>1, <3>2, SameView
    <2>2. CASE t \notin Spaces
      BY <1>1, <1>2, <1>3, <2>2, ViewOf, ViewOfNext
    <2> QED
      BY <2>1, <2>2
  <1> HIDE DEF F
  <1>6. View' = [View EXCEPT ![u] = F]
    <2>1. View = [t \in Space |-> View[t]] /\ View' = [t \in Space |-> View'[t]]
      BY DEF View
    <2> QED
      BY <1>3, <1>4, <1>5, <2>1
  <1>7. Abstract!Create(u)
    BY <1>2, <1>3, <1>6 DEF Abstract!Create, Abstract!Page, Page, F, View
  <1> QED
    BY <1>7 DEF Abstract!Next

LEMMA RefinesDestroy ==
    ASSUME IInv, NEW u \in Users, destroy_user(u)
    PROVE  Abstract!Next
  <1>1. PICK home : TypeOK /\ Shape(home)
    BY DEF IInv
  <1>2. /\ Shape(home)' /\ Live' = Live \ {u}
        /\ \A t \in Spaces \ {u}, p \in Page : Lookup(t, p)' = Lookup(t, p)
    BY <1>1, DestroyStep
  <1>3. TypeOK' /\ u \in Live /\ u # Kernel /\ ret' = "Ok" /\ u \in Space
    BY DestroyKeeps, NamesAssumption DEF destroy_user, Space, IInv
  <1>4. Spaces' = Spaces \ {u}
    BY <1>2, <1>3 DEF Spaces
  <1> DEFINE E == [p \in Page |-> NotMapped]
  <1>5. View'[u] = E
    BY <1>2, <1>3, <1>4, ViewOfNext
  <1>6. ASSUME NEW t \in Space \ {u}
        PROVE  View'[t] = View[t]
    <2>1. CASE t \in Spaces
      <3>1. ASSUME NEW p \in Page
            PROVE  View'[t][p] = View[t][p]
        <4>1. t \in Spaces' /\ t \in Spaces \ {u}
          BY <1>4, <2>1
        <4>2. View'[t][p] = Lookup(t, p)'
          BY <1>2, <1>3, <4>1, ViewOfNext
        <4>3. View[t][p] = Lookup(t, p)
          BY <1>1, <2>1, ViewOf
        <4> QED
          BY <1>2, <4>1, <4>2, <4>3
      <3>2. View[t] = [p \in Page |-> View[t][p]]
        BY DEF View
      <3> QED
        BY <3>1, <3>2, SameView
    <2>2. CASE t \notin Spaces
      BY <1>1, <1>2, <1>3, <1>4, <2>2, ViewOf, ViewOfNext
    <2> QED
      BY <2>1, <2>2
  <1> HIDE DEF E
  <1>7. View' = [View EXCEPT ![u] = E]
    <2>1. View = [t \in Space |-> View[t]] /\ View' = [t \in Space |-> View'[t]]
      BY DEF View
    <2> QED
      BY <1>3, <1>5, <1>6, <2>1
  <1>8. Abstract!Destroy(u)
    BY <1>2, <1>3, <1>7 DEF Abstract!Destroy, Abstract!Empty, Abstract!Page, Page, E, View
  <1> QED
    BY <1>8 DEF Abstract!Next

LEMMA RefinesStep == IInv /\ [Next]_vars => [Abstract!Next]_(Abstract!vars)
  <1> SUFFICES ASSUME IInv, [Next]_vars
               PROVE  [Abstract!Next]_(Abstract!vars)
    OBVIOUS
  <1>1. ASSUME UNCHANGED <<tables, root, free, ret>>
        PROVE  UNCHANGED Abstract!vars
    <2>1. View' = View /\ Live' = Live
      BY <1>1, SameTables DEF View
    <2> QED
      BY <1>1, <2>1 DEF Abstract!vars, View
  <1>2. CASE new_user_fails
    <2>1. View' = View /\ Live' = Live
      BY <1>2, SameTables DEF new_user_fails, View
    <2> QED
      BY <1>2, <2>1 DEF Abstract!Next, Abstract!OutOfFrames, new_user_fails, View
  <1>3. CASE UNCHANGED vars
    BY <1>1, <1>3 DEF vars
  <1>4. CASE (\E u \in Users : activate(u)) \/ (\E p \in Page : Access(p))
    BY <1>1, <1>4, CpuKeeps
  <1>5. CASE Next
    BY <1>2, <1>4, <1>5, StepCases, RefinesMap, RefinesUnmap, RefinesCreate, RefinesDestroy
  <1> QED
    BY <1>3, <1>5

-----------------------------------------------------------------------------
(* What is proved of the page tables.                                      *)

LEMMA IInvImplies == IInv => TablesAreForest /\ KernelHalfShared /\ UserBitsRight /\ UserTlbCoherent
  BY ShapeImpliesForest, ShapeImpliesUserBits DEF IInv, Shape, Cached

\* A frame holds one table of one place, or is free, whatever is mapped,
\* unmapped and destroyed in whichever space.
THEOREM TablesFormAForest == Spec => []TablesAreForest
  BY IInvHolds, IInvImplies, PTL

\* The half that new_user copies once never goes stale.
THEOREM KernelHalfIsShared == Spec => []KernelHalfShared
  BY IInvHolds, IInvImplies, PTL

\* User pages, and they alone, can be reached from user mode.
THEOREM UserBitsAreRight == Spec => []UserBitsRight
  BY IInvHolds, IInvImplies, PTL

\* No stale translation of a user page is used.
THEOREM UserTlbIsCoherent == Spec => []UserTlbCoherent
  BY IInvHolds, IInvImplies, PTL

\* Seen through Lookup, the tables are a map from pages to frames.
THEOREM RefinesPageMap == Spec => ImplementsPageMap
  BY RefinesInit, RefinesStep, IInvHolds, PTL DEF Spec, ImplementsPageMap, Abstract!Spec
==============================================================================
