---------------------------- MODULE LoaderProofs ----------------------------
(***************************************************************************)
(* System, for all page sizes, stacks and address spaces, all archives and *)
(* all images: the kernel accepts the buffers that the caller may use, and *)
(* no others; when the kernel or omega3 has loaded a program, its pages    *)
(* hold what the file says; and a search that fails had nothing to find.   *)
(***************************************************************************)
EXTENDS System, TLAPS

LOCAL INSTANCE WellFoundedInduction

\* Steps that need arithmetic, or that Zenon does not find, name SMT.
USE Zenon

-----------------------------------------------------------------------------
(* The buffers of system calls.                                            *)

LEMMA Division ==
    ASSUME NEW a \in Nat
    PROVE  /\ a \div FRAME_SIZE \in Nat /\ a % FRAME_SIZE \in 0..(FRAME_SIZE - 1)
           /\ PageOf(a) = (a \div FRAME_SIZE) * FRAME_SIZE
           /\ PageOf(a) \in Nat /\ PageOf(a) <= a /\ a < PageOf(a) + FRAME_SIZE
  <1>1. /\ a = FRAME_SIZE * (a \div FRAME_SIZE) + (a % FRAME_SIZE)
        /\ a % FRAME_SIZE \in 0..(FRAME_SIZE - 1) /\ a \div FRAME_SIZE \in Nat
    BY FrameSizeAssumption, SMT
  <1>2. FRAME_SIZE * (a \div FRAME_SIZE) = (a \div FRAME_SIZE) * FRAME_SIZE
    BY <1>1, FrameSizeAssumption, SMT
  <1> QED
    BY <1>1, <1>2, FrameSizeAssumption, SMT DEF PageOf

LEMMA PageIs ==
    ASSUME NEW q \in Nat, NEW r \in 0..(FRAME_SIZE - 1)
    PROVE  q * FRAME_SIZE \in Nat /\ PageOf(q * FRAME_SIZE + r) = q * FRAME_SIZE
  <1>1. (q * FRAME_SIZE + r) % FRAME_SIZE = r /\ q * FRAME_SIZE \in Nat
    BY FrameSizeAssumption, SMT
  <1> QED
    BY <1>1, FrameSizeAssumption, SMT DEF PageOf

\* The pages that validate_user_range visits are those of the bytes of the range.
LEMMA RangePages ==
    ASSUME NEW first \in Nat, NEW len \in Nat \ {0}
    PROVE  /\ \A i \in 0..len : PageOf(first) + i * FRAME_SIZE < first + len =>
                 \E a \in first..(first + len - 1) :
                     PageOf(a) = PageOf(PageOf(first) + i * FRAME_SIZE)
           /\ \A a \in first..(first + len - 1) :
                 \E i \in 0..len : /\ PageOf(first) + i * FRAME_SIZE < first + len
                                  /\ PageOf(a) = PageOf(PageOf(first) + i * FRAME_SIZE)
  <1> DEFINE q == first \div FRAME_SIZE
  <1>1. /\ q \in Nat /\ PageOf(first) = q * FRAME_SIZE
        /\ PageOf(first) \in Nat /\ PageOf(first) <= first /\ first < PageOf(first) + FRAME_SIZE
    BY Division
  <1> HIDE DEF q
  <1>2. ASSUME NEW i \in 0..len, PageOf(first) + i * FRAME_SIZE < first + len
        PROVE  \E a \in first..(first + len - 1) : PageOf(a) = PageOf(PageOf(first) + i * FRAME_SIZE)
    <2>1. CASE i = 0
      <3>1. PageOf(first) + i * FRAME_SIZE = q * FRAME_SIZE + 0 /\ 0 \in 0..(FRAME_SIZE - 1)
        BY <1>1, <2>1, FrameSizeAssumption, SMT
      <3>2. PageOf(PageOf(first) + i * FRAME_SIZE) = PageOf(first)
        BY <1>1, <3>1, PageIs
      <3>3. first \in first..(first + len - 1)
        BY SMT
      <3> QED
        BY <3>2, <3>3
    <2>2. CASE i # 0
      <3>1. i * FRAME_SIZE >= FRAME_SIZE /\ i * FRAME_SIZE \in Nat
        BY <2>2, FrameSizeAssumption, SMT
      <3>2. PageOf(first) + i * FRAME_SIZE \in first..(first + len - 1)
        BY <1>1, <1>2, <3>1, FrameSizeAssumption, SMT
      <3> QED
        BY <3>2
    <2> QED
      BY <2>1, <2>2
  <1>3. ASSUME NEW a \in first..(first + len - 1)
        PROVE  \E i \in 0..len : /\ PageOf(first) + i * FRAME_SIZE < first + len
                                /\ PageOf(a) = PageOf(PageOf(first) + i * FRAME_SIZE)
    <2> DEFINE p == a \div FRAME_SIZE
    <2>1. /\ a \in Nat /\ p \in Nat /\ PageOf(a) = p * FRAME_SIZE
          /\ PageOf(a) \in Nat /\ PageOf(a) <= a /\ a < PageOf(a) + FRAME_SIZE
      <3>1. a \in Nat
        BY SMT
      <3> QED
        BY <3>1, Division
    <2> HIDE DEF p
    <2>2. p >= q
      <3>1. CASE p < q
        <4>1. (p + 1) * FRAME_SIZE <= q * FRAME_SIZE
          BY <1>1, <2>1, <3>1, FrameSizeAssumption, SMT
        <4>2. (p + 1) * FRAME_SIZE = p * FRAME_SIZE + FRAME_SIZE
          BY <2>1, FrameSizeAssumption, SMT
        <4> QED
          BY <1>1, <2>1, <4>1, <4>2, FrameSizeAssumption, SMT
      <3> QED
        BY <1>1, <2>1, <3>1, SMT
    <2> DEFINE i == p - q
    <2>3. i \in Nat /\ i * FRAME_SIZE = p * FRAME_SIZE - q * FRAME_SIZE
      BY <1>1, <2>1, <2>2, FrameSizeAssumption, SMT
    <2>4. PageOf(first) + i * FRAME_SIZE = PageOf(a)
      BY <1>1, <2>1, <2>3, FrameSizeAssumption, SMT
    <2>5. PageOf(PageOf(a)) = PageOf(a)
      <3>1. PageOf(a) = p * FRAME_SIZE + 0 /\ 0 \in 0..(FRAME_SIZE - 1)
        BY <2>1, FrameSizeAssumption, SMT
      <3> QED
        BY <2>1, <3>1, PageIs
    <2>6. i <= a - first
      <3>1. CASE i = 0
        BY <3>1, SMT
      <3>2. CASE i # 0
        <4>1. (i - 1) * FRAME_SIZE >= i - 1
          BY <2>3, <3>2, FrameSizeAssumption, SMT
        <4>2. (i - 1) * FRAME_SIZE = i * FRAME_SIZE - FRAME_SIZE
          BY <2>3, FrameSizeAssumption, SMT
        <4>3. PageOf(a) >= first + (i - 1) + 1
          BY <1>1, <2>3, <2>4, <4>1, <4>2, FrameSizeAssumption, SMT
        <4> QED
          BY <2>1, <2>3, <4>3, SMT
      <3> QED
        BY <3>1, <3>2
    <2>7. i \in 0..len
      BY <2>3, <2>6, SMT
    <2> HIDE DEF i
    <2>8. PageOf(first) + i * FRAME_SIZE < first + len
      BY <2>1, <2>4, SMT
    <2> QED
      BY <2>4, <2>5, <2>7, <2>8
  <1> QED
    BY <1>2, <1>3

\* validate_user_range accepts a range exactly when each of its bytes is the user's and may
\* be used as asked, in any address space and for any two numbers.
LEMMA RangeExact ==
    ASSUME NEW pages, NEW first \in Nat, NEW len \in Nat, NEW writable
    PROVE  validate_user_range(pages, first, len, writable) <=>
               /\ first < USER_SPACE_END
               /\ \A a \in first..(first + len - 1) :
                     a < USER_SPACE_END /\ Allowed(pages, a, writable)
  <1>1. \A a, b : PageOf(a) = PageOf(b) => (Allowed(pages, a, writable) <=> Allowed(pages, b, writable))
    BY DEF Allowed
  <1>2. CASE len = 0
    <2>1. first..(first + len - 1) = {} /\ first + len = first
      BY <1>2, SMT
    <2> QED
      BY <1>2, <2>1, AddressAssumption, SMT DEF validate_user_range
  <1>3. CASE len # 0
    <2>1. (first < USER_SPACE_END /\ first + len <= USER_SPACE_END /\ first + len <= USIZE_MAX)
              <=> (first < USER_SPACE_END /\ \A a \in first..(first + len - 1) : a < USER_SPACE_END)
      <3>1. first + len - 1 \in first..(first + len - 1)
        BY <1>3, SMT
      <3> QED
        BY <3>1, AddressAssumption, SMT
    <2>2. (\A i \in 0..len : PageOf(first) + i * FRAME_SIZE < first + len =>
                Allowed(pages, PageOf(first) + i * FRAME_SIZE, writable))
              <=> (\A a \in first..(first + len - 1) : Allowed(pages, a, writable))
      BY <1>1, <1>3, RangePages, SMT
    <2> QED
      BY <1>3, <2>1, <2>2 DEF validate_user_range
  <1> QED
    BY <1>2, <1>3

\* For every page size and every end of user space, the kernel accepts exactly the buffers
\* whose bytes the caller may use itself (user.rs, validate_user_range).
THEOREM UserRangeIsExact == SystemSpec => []UserRangeExact
  <1>1. UserRangeExact
    <2> SUFFICES ASSUME NEW first \in 0..USIZE_MAX, NEW writable \in BOOLEAN,
                        NEW len \in 0..(2 * FRAME_SIZE + 1) \cup {USIZE_MAX}
                 PROVE  validate_user_range(loader.pages, first, len, writable) <=>
                            /\ first < USER_SPACE_END
                            /\ \A a \in first..(first + len - 1) :
                                  a < USER_SPACE_END /\ Allowed(loader.pages, a, writable)
      BY DEF UserRangeExact
    <2>1. first \in Nat /\ len \in Nat
      BY AddressAssumption, FrameSizeAssumption, SMT
    <2> QED
      BY <2>1, RangeExact
  <1> QED
    BY <1>1, PTL

-----------------------------------------------------------------------------
(* The bytes of a page.                                                    *)

\* The byte that segment s puts at address a; zero beyond its data.
SegmentByte(s, base, a) ==
    IF s.address <= a /\ a < s.address + s.file_size THEN base + s.offset + a - s.address ELSE Zero

SegmentBytes(s, base, page) == [b \in 0..(FRAME_SIZE - 1) |-> SegmentByte(s, base, page + b)]

LEMMA KernelPage ==
    ASSUME NEW s, s.address \in Nat, s.file_size \in Nat, s.offset \in Nat,
           NEW base \in Int, NEW page \in Nat
    PROVE  load_page(s, base, page) = SegmentBytes(s, base, page)
  <1> USE FrameSizeAssumption
  <1> DEFINE copy_start == Lesser(Greater(page, s.address), page + FRAME_SIZE)
             copy_end == Greater(Lesser(page + FRAME_SIZE, s.address + s.file_size), copy_start)
             prefix == copy_start - page
             copied == copy_end - copy_start
  <1>1. /\ prefix \in Nat /\ copied \in Nat /\ prefix + copied <= FRAME_SIZE
        /\ copy_start \in Nat /\ prefix = copy_start - page
    BY SMT DEF Lesser, Greater
  <1>2. \A b \in 0..(FRAME_SIZE - 1) :
           prefix <= b /\ b < prefix + copied <=> s.address <= page + b /\ page + b < s.address + s.file_size
    BY SMT DEF Lesser, Greater
  <1>3. load_page(s, base, page) =
           [b \in 0..(FRAME_SIZE - 1) |->
               IF prefix + copied <= b /\ b < prefix + copied + (FRAME_SIZE - prefix - copied) THEN Zero
               ELSE IF prefix <= b /\ b < prefix + copied
                    THEN base + s.offset + copy_start - s.address + b - prefix
                    ELSE IF 0 <= b /\ b < 0 + prefix THEN Zero ELSE Stale]
    BY DEF load_page, CopyStart, CopyEnd, Written, Blank
  <1> HIDE DEF copy_start, copy_end, prefix, copied
  <1>4. ASSUME NEW b \in 0..(FRAME_SIZE - 1)
        PROVE  (IF prefix + copied <= b /\ b < prefix + copied + (FRAME_SIZE - prefix - copied) THEN Zero
               ELSE IF prefix <= b /\ b < prefix + copied
                    THEN base + s.offset + copy_start - s.address + b - prefix
                    ELSE IF 0 <= b /\ b < 0 + prefix THEN Zero ELSE Stale) = SegmentByte(s, base, page + b)
    BY <1>1, <1>2, SMT DEF SegmentByte
  <1> QED
    BY <1>3, <1>4 DEF SegmentBytes

LEMMA OmegaPage ==
    ASSUME NEW s, s.address \in Nat, s.file_size \in Nat, s.offset \in Nat,
           NEW base \in Int, NEW page \in Nat
    PROVE  omega_load_page(s, base, page) = SegmentBytes(s, base, page)
  <1> USE FrameSizeAssumption
  <1> DEFINE copy_start == Lesser(Greater(page, s.address), page + FRAME_SIZE)
             copy_end == Greater(Lesser(page + FRAME_SIZE, s.address + s.file_size), copy_start)
             file_offset == base + s.offset + (copy_start - s.address)
             page_offset == copy_start - page
  <1>1. /\ page_offset \in Nat /\ copy_start \in Nat /\ copy_end \in Nat
    BY SMT DEF Lesser, Greater
  <1>2. \A b \in 0..(FRAME_SIZE - 1) :
           page_offset <= b /\ b < page_offset + (copy_end - copy_start) <=> s.address <= page + b /\ page + b < s.address + s.file_size
    BY SMT DEF Lesser, Greater
  <1>3. omega_load_page(s, base, page) =
           IF copy_end > copy_start
           THEN [b \in 0..(FRAME_SIZE - 1) |->
                    IF page_offset <= b /\ b < page_offset + (copy_end - copy_start)
                    THEN file_offset + b - page_offset ELSE Blank(Zero)[b]]
           ELSE Blank(Zero)
    BY DEF omega_load_page, CopyStart, CopyEnd, Written
  <1>4. \A b \in 0..(FRAME_SIZE - 1) : file_offset + b - page_offset = base + s.offset + (page + b) - s.address
    BY <1>1, SMT
  <1> HIDE DEF copy_end, file_offset
  <1>5. CASE copy_end > copy_start
    BY <1>2, <1>3, <1>4, <1>5 DEF SegmentByte, SegmentBytes, Blank
  <1>6. CASE ~(copy_end > copy_start)
    <2>1. ASSUME NEW b \in 0..(FRAME_SIZE - 1)
          PROVE  SegmentByte(s, base, page + b) = Zero
      BY <1>1, <1>2, <1>6, SMT DEF SegmentByte
    <2> QED
      BY <1>3, <1>6, <2>1 DEF SegmentBytes, Blank
  <1> QED
    BY <1>5, <1>6

-----------------------------------------------------------------------------
(* The pages of a segment.                                                 *)

LEMMA SamePage ==
    ASSUME NEW a \in Nat, NEW b \in Nat, PageOf(a) <= b, b < PageOf(a) + FRAME_SIZE
    PROVE  PageOf(b) = PageOf(a)
  <1> DEFINE q == a \div FRAME_SIZE
             r == b - PageOf(a)
  <1>1. q \in Nat /\ PageOf(a) = q * FRAME_SIZE /\ PageOf(a) \in Nat
    BY Division
  <1>2. r \in 0..(FRAME_SIZE - 1) /\ b = q * FRAME_SIZE + r
    <2> HIDE DEF q
    <2> QED
      BY <1>1, FrameSizeAssumption, SMT
  <1> HIDE DEF q, r
  <1> QED
    BY <1>1, <1>2, PageIs

LEMMA NextPage ==
    ASSUME NEW a \in Nat
    PROVE  PageOf(a) + FRAME_SIZE \in Nat /\ PageOf(PageOf(a) + FRAME_SIZE) = PageOf(a) + FRAME_SIZE
  <1> DEFINE q == a \div FRAME_SIZE
  <1>1. q \in Nat /\ PageOf(a) = q * FRAME_SIZE /\ PageOf(a) \in Nat
    BY Division
  <1> HIDE DEF q
  <1>2. q + 1 \in Nat /\ 0 \in 0..(FRAME_SIZE - 1) /\ PageOf(a) + FRAME_SIZE = (q + 1) * FRAME_SIZE
    BY <1>1, FrameSizeAssumption, SMT
  <1>3. (q + 1) * FRAME_SIZE + 0 = (q + 1) * FRAME_SIZE
    BY <1>2, FrameSizeAssumption, SMT
  <1> QED
    BY <1>2, <1>3, PageIs

LEMMA PagesApart ==
    ASSUME NEW a \in Nat, NEW b \in Nat, PageOf(a) < PageOf(b)
    PROVE  PageOf(a) + FRAME_SIZE <= PageOf(b)
  <1>1. PageOf(a) \in Nat /\ PageOf(b) \in Nat /\ PageOf(b) <= b /\ b < PageOf(b) + FRAME_SIZE
    BY Division
  <1>2. CASE PageOf(b) < PageOf(a) + FRAME_SIZE
    <2>1. PageOf(a) <= PageOf(b)
      BY <1>1, SMT
    <2>2. PageOf(PageOf(b)) = PageOf(a)
      BY <1>1, <1>2, <2>1, SamePage
    <2>3. PageOf(b) < PageOf(b) + FRAME_SIZE /\ PageOf(b) <= PageOf(b)
      BY <1>1, FrameSizeAssumption, SMT
    <2>4. PageOf(PageOf(b)) = PageOf(b)
      BY <1>1, <2>3, SamePage
    <2> QED
      BY <1>1, <2>2, <2>4, SMT
  <1> QED
    BY <1>1, <1>2, FrameSizeAssumption, SMT

\* A segment begins in its first page, goes on to the next page while there is one, and
\* has no pages but these.
Sized(s) == s.address \in Nat /\ s.memory_size \in Nat

LEMMA SegmentPage ==
    ASSUME NEW s, Sized(s), NEW p \in PagesOf(s)
    PROVE  /\ p \in Nat /\ PageOf(p) = p
           /\ \A b \in 0..(FRAME_SIZE - 1) : p + b \in Nat /\ PageOf(p + b) = p
           /\ \E a \in Nat : a >= s.address /\ a < s.address + s.memory_size /\ p = PageOf(a)
                             /\ p <= a /\ a < p + FRAME_SIZE
  <1>1. PICK a \in s.address..(s.address + s.memory_size - 1) : p = PageOf(a)
    BY DEF PagesOf
  <1>2. a \in Nat /\ a >= s.address /\ a < s.address + s.memory_size
    BY SMT DEF Sized
  <1>3. p \in Nat /\ p <= a /\ a < p + FRAME_SIZE
    BY <1>1, <1>2, Division
  <1>4. ASSUME NEW b \in 0..(FRAME_SIZE - 1)
        PROVE  p + b \in Nat /\ PageOf(p + b) = p
    <2>1. p + b \in Nat /\ PageOf(a) <= p + b /\ p + b < PageOf(a) + FRAME_SIZE
      BY <1>1, <1>3, FrameSizeAssumption, SMT
    <2> QED
      BY <1>1, <1>2, <2>1, SamePage
  <1>5. 0 \in 0..(FRAME_SIZE - 1) /\ p + 0 = p
    BY <1>3, FrameSizeAssumption, SMT
  <1> QED
    BY <1>1, <1>2, <1>3, <1>4, <1>5

LEMMA FirstPage ==
    ASSUME NEW s, Sized(s), s.memory_size > 0
    PROVE  /\ PageOf(s.address) \in PagesOf(s)
           /\ \A p \in PagesOf(s) : ~(p < PageOf(s.address))
  <1>1. s.address \in s.address..(s.address + s.memory_size - 1) /\ s.address \in Nat
    BY SMT DEF Sized
  <1>2. ASSUME NEW p \in PagesOf(s), p < PageOf(s.address)
        PROVE  FALSE
    <2>1. PICK a \in Nat : a >= s.address /\ p = PageOf(a) /\ a < p + FRAME_SIZE
      BY SegmentPage
    <2>2. p + FRAME_SIZE <= PageOf(s.address)
      BY <1>1, <1>2, <2>1, PagesApart
    <2>3. PageOf(s.address) \in Nat /\ PageOf(s.address) <= s.address
      BY <1>1, Division
    <2>4. p \in Nat
      BY SegmentPage
    <2> QED
      BY <1>1, <2>1, <2>2, <2>3, <2>4, FrameSizeAssumption, SMT
  <1> QED
    BY <1>1, <1>2 DEF PagesOf

LEMMA FollowingPage ==
    ASSUME NEW s, Sized(s), NEW page \in PagesOf(s)
    PROVE  /\ \A p \in PagesOf(s) : p < page + FRAME_SIZE <=> p < page \/ p = page
           /\ page + FRAME_SIZE < s.address + s.memory_size => page + FRAME_SIZE \in PagesOf(s)
           /\ ~(page + FRAME_SIZE < s.address + s.memory_size) =>
                 \A p \in PagesOf(s) : p < page + FRAME_SIZE
  <1>1. page \in Nat /\ PageOf(page) = page
    BY SegmentPage
  <1>2. ASSUME NEW p \in PagesOf(s)
        PROVE  /\ p < page + FRAME_SIZE <=> p < page \/ p = page
               /\ p < s.address + s.memory_size
    <2>1. p \in Nat /\ PageOf(p) = p
      BY SegmentPage
    <2>2. page < p => page + FRAME_SIZE <= p
      BY <1>1, <2>1, PagesApart
    <2>3. p < s.address + s.memory_size
      <3>1. PICK a \in Nat : a < s.address + s.memory_size /\ p <= a
        BY SegmentPage
      <3> QED
        BY <2>1, <3>1, SMT DEF Sized
    <2> QED
      BY <1>1, <2>1, <2>2, <2>3, FrameSizeAssumption, SMT
  <1>3. ASSUME page + FRAME_SIZE < s.address + s.memory_size
        PROVE  page + FRAME_SIZE \in PagesOf(s)
    <2>1. page + FRAME_SIZE \in Nat /\ PageOf(page + FRAME_SIZE) = page + FRAME_SIZE
      BY <1>1, NextPage
    <2>2. PICK a \in Nat : a >= s.address /\ a < page + FRAME_SIZE
      BY SegmentPage
    <2>3. page + FRAME_SIZE \in s.address..(s.address + s.memory_size - 1)
      BY <1>3, <2>1, <2>2, SMT DEF Sized
    <2> QED
      BY <2>1, <2>3 DEF PagesOf
  <1>4. ASSUME ~(page + FRAME_SIZE < s.address + s.memory_size), NEW p \in PagesOf(s)
        PROVE  p < page + FRAME_SIZE
    <2>1. p \in Nat /\ p < s.address + s.memory_size
      BY <1>2, SegmentPage
    <2> QED
      BY <1>1, <1>4, <2>1, FrameSizeAssumption, SMT DEF Sized
  <1> QED
    BY <1>2, <1>3, <1>4

-----------------------------------------------------------------------------
(* What a loader has done so far.                                          *)

\* The pages of segment i that a loader has mapped; inside, it is among the pages of a segment.
PagesDone(ld, inside, i) ==
    {p \in PagesOf(ld.image.segments[i]) : i < ld.segment \/ (inside /\ i = ld.segment /\ p < ld.page)}

\* Page p as segment s of the file wants it.
SegmentPageOf(ld, s, p) == Page(SegmentBytes(s, ld.file.start, p), s.writable, s.executable)

LoaderFields == {"name", "file", "image", "segment", "page", "pages", "scratch", "executable_entry"}

LoaderTypes(ld) ==
    /\ DOMAIN ld = LoaderFields
    /\ ld.image.segments \in Seq(ProgramHeader)
    /\ ld.file.start \in Int /\ ld.segment \in Nat /\ ld.segment >= 1

\* The pages are the reserved ones and those of the segments so far, all different, with
\* the contents and the permissions that the file asks for.
PagesAre(ld, reserved, inside) ==
    \A p : p \in DOMAIN ld.pages <=> p \in reserved \/ \E i \in Loaded(ld.image) : p \in PagesDone(ld, inside, i)

ContentsAre(ld, reserved, inside) ==
    \A i \in Loaded(ld.image) : \A p \in PagesDone(ld, inside, i) :
        /\ p \notin reserved
        /\ ld.pages[p] = SegmentPageOf(ld, ld.image.segments[i], p)
        /\ \A j \in Loaded(ld.image) \ {i} : p \notin PagesDone(ld, inside, j)

FitsMemory(s) == s.file_size <= s.memory_size /\ (s.memory_size > 0 => s.address + s.memory_size <= USER_SPACE_END)

SegmentsFit(ld) ==
    \A i \in DOMAIN ld.image.segments :
        i < ld.segment /\ ld.image.segments[i].type = "Load" => FitsMemory(ld.image.segments[i])

LoadedSo(ld, reserved, inside) ==
    /\ LoaderTypes(ld)
    /\ PagesAre(ld, reserved, inside)
    /\ ContentsAre(ld, reserved, inside)
    /\ SegmentsFit(ld)
    /\ inside => ld.segment \in Loaded(ld.image) /\ ld.page \in PagesOf(ld.image.segments[ld.segment])

LEMMA SegmentTypes ==
    ASSUME NEW ld, LoaderTypes(ld), NEW i \in DOMAIN ld.image.segments
    PROVE  /\ Sized(ld.image.segments[i]) /\ i \in Nat /\ i >= 1 /\ i <= Len(ld.image.segments)
           /\ ld.image.segments[i].file_size \in Nat /\ ld.image.segments[i].offset \in Nat
  <1>1. ld.image.segments[i] \in ProgramHeader /\ i \in 1..Len(ld.image.segments)
        /\ Len(ld.image.segments) \in Nat
    BY SMT DEF LoaderTypes
  <1>2. i \in Nat /\ i >= 1 /\ i <= Len(ld.image.segments)
    BY <1>1, SMT
  <1> QED
    BY <1>1, <1>2 DEF ProgramHeader, Sized

LEMMA SkipSegment ==
    ASSUME NEW reserved, LoadedSo(loader, reserved, FALSE), loader' = Skipped,
           loader.segment \notin Loaded(loader.image),
           loader.segment \in DOMAIN loader.image.segments,
           Segment.type = "Load" => Segment.file_size <= Segment.memory_size
    PROVE  LoadedSo(loader', reserved, FALSE)
  <1>1. LoaderTypes(loader)
    BY DEF LoadedSo
  <1>2. /\ loader'.image = loader.image /\ loader'.file = loader.file /\ loader'.pages = loader.pages
        /\ loader'.segment = loader.segment + 1 /\ DOMAIN loader' = LoaderFields
    BY <1>1 DEF Skipped, LoaderTypes, LoaderFields
  <1>3. LoaderTypes(loader')
    <2>1. loader.segment + 1 \in Nat /\ loader.segment + 1 >= 1
      BY <1>1, SMT DEF LoaderTypes
    <2> QED
      BY <1>1, <1>2, <2>1 DEF LoaderTypes
  <1>4. \A i \in DOMAIN loader.image.segments : i < loader'.segment <=> i < loader.segment \/ i = loader.segment
    <2> SUFFICES ASSUME NEW i \in DOMAIN loader.image.segments
                 PROVE  i < loader'.segment <=> i < loader.segment \/ i = loader.segment
      OBVIOUS
    <2>1. i \in Nat /\ loader.segment \in Nat
      BY <1>1, SegmentTypes DEF LoaderTypes
    <2> QED
      BY <1>2, <2>1, SMT
  <1>5. \A i \in Loaded(loader.image) : PagesDone(loader', FALSE, i) = PagesDone(loader, FALSE, i)
    BY <1>2, <1>4 DEF PagesDone, Loaded
  <1>6. ~(Segment.type = "Load" /\ Segment.memory_size > 0)
    BY DEF Loaded, Segment
  <1>7. SegmentsFit(loader')
    BY <1>2, <1>4, <1>6 DEF LoadedSo, SegmentsFit, FitsMemory, Segment
  <1>8. PagesAre(loader', reserved, FALSE)
    BY <1>2, <1>5 DEF LoadedSo, PagesAre
  <1>9. ContentsAre(loader', reserved, FALSE)
    <2> SUFFICES ASSUME NEW i \in Loaded(loader'.image), NEW p \in PagesDone(loader', FALSE, i)
                 PROVE  /\ p \notin reserved
                        /\ loader'.pages[p] = SegmentPageOf(loader', loader'.image.segments[i], p)
                        /\ \A j \in Loaded(loader'.image) \ {i} : p \notin PagesDone(loader', FALSE, j)
      BY DEF ContentsAre
    <2>1. /\ Loaded(loader'.image) = Loaded(loader.image) /\ i \in Loaded(loader.image)
          /\ SegmentPageOf(loader', loader'.image.segments[i], p) = SegmentPageOf(loader, loader.image.segments[i], p)
      BY <1>2 DEF SegmentPageOf
    <2>2. p \in PagesDone(loader, FALSE, i)
      BY <1>5, <2>1
    <2> QED
      BY <1>2, <1>5, <2>1, <2>2 DEF LoadedSo, ContentsAre
  <1> QED
    BY <1>3, <1>7, <1>8, <1>9 DEF LoadedSo

LEMMA BeginSegment ==
    ASSUME NEW reserved, LoadedSo(loader, reserved, FALSE),
           loader.segment \in Loaded(loader.image), loader'.page = PageOf(Segment.address),
           loader'.image = loader.image, loader'.file = loader.file, loader'.pages = loader.pages,
           loader'.segment = loader.segment, DOMAIN loader' = LoaderFields
    PROVE  LoadedSo(loader', reserved, TRUE)
  <1>1. LoaderTypes(loader) /\ LoaderTypes(loader')
    BY DEF LoadedSo, LoaderTypes
  <1>2. loader.segment \in DOMAIN loader.image.segments /\ Segment.memory_size > 0
    BY DEF Loaded, Segment
  <1>3. Sized(Segment)
    BY <1>1, <1>2, SegmentTypes DEF Segment
  <1>4. loader'.page \in PagesOf(Segment) /\ \A p \in PagesOf(Segment) : ~(p < loader'.page)
    BY <1>2, <1>3, FirstPage
  <1>5. \A i \in Loaded(loader.image) : PagesDone(loader', TRUE, i) = PagesDone(loader, FALSE, i)
    BY <1>4 DEF PagesDone, Segment
  <1>6. PagesAre(loader', reserved, TRUE)
    BY <1>5 DEF LoadedSo, PagesAre
  <1>7. ContentsAre(loader', reserved, TRUE)
    BY <1>5 DEF LoadedSo, ContentsAre, SegmentPageOf
  <1>8. SegmentsFit(loader')
    BY DEF LoadedSo, SegmentsFit
  <1> QED
    BY <1>1, <1>4, <1>6, <1>7, <1>8 DEF LoadedSo, Segment

\* One page more, with what the segment puts there.
LEMMA MapPage ==
    ASSUME NEW reserved, LoadedSo(loader, reserved, TRUE), loader.page \notin DOMAIN loader.pages,
           loader' = Mapped(SegmentPageOf(loader, Segment, loader.page)),
           Segment.file_size <= Segment.memory_size,
           ~(loader.page + FRAME_SIZE < SegmentEnd) => SegmentEnd <= USER_SPACE_END
    PROVE  LoadedSo(loader', reserved, loader'.segment = loader.segment)
  <1> DEFINE more == loader.page + FRAME_SIZE < SegmentEnd
             same == loader'.segment = loader.segment
             new == SegmentPageOf(loader, Segment, loader.page)
  <1>1. LoaderTypes(loader) /\ DOMAIN loader = LoaderFields
    BY DEF LoadedSo, LoaderTypes
  <1>2. /\ loader'.image = loader.image /\ loader'.file = loader.file /\ DOMAIN loader' = LoaderFields
        /\ loader'.pages = [p \in DOMAIN loader.pages \cup {loader.page} |->
                               IF p = loader.page THEN new ELSE loader.pages[p]]
        /\ loader'.page = IF more THEN loader.page + FRAME_SIZE ELSE 0
        /\ loader'.segment = IF more THEN loader.segment ELSE loader.segment + 1
    BY <1>1 DEF Mapped, LoaderFields
  <1> HIDE DEF new
  <1>3. /\ loader.segment \in Nat /\ loader.segment \in DOMAIN loader.image.segments
        /\ Sized(Segment) /\ loader.page \in PagesOf(Segment) /\ loader.segment \in Loaded(loader.image)
    BY <1>1, SegmentTypes DEF LoadedSo, LoaderTypes, Loaded, Segment
  <1>4. loader.segment + 1 \in Nat /\ loader.segment + 1 >= 1 /\ (same <=> more)
    BY <1>2, <1>3, SMT
  <1>5. LoaderTypes(loader')
    BY <1>1, <1>2, <1>3, <1>4 DEF LoaderTypes
  <1>6. \A i \in DOMAIN loader.image.segments :
           i < loader'.segment <=> i < loader.segment \/ (~more /\ i = loader.segment)
    <2> SUFFICES ASSUME NEW i \in DOMAIN loader.image.segments
                 PROVE  i < loader'.segment <=> i < loader.segment \/ (~more /\ i = loader.segment)
      OBVIOUS
    <2>1. i \in Nat
      BY <1>1, SegmentTypes
    <2> QED
      BY <1>2, <1>3, <2>1, SMT
  <1>7. /\ \A p \in PagesOf(Segment) : p < loader.page + FRAME_SIZE <=> p < loader.page \/ p = loader.page
        /\ more => loader.page + FRAME_SIZE \in PagesOf(Segment)
        /\ ~more => \A p \in PagesOf(Segment) : p < loader.page + FRAME_SIZE
    BY <1>3, FollowingPage DEF SegmentEnd
  <1>8. \A i \in Loaded(loader.image) : \A p :
           p \in PagesDone(loader', same, i) <=>
               p \in PagesDone(loader, TRUE, i) \/ (i = loader.segment /\ p = loader.page)
    <2> SUFFICES ASSUME NEW i \in Loaded(loader.image), NEW p
                 PROVE  p \in PagesDone(loader', same, i) <=>
                            p \in PagesDone(loader, TRUE, i) \/ (i = loader.segment /\ p = loader.page)
      OBVIOUS
    <2>1. i \in DOMAIN loader.image.segments
      BY DEF Loaded
    <2>2. CASE i # loader.segment
      BY <1>2, <1>4, <1>6, <2>1, <2>2 DEF PagesDone
    <2>3. CASE i = loader.segment /\ more
      <3>1. ~(i < loader.segment)
        BY <1>3, <2>3, SMT
      <3>2. p \in PagesDone(loader', same, i) <=> p \in PagesOf(Segment) /\ p < loader.page + FRAME_SIZE
        BY <1>2, <1>4, <1>6, <2>1, <2>3, <3>1 DEF PagesDone, Segment
      <3>3. p \in PagesDone(loader, TRUE, i) <=> p \in PagesOf(Segment) /\ p < loader.page
        BY <2>3, <3>1 DEF PagesDone, Segment
      <3> QED
        BY <1>3, <1>7, <2>3, <3>2, <3>3
    <2>4. CASE i = loader.segment /\ ~more
      <3>1. ~(i < loader.segment)
        BY <1>3, <2>4, SMT
      <3>2. p \in PagesDone(loader', same, i) <=> p \in PagesOf(Segment)
        BY <1>2, <1>6, <2>1, <2>4 DEF PagesDone, Segment
      <3>3. p \in PagesDone(loader, TRUE, i) <=> p \in PagesOf(Segment) /\ p < loader.page
        BY <2>4, <3>1 DEF PagesDone, Segment
      <3> QED
        BY <1>3, <1>7, <2>4, <3>2, <3>3
    <2> QED
      BY <2>2, <2>3, <2>4
  <1> HIDE DEF same
  <1>9. PagesAre(loader', reserved, same)
    <2>1. \A p : p \in DOMAIN loader'.pages <=> p \in DOMAIN loader.pages \/ p = loader.page
      BY <1>2
    <2>2. \A p : p \in DOMAIN loader.pages <=>
                    p \in reserved \/ \E i \in Loaded(loader.image) : p \in PagesDone(loader, TRUE, i)
      BY DEF LoadedSo, PagesAre
    <2> QED
      BY <1>2, <1>3, <1>8, <2>1, <2>2 DEF PagesAre
  <1>10. ContentsAre(loader', reserved, same)
    <2> SUFFICES ASSUME NEW i \in Loaded(loader'.image), NEW p \in PagesDone(loader', same, i)
                 PROVE  /\ p \notin reserved
                        /\ loader'.pages[p] = SegmentPageOf(loader', loader'.image.segments[i], p)
                        /\ \A j \in Loaded(loader'.image) \ {i} : p \notin PagesDone(loader', same, j)
      BY DEF ContentsAre
    <2>1. /\ Loaded(loader'.image) = Loaded(loader.image) /\ i \in Loaded(loader.image)
          /\ SegmentPageOf(loader', loader'.image.segments[i], p) = SegmentPageOf(loader, loader.image.segments[i], p)
      BY <1>2 DEF SegmentPageOf
    <2>2. \A q, j : j \in Loaded(loader.image) /\ q \in PagesDone(loader, TRUE, j) => q \in DOMAIN loader.pages
      BY DEF LoadedSo, PagesAre
    <2>3. CASE p = loader.page
      <3>1. p \notin DOMAIN loader.pages
        BY <2>3
      <3>2. i = loader.segment /\ p \notin reserved
        BY <1>8, <2>1, <2>2, <3>1 DEF LoadedSo, PagesAre
      <3>3. loader'.pages[p] = SegmentPageOf(loader, loader.image.segments[i], p)
        BY <1>2, <2>3, <3>2 DEF new, Segment
      <3> QED
        BY <1>8, <2>1, <2>2, <3>1, <3>2, <3>3
    <2>4. CASE p # loader.page
      <3>1. p \in PagesDone(loader, TRUE, i)
        BY <1>8, <2>1, <2>4
      <3>2. loader'.pages[p] = loader.pages[p]
        BY <1>2, <2>2, <2>4, <3>1
      <3> QED
        <4>1. /\ p \notin reserved /\ loader.pages[p] = SegmentPageOf(loader, loader.image.segments[i], p)
              /\ \A j \in Loaded(loader.image) \ {i} : p \notin PagesDone(loader, TRUE, j)
          BY <2>1, <3>1 DEF LoadedSo, ContentsAre
        <4> QED
          BY <1>8, <2>1, <2>4, <3>2, <4>1
    <2> QED
      BY <2>3, <2>4
  <1>11. SegmentsFit(loader')
    <2>1. ~more => FitsMemory(Segment)
      BY DEF FitsMemory, SegmentEnd
    <2> QED
      BY <1>2, <1>6, <2>1 DEF LoadedSo, SegmentsFit, Segment
  <1>12. same => loader'.segment \in Loaded(loader'.image)
                 /\ loader'.page \in PagesOf(loader'.image.segments[loader'.segment])
    BY <1>2, <1>3, <1>4, <1>7 DEF Segment, same
  <1> QED
    BY <1>5, <1>9, <1>10, <1>11, <1>12 DEF LoadedSo, same

\* One page more that belongs to no segment.
LEMMA ReservePage ==
    ASSUME NEW reserved, LoadedSo(loader, reserved, FALSE), NEW q, q \notin DOMAIN loader.pages, NEW page,
           loader'.pages = [p \in DOMAIN loader.pages \cup {q} |-> IF p = q THEN page ELSE loader.pages[p]],
           loader'.image = loader.image, loader'.file = loader.file,
           loader'.segment = loader.segment, DOMAIN loader' = LoaderFields
    PROVE  LoadedSo(loader', reserved \cup {q}, FALSE)
  <1>1. LoaderTypes(loader') /\ SegmentsFit(loader')
    BY DEF LoadedSo, LoaderTypes, SegmentsFit
  <1>2. /\ Loaded(loader'.image) = Loaded(loader.image)
        /\ \A i : PagesDone(loader', FALSE, i) = PagesDone(loader, FALSE, i)
    BY DEF PagesDone
  <1>3. PagesAre(loader, reserved, FALSE) /\ ContentsAre(loader, reserved, FALSE)
    BY DEF LoadedSo
  <1>4. PagesAre(loader', reserved \cup {q}, FALSE)
    <2> SUFFICES ASSUME NEW p
                 PROVE  p \in DOMAIN loader'.pages <=>
                           p \in reserved \cup {q} \/ \E i \in Loaded(loader'.image) : p \in PagesDone(loader', FALSE, i)
      BY DEF PagesAre
    <2>1. p \in DOMAIN loader'.pages <=> p \in DOMAIN loader.pages \/ p = q
      OBVIOUS
    <2>2. p \in DOMAIN loader.pages <=> p \in reserved \/ \E i \in Loaded(loader.image) : p \in PagesDone(loader, FALSE, i)
      BY <1>3 DEF PagesAre
    <2> QED
      BY <1>2, <2>1, <2>2
  <1>5. ContentsAre(loader', reserved \cup {q}, FALSE)
    <2> SUFFICES ASSUME NEW i \in Loaded(loader'.image), NEW p \in PagesDone(loader', FALSE, i)
                 PROVE  /\ p \notin reserved \cup {q}
                        /\ loader'.pages[p] = SegmentPageOf(loader', loader'.image.segments[i], p)
                        /\ \A j \in Loaded(loader'.image) \ {i} : p \notin PagesDone(loader', FALSE, j)
      BY DEF ContentsAre
    <2>1. i \in Loaded(loader.image) /\ p \in PagesDone(loader, FALSE, i)
          /\ SegmentPageOf(loader', loader'.image.segments[i], p) = SegmentPageOf(loader, loader.image.segments[i], p)
      BY <1>2 DEF SegmentPageOf
    <2>2. p \in DOMAIN loader.pages /\ p # q /\ loader'.pages[p] = loader.pages[p]
      <3>1. p \in DOMAIN loader.pages
        BY <1>3, <2>1 DEF PagesAre
      <3> QED
        BY <3>1
    <2> QED
      BY <1>2, <1>3, <2>1, <2>2 DEF ContentsAre
  <1> QED
    BY <1>1, <1>4, <1>5 DEF LoadedSo

\* A byte of a segment's data lies in a page of the segment, if the data fits.
LEMMA CoveredPage ==
    ASSUME NEW s, Sized(s), s.file_size \in Nat, s.file_size <= s.memory_size,
           NEW a \in Nat, s.address <= a, a < s.address + s.file_size
    PROVE  s.memory_size > 0 /\ PageOf(a) \in PagesOf(s)
  <1>1. s.memory_size > 0 /\ a \in s.address..(s.address + s.memory_size - 1)
    BY SMT DEF Sized
  <1> QED
    BY <1>1 DEF PagesOf

\* After the last segment memory is what the file says.
LEMMA LoadedMatches ==
    ASSUME NEW reserved, LoadedSo(loader, reserved, FALSE),
           loader.segment > Len(loader.image.segments)
    PROVE  LET image == loader.image
               loaded == DOMAIN loader.pages \ reserved
           IN  /\ Fits(image, reserved)
               /\ loaded = UNION {PagesOf(image.segments[i]) : i \in Loaded(image)}
               /\ \A p \in loaded, b \in 0..(FRAME_SIZE - 1) :
                     loader.pages[p].bytes[b] = FileByte(image, loader.file.start, p + b)
               /\ \A i \in Loaded(image) : \A p \in PagesOf(image.segments[i]) :
                     /\ loader.pages[p].writable = image.segments[i].writable
                     /\ loader.pages[p].executable = image.segments[i].executable
  <1> DEFINE image == loader.image
             seg(i) == image.segments[i]
             loaded == DOMAIN loader.pages \ reserved
  <1>1. LoaderTypes(loader) /\ PagesAre(loader, reserved, FALSE) /\ ContentsAre(loader, reserved, FALSE)
        /\ SegmentsFit(loader)
    BY DEF LoadedSo
  <1>2. \A i \in DOMAIN image.segments : i < loader.segment /\ Sized(seg(i)) /\ seg(i).file_size \in Nat
    <2> SUFFICES ASSUME NEW i \in DOMAIN image.segments
                 PROVE  i < loader.segment /\ Sized(seg(i)) /\ seg(i).file_size \in Nat
      OBVIOUS
    <2>1. /\ i \in Nat /\ i <= Len(image.segments) /\ Sized(seg(i)) /\ seg(i).file_size \in Nat
          /\ Len(image.segments) \in Nat /\ loader.segment \in Nat
      <3>1. Len(image.segments) \in Nat
        BY <1>1, SMT DEF LoaderTypes
      <3> QED
        BY <1>1, <3>1, SegmentTypes DEF LoaderTypes
    <2> QED
      BY <2>1, SMT
  <1>3. \A i \in Loaded(image) : i \in DOMAIN image.segments /\ seg(i).type = "Load" /\ seg(i).memory_size > 0
    BY DEF Loaded
  <1>4. \A i \in Loaded(image) : PagesDone(loader, FALSE, i) = PagesOf(seg(i))
    BY <1>2, <1>3 DEF PagesDone
  <1>5. ASSUME NEW i \in Loaded(image), NEW p \in PagesOf(seg(i))
        PROVE  /\ p \in DOMAIN loader.pages /\ p \notin reserved
               /\ loader.pages[p] = SegmentPageOf(loader, seg(i), p)
               /\ \A j \in Loaded(image) \ {i} : p \notin PagesOf(seg(j))
    <2>1. p \in PagesDone(loader, FALSE, i)
      BY <1>4
    <2>2. p \in DOMAIN loader.pages
      BY <1>1, <2>1 DEF PagesAre
    <2>3. /\ p \notin reserved /\ loader.pages[p] = SegmentPageOf(loader, seg(i), p)
          /\ \A j \in Loaded(image) \ {i} : p \notin PagesDone(loader, FALSE, j)
      BY <1>1, <2>1 DEF ContentsAre
    <2> QED
      BY <1>4, <2>2, <2>3
  <1>6. \A p \in loaded : \E i \in Loaded(image) : p \in PagesOf(seg(i))
    BY <1>1, <1>4 DEF PagesAre
  <1>7. Fits(image, reserved)
    <2>1. ASSUME NEW i \in Loaded(image)
          PROVE  seg(i).address + seg(i).memory_size <= USER_SPACE_END
      BY <1>1, <1>2, <1>3 DEF SegmentsFit, FitsMemory
    <2> QED
      BY <1>5, <2>1 DEF Fits
  <1>8. loaded = UNION {PagesOf(seg(i)) : i \in Loaded(image)}
    <2>1. ASSUME NEW p
          PROVE  p \in loaded <=> \E i \in Loaded(image) : p \in PagesOf(seg(i))
      BY <1>5, <1>6
    <2> HIDE DEF loaded
    <2> QED
      BY <2>1
  <1>9. ASSUME NEW p \in loaded, NEW b \in 0..(FRAME_SIZE - 1)
        PROVE  loader.pages[p].bytes[b] = FileByte(image, loader.file.start, p + b)
    <2>1. PICK i \in Loaded(image) : p \in PagesOf(seg(i))
      BY <1>6
    <2>2. p + b \in Nat /\ PageOf(p + b) = p
      BY <1>2, <1>3, <2>1, SegmentPage
    <2>3. loader.pages[p].bytes[b] = SegmentByte(seg(i), loader.file.start, p + b)
      <3>1. loader.pages[p].bytes = SegmentBytes(seg(i), loader.file.start, p)
        <4>1. loader.pages[p] = SegmentPageOf(loader, seg(i), p)
          BY <1>5, <2>1
        <4> QED
          BY <4>1, SMT DEF SegmentPageOf, Page
      <3> QED
        BY <3>1 DEF SegmentBytes
    <2> DEFINE a == p + b
               covers(s) == s.type = "Load" /\ s.address <= a /\ a < s.address + s.file_size
               found == {j \in DOMAIN image.segments : covers(seg(j))}
    <2>4. a \in Nat /\ PageOf(a) = p
      BY <2>2
    <2> HIDE DEF a
    <2>5. loader.pages[p].bytes[b] = SegmentByte(seg(i), loader.file.start, a)
      BY <2>3 DEF a
    <2>6. ASSUME NEW j \in found
          PROVE  j = i
      <3>1. seg(j).file_size <= seg(j).memory_size /\ Sized(seg(j)) /\ seg(j).file_size \in Nat
        BY <1>1, <1>2 DEF SegmentsFit, FitsMemory
      <3>2. j \in DOMAIN image.segments /\ covers(seg(j))
        OBVIOUS
      <3>3. seg(j).memory_size > 0 /\ p \in PagesOf(seg(j))
        BY <2>4, <3>1, <3>2, CoveredPage
      <3>4. j \in Loaded(image)
        BY <3>2, <3>3 DEF Loaded
      <3> QED
        BY <1>5, <2>1, <3>3, <3>4
    <2>7. FileByte(image, loader.file.start, a) =
             IF found = {} THEN Zero
             ELSE LET s == seg(CHOOSE j \in found : TRUE)
                  IN  loader.file.start + s.offset + a - s.address
      BY DEF FileByte
    <2>8. CASE found = {}
      <3>1. ~covers(seg(i))
        BY <1>3, <2>8
      <3>2. SegmentByte(seg(i), loader.file.start, a) = Zero
        BY <1>3, <3>1 DEF SegmentByte
      <3> QED
        BY <2>5, <2>7, <2>8, <3>2 DEF a
    <2>9. CASE found # {}
      <3>1. (CHOOSE j \in found : TRUE) \in found
        BY <2>9
      <3> HIDE DEF found
      <3>2. (CHOOSE j \in found : TRUE) = i /\ i \in found
        BY <2>6, <3>1
      <3>3. covers(seg(i))
        BY <3>2 DEF found
      <3>4. FileByte(image, loader.file.start, a) = loader.file.start + seg(i).offset + a - seg(i).address
        BY <2>7, <2>9, <3>2
      <3>5. SegmentByte(seg(i), loader.file.start, a) = loader.file.start + seg(i).offset + a - seg(i).address
        BY <3>3 DEF SegmentByte
      <3> QED
        BY <2>5, <3>4, <3>5 DEF a
    <2> QED
      BY <2>8, <2>9 DEF a
  <1>10. \A i \in Loaded(image) : \A p \in PagesOf(seg(i)) :
            loader.pages[p].writable = seg(i).writable /\ loader.pages[p].executable = seg(i).executable
    <2> SUFFICES ASSUME NEW i \in Loaded(image), NEW p \in PagesOf(seg(i))
                 PROVE  loader.pages[p].writable = seg(i).writable /\ loader.pages[p].executable = seg(i).executable
      OBVIOUS
    <2>1. loader.pages[p] = SegmentPageOf(loader, seg(i), p)
      BY <1>5
    <2> QED
      BY <2>1, SMT DEF SegmentPageOf, Page
  <1> QED
    BY <1>7, <1>8, <1>9, <1>10

-----------------------------------------------------------------------------
(* The layout of an archive, and the search for a member.                  *)

LEMMA Least ==
    ASSUME NEW S \in SUBSET Nat, S # {}
    PROVE  \E n \in S : \A m \in S : n <= m
  <1> DEFINE R == OpToRel(<, Nat)
  <1>1. IsWellFoundedOn(R, Nat)
    BY NatLessThanWellFounded
  <1>2. \A m, n \in Nat : <<m, n>> \in R <=> m < n
    BY DEF OpToRel
  <1> HIDE DEF R
  <1>3. PICK n \in S : \A m \in S : ~(<<m, n>> \in R)
    BY <1>1, WFMin
  <1>4. ASSUME NEW m \in S
        PROVE  n <= m
    <2>1. m \in Nat /\ n \in Nat /\ ~(m < n)
      BY <1>2, <1>3
    <2> QED
      BY <2>1, SMT
  <1> QED
    BY <1>4

LEMMA Aligned ==
    ASSUME NEW n \in Nat
    PROVE  /\ Align4(n) \in Nat /\ n <= Align4(n)
           /\ \E q \in Nat : Align4(n) = 4 * q
           /\ \A q \in Nat : Align4(4 * q + n) = 4 * q + Align4(n)
  <1> DEFINE d == (n + 3) \div 4
  <1>1. d \in Nat /\ 4 * d <= n + 3 /\ n + 3 < 4 * d + 4
    BY SMT
  <1>2. ASSUME NEW q \in Nat
        PROVE  (4 * q + n + 3) \div 4 = q + d
    BY SMT
  <1> HIDE DEF d
  <1>3. Align4(n) = 4 * d /\ \A q \in Nat : Align4(4 * q + n) = 4 * (q + d)
    BY <1>2 DEF Align4, d
  <1>4. 4 * d \in Nat /\ n <= 4 * d /\ \A q \in Nat : 4 * (q + d) = 4 * q + 4 * d
    BY <1>1, SMT
  <1> QED
    BY <1>1, <1>3, <1>4

\* Where the header after a member at offset h begins.
NextAt(member, h) == Align4(Align4(h + HEADER + member.name_len) + member.file_len)

LEMMA HeadersUnfold ==
    ASSUME NEW members, Len(members) \in Nat
    PROVE  \A k \in 1..Len(members) :
              HeaderAt(members)[k] = IF k = 1 THEN 0 ELSE NextAt(members[k - 1], HeaderAt(members)[k - 1])
  <1> DEFINE Eq(t, n) == t = [k \in 1..n |-> IF k = 1 THEN 0 ELSE NextAt(members[k - 1], t[k - 1])]
  <1>1. \A n \in Nat : \E t : Eq(t, n)
    <2> DEFINE B == {n \in Nat : ~\E t : Eq(t, n)}
    <2> SUFFICES ASSUME B # {}
                 PROVE  FALSE
      OBVIOUS
    <2>1. PICK n \in B : \A m \in B : n <= m
      BY Least
    <2>2. CASE n = 0
      <3>1. \A k : k \notin 1..0
        BY SMT
      <3>2. Eq([k \in 1..0 |-> 0], 0)
        BY <3>1
      <3> QED
        BY <2>1, <2>2, <3>2
    <2>3. CASE n # 0
      <3>1. n \in Nat /\ n > 0 /\ n - 1 \in Nat /\ n - 1 \notin B
        <4>1. n \in Nat
          BY <2>1
        <4>2. n > 0 /\ n - 1 \in Nat /\ ~(n <= n - 1)
          BY <2>3, <4>1, SMT
        <4> QED
          BY <2>1, <4>1, <4>2
      <3>2. PICK t : Eq(t, n - 1)
        BY <3>1
      <3> DEFINE u == [k \in 1..n |-> IF k = n THEN IF n = 1 THEN 0 ELSE NextAt(members[n - 1], t[n - 1]) ELSE t[k]]
      <3>3. ASSUME NEW k \in 1..n
            PROVE  u[k] = IF k = 1 THEN 0 ELSE NextAt(members[k - 1], u[k - 1])
        <4>1. k # 1 => k - 1 \in 1..n /\ k - 1 # n /\ u[k - 1] = t[k - 1]
          <5>1. k # 1 => k - 1 \in 1..n /\ k - 1 # n
            BY <3>1, SMT
          <5> QED
            BY <5>1
        <4>2. CASE k = n
          BY <4>1, <4>2
        <4>3. CASE k # n
          <5>1. k \in 1..(n - 1)
            BY <3>1, <4>3, SMT
          <5>2. t[k] = IF k = 1 THEN 0 ELSE NextAt(members[k - 1], t[k - 1])
            BY <3>2, <5>1
          <5> QED
            BY <4>1, <4>3, <5>2
        <4> QED
          BY <4>2, <4>3
      <3>4. Eq(u, n)
        BY <3>3
      <3> QED
        BY <2>1, <3>4
    <2> QED
      BY <2>2, <2>3
  <1>2. \E t : Eq(t, Len(members))
    BY <1>1
  <1>3. HeaderAt(members) = CHOOSE t : Eq(t, Len(members))
    BY DEF HeaderAt, NextAt
  <1>4. Eq(HeaderAt(members), Len(members))
    BY <1>2, <1>3
  <1> QED
    BY <1>4

\* Headers begin at multiples of four, one after the other.
LEMMA Headers ==
    ASSUME NEW members \in Seq(MemberHeader), NEW k \in 1..Len(members)
    PROVE  /\ HeaderAt(members)[k] \in Nat
           /\ \E q \in Nat : HeaderAt(members)[k] = 4 * q
           /\ \A j \in 1..(k - 1) : HeaderAt(members)[j] < HeaderAt(members)[k]
  <1> DEFINE h == HeaderAt(members)
             P(n) == /\ h[n] \in Nat /\ \E q \in Nat : h[n] = 4 * q
                     /\ \A j \in 1..(n - 1) : h[j] < h[n] /\ h[j] \in Nat
             B == {n \in 1..Len(members) : ~P(n)}
  <1>1. Len(members) \in Nat /\ \A n \in 1..Len(members) : members[n] \in MemberHeader
    BY SMT
  <1>2. \A n \in 1..Len(members) : members[n].name_len \in Nat /\ members[n].file_len \in Nat
    BY <1>1 DEF MemberHeader
  <1>3. \A n \in 1..Len(members) : h[n] = IF n = 1 THEN 0 ELSE NextAt(members[n - 1], h[n - 1])
    BY <1>1, HeadersUnfold
  <1> HIDE DEF h
  <1>4. SUFFICES B = {}
    BY DEF h
  <1> SUFFICES ASSUME B # {}
               PROVE  FALSE
    OBVIOUS
  <1>5. B \in SUBSET Nat
    BY <1>1, SMT
  <1> HIDE DEF P
  <1>6. PICK n \in B : \A m \in B : n <= m
    BY <1>5, Least
  <1>7. CASE n = 1
    <2>1. h[1] = 0 /\ 1 \in 1..Len(members)
      BY <1>3, <1>6, <1>7
    <2>2. 0 = 4 * 0 /\ 0 \in Nat /\ \A j : j \notin 1..(1 - 1)
      BY SMT
    <2>3. P(1)
      BY <2>1, <2>2 DEF P
    <2> QED
      BY <1>6, <1>7, <2>3
  <1>8. CASE n # 1
    <2>1. n \in Nat /\ n \in 1..Len(members)
      BY <1>5, <1>6
    <2>2. n - 1 \in 1..Len(members) /\ ~(n <= n - 1)
      BY <1>1, <1>8, <2>1, SMT
    <2>3. P(n - 1)
      BY <1>6, <2>2
    <2> DEFINE g == h[n - 1]
               member == members[n - 1]
               data == g + HEADER + member.name_len
    <2>4. g \in Nat /\ h[n] = Align4(Align4(data) + member.file_len)
      BY <1>3, <1>8, <2>1, <2>3 DEF NextAt, P
    <2>5. data \in Nat /\ g < data /\ member.file_len \in Nat
      <3>1. member.name_len \in Nat /\ member.file_len \in Nat
        BY <1>2, <2>2
      <3> HIDE DEF g, member
      <3> QED
        BY <2>4, <3>1, SMT DEF HEADER
    <2> HIDE DEF g, member, data
    <2>6. Align4(data) \in Nat /\ data <= Align4(data)
      BY <2>5, Aligned
    <2>7. Align4(data) + member.file_len \in Nat
      BY <2>5, <2>6, SMT
    <2>8. /\ h[n] \in Nat /\ Align4(data) + member.file_len <= h[n]
          /\ \E q \in Nat : h[n] = 4 * q
      BY <2>4, <2>7, Aligned
    <2>9. g < h[n]
      BY <2>4, <2>5, <2>6, <2>8, SMT
    <2>10. ASSUME NEW j \in 1..(n - 1)
          PROVE  h[j] < h[n] /\ h[j] \in Nat
      <3>1. CASE j = n - 1
        BY <2>4, <2>9, <3>1 DEF g
      <3>2. CASE j # n - 1
        <4>1. j \in 1..(n - 1 - 1)
          BY <2>1, <3>2, SMT
        <4>2. h[j] < h[n - 1] /\ h[j] \in Nat
          BY <2>3, <4>1 DEF P
        <4>3. h[j] < g
          BY <4>2 DEF g
        <4> QED
          BY <2>4, <2>8, <2>9, <4>2, <4>3, SMT
      <3> QED
        BY <3>1, <3>2
    <2>11. P(n)
      BY <2>8, <2>10 DEF P
    <2> QED
      BY <1>6, <2>11
  <1> QED
    BY <1>7, <1>8

\* What lies behind the last member, or at an offset where a member begins.
LEMMA HeadersDiffer ==
    ASSUME NEW members \in Seq(MemberHeader), NEW j \in 1..Len(members), NEW k \in 1..Len(members),
           HeaderAt(members)[j] = HeaderAt(members)[k]
    PROVE  j = k
  <1>1. /\ HeaderAt(members)[j] \in Nat /\ \A i \in 1..(j - 1) : HeaderAt(members)[i] < HeaderAt(members)[j]
        /\ HeaderAt(members)[k] \in Nat /\ \A i \in 1..(k - 1) : HeaderAt(members)[i] < HeaderAt(members)[k]
    BY Headers
  <1>2. Len(members) \in Nat
    BY SMT
  <1>3. j < k => j \in 1..(k - 1)
    BY <1>2, SMT
  <1>4. k < j => k \in 1..(j - 1)
    BY <1>2, SMT
  <1>5. ~(HeaderAt(members)[j] < HeaderAt(members)[k]) /\ ~(HeaderAt(members)[k] < HeaderAt(members)[j])
    BY <1>1, SMT
  <1>6. j < k \/ k < j \/ j = k
    BY <1>2, SMT
  <1> QED
    BY <1>1, <1>3, <1>4, <1>5, <1>6

\* The offsets that find_file adds up, each part padded by itself, are those of the layout.
LEMMA MemberOffsets ==
    ASSUME NEW members \in Seq(MemberHeader), NEW k \in 1..Len(members)
    PROVE  LET h == HeaderAt(members)[k]
               data_start == h + Align4(HEADER + members[k].name_len)
               next == NextAt(members[k], h)
           IN  /\ DataAt(members, k) = data_start
               /\ next = data_start + Align4(members[k].file_len)
               /\ h \in Nat /\ data_start \in Nat /\ next \in Nat /\ h < next
               /\ k # Len(members) => k + 1 \in 1..Len(members) /\ HeaderAt(members)[k + 1] = next
               /\ k = Len(members) => \A j \in 1..Len(members) : HeaderAt(members)[j] # next
  <1> DEFINE h == HeaderAt(members)[k]
             n == HEADER + members[k].name_len
             m == members[k].file_len
             next == NextAt(members[k], h)
  <1>1. members[k] \in MemberHeader /\ Len(members) \in Nat /\ k \in Nat
    BY SMT
  <1>2. n \in Nat /\ n > 0 /\ m \in Nat
    <2>1. members[k].name_len \in Nat /\ members[k].file_len \in Nat
      BY <1>1 DEF MemberHeader
    <2> QED
      BY <2>1, SMT DEF HEADER
  <1>3. PICK q \in Nat : h = 4 * q
    BY Headers
  <1>4. h \in Nat
    BY Headers
  <1>5. h + HEADER + members[k].name_len = 4 * q + n
    <2>1. members[k].name_len \in Nat
      BY <1>1 DEF MemberHeader
    <2> HIDE DEF h
    <2> QED
      BY <1>3, <1>4, <2>1, SMT DEF HEADER
  <1> HIDE DEF n, m
  <1>6. Align4(4 * q + n) = 4 * q + Align4(n) /\ Align4(n) \in Nat /\ n <= Align4(n)
    BY <1>2, Aligned
  <1>7. PICK r \in Nat : Align4(n) = 4 * r
    BY <1>2, Aligned
  <1>8. q + r \in Nat /\ 4 * q + Align4(n) = 4 * (q + r)
    BY <1>7, SMT
  <1>9. Align4(4 * (q + r) + m) = 4 * (q + r) + Align4(m) /\ Align4(m) \in Nat
    BY <1>2, <1>8, Aligned
  <1>10. DataAt(members, k) = h + Align4(n)
    BY <1>3, <1>5, <1>6 DEF DataAt
  <1>11. next = h + Align4(n) + Align4(m)
    BY <1>3, <1>5, <1>6, <1>8, <1>9 DEF NextAt, m
  <1>12. h + Align4(n) \in Nat /\ next \in Nat /\ h < next
    <2> DEFINE x == Align4(n)
               y == Align4(m)
    <2>1. x \in Nat /\ n <= x /\ y \in Nat /\ next = h + x + y
      BY <1>6, <1>9, <1>11
    <2> HIDE DEF h, next, x, y
    <2>2. h + x \in Nat /\ next \in Nat /\ h < next
      BY <1>2, <1>4, <2>1, SMT
    <2> QED
      BY <2>2 DEF x
  <1>13. ASSUME k # Len(members)
         PROVE  k + 1 \in 1..Len(members) /\ HeaderAt(members)[k + 1] = next
    <2> DEFINE l == k + 1
    <2>1. l \in 1..Len(members) /\ l # 1 /\ l - 1 = k
      BY <1>1, <1>13, SMT
    <2> HIDE DEF l
    <2>2. HeaderAt(members)[l] = NextAt(members[l - 1], HeaderAt(members)[l - 1])
      BY <1>1, <2>1, HeadersUnfold
    <2> QED
      BY <2>1, <2>2 DEF l
  <1>14. ASSUME k = Len(members), NEW j \in 1..Len(members)
         PROVE  HeaderAt(members)[j] # next
    <2>1. j = k \/ j \in 1..(k - 1)
      BY <1>1, <1>14, SMT
    <2>2. HeaderAt(members)[j] \in Nat /\ (j = k \/ HeaderAt(members)[j] < h)
      BY <2>1, Headers
    <2> DEFINE g == HeaderAt(members)[j]
    <2>3. g \in Nat /\ (g = h \/ g < h)
      BY <2>2
    <2> HIDE DEF g, h, next
    <2>4. g # next
      BY <1>4, <1>12, <2>3, SMT
    <2> QED
      BY <2>4 DEF g
  <1> QED
    BY <1>4, <1>10, <1>11, <1>12, <1>13, <1>14 DEF n, m

\* The recursion of a search: it stops with an answer or goes on at a later offset.
IsSearch(f, length, stop, answer, next) ==
    f = [o \in 0..length |-> IF stop[o] THEN answer[o] ELSE f[next[o]]]

\* It has a solution, by induction from the end of the archive.
LEMMA SearchExists ==
    ASSUME NEW length \in Nat, NEW stop, NEW answer, NEW next,
           \A o \in 0..length : stop[o] \/ next[o] \in (o + 1)..length
    PROVE  \E f : IsSearch(f, length, stop, answer, next)
  <1> DEFINE Eq(f, n) == f = [o \in (length - n)..length |-> IF stop[o] THEN answer[o] ELSE f[next[o]]]
             B == {n \in 0..(length + 1) : ~\E f : Eq(f, n - 1)}
  <1>1. \A n \in 0..(length + 1) : \E f : Eq(f, n - 1)
    <2> SUFFICES ASSUME B # {}
                 PROVE  FALSE
      OBVIOUS
    <2>1. B \in SUBSET Nat
      BY SMT
    <2>2. PICK n \in B : \A m \in B : n <= m
      <3> HIDE DEF B
      <3> QED
        BY <2>1, Least
    <2>3. n \in Nat /\ n \in 0..(length + 1) /\ ~\E f : Eq(f, n - 1)
      BY <2>1, <2>2
    <2>4. CASE n = 0
      <3>1. \A o : o \notin (length - (0 - 1))..length
        BY SMT
      <3>2. Eq([o \in (length - (0 - 1))..length |-> 0], 0 - 1)
        BY <3>1
      <3> QED
        BY <2>3, <2>4, <3>2
    <2>5. CASE n # 0
      <3>1. n - 1 \in 0..(length + 1) /\ ~(n <= n - 1)
        BY <2>3, <2>5, SMT
      <3>2. PICK f : Eq(f, n - 1 - 1)
        BY <2>2, <3>1
      <3> DEFINE z == length - (n - 1)
                 Z == z..length
                 g == [o \in Z |-> IF o = z THEN IF stop[z] THEN answer[z] ELSE f[next[z]] ELSE f[o]]
      <3>3. z \in 0..length /\ (length - (n - 1 - 1)) = z + 1
        BY <2>3, <2>5, SMT
      <3>4. f = [o \in (z + 1)..length |-> IF stop[o] THEN answer[o] ELSE f[next[o]]]
        BY <3>2, <3>3
      <3> HIDE DEF z
      <3>5. ASSUME NEW o \in Z
            PROVE  g[o] = IF stop[o] THEN answer[o] ELSE g[next[o]]
        <4>1. o \in 0..length /\ (o = z \/ o \in (z + 1)..length)
          BY <3>3, SMT
        <4>2. ~stop[o] => next[o] \in Z /\ next[o] # z
          <5>1. ASSUME ~stop[o]
                PROVE  next[o] \in Z /\ next[o] # z
            <6>1. next[o] \in (o + 1)..length
              BY <4>1, <5>1
            <6> DEFINE y == next[o]
            <6> HIDE DEF y
            <6>2. y \in (o + 1)..length
              BY <6>1 DEF y
            <6>3. y \in Z /\ y # z
              BY <3>3, <4>1, <6>2, SMT
            <6> QED
              BY <6>3 DEF y
          <5> QED
            BY <5>1
        <4>3. ~stop[o] => g[next[o]] = f[next[o]]
          BY <4>2
        <4>4. CASE o = z
          BY <4>3, <4>4
        <4>5. CASE o # z
          <5>1. f[o] = IF stop[o] THEN answer[o] ELSE f[next[o]]
            BY <3>4, <4>1, <4>5
          <5>2. g[o] = f[o]
            BY <4>5
          <5> QED
            BY <4>3, <5>1, <5>2
        <4> QED
          BY <4>4, <4>5
      <3>6. Eq(g, n - 1)
        BY <3>5 DEF z
      <3> QED
        BY <2>3, <3>6
    <2> QED
      BY <2>4, <2>5
  <1>2. length - length = 0 /\ \E l \in 0..(length + 1) : l - 1 = length
    BY SMT
  <1>3. PICK l \in 0..(length + 1) : l - 1 = length
    BY <1>2
  <1> HIDE DEF Eq
  <1>4. \E f : Eq(f, l - 1)
    BY <1>1
  <1> QED
    BY <1>2, <1>3, <1>4 DEF Eq, IsSearch

\* Why a search may end at offset o: the member there is the trailer, its data is cut off, or
\* it is another one and the last.
Ends(a, target, o) ==
    \A k \in DOMAIN a.members :
        HeaderAt(a.members)[k] = o =>
            \/ a.members[k].name = TRAILER
            \/ ~(DataAt(a.members, k) + a.members[k].file_len <= a.length)
            \/ a.members[k].name # target /\ ~(NextAt(a.members[k], o) <= a.length)

\* The file is the data of member k.
IsData(members, k, file) == file.start = DataAt(members, k) /\ file.length = members[k].file_len

\* A search f at offset o ends without an answer, with the member there, or goes on behind it.
SearchStep(a, target, f, o) ==
    \/ f[o] = None /\ Ends(a, target, o)
    \/ \E k \in DOMAIN a.members :
          /\ HeaderAt(a.members)[k] = o
          /\ \/ a.members[k].name = target /\ IsData(a.members, k, f[o])
             \/ /\ a.members[k].name # target
                /\ NextAt(a.members[k], o) \in 0..a.length
                /\ f[o] = f[NextAt(a.members[k], o)]

\* The file is the data of the first member of that name.
IsFirst(a, target, file) ==
    \E k \in DOMAIN a.members : FirstOfName(a.members, target, k) /\ IsData(a.members, k, file)

LEMMA HeaderNumbers ==
    ASSUME NEW m \in MemberHeader
    PROVE  m.file_len \in Nat /\ m.name_len \in Nat /\ HEADER + m.name_len \in Nat
  <1>1. m.file_len \in Nat /\ m.name_len \in Nat
    BY Zenon DEF MemberHeader
  <1> QED
    BY <1>1, SMT DEF HEADER

\* A file that the archive holds as a whole lies behind every member before it.
LEMMA WholeAhead ==
    ASSUME NEW a, a.length \in Nat, a.members \in Seq(MemberHeader), NEW target, target # TRAILER,
           Whole(a, target), NEW k \in 1..Len(a.members),
           \A j \in 1..(k - 1) : a.members[j].name # target
    PROVE  /\ ~Ends(a, target, HeaderAt(a.members)[k])
           /\ \E i \in k..Len(a.members) : a.members[i].name = target
  <1> DEFINE members == a.members
             h == HeaderAt(members)
             n == Len(members)
  <1>1. n \in Nat /\ DOMAIN members = 1..n /\ \A i \in 1..n : members[i].file_len \in Nat
    <2>1. \A i \in 1..n : members[i] \in MemberHeader
      BY SMT
    <2>2. n \in Nat /\ DOMAIN members = 1..n
      BY SMT
    <2> QED
      BY <2>1, <2>2, HeaderNumbers, Zenon
  <1>2. PICK w \in DOMAIN members :
            /\ members[w].name = target
            /\ \A j \in 1..(w - 1) : members[j].name # TRAILER
            /\ DataAt(members, w) + members[w].file_len <= a.length
    BY DEF Whole
  <1>3. w \in k..n /\ (w = k \/ k \in 1..(w - 1))
    BY <1>1, <1>2, SMT
  <1>4. CASE w = k
    BY <1>2, <1>3, <1>4 DEF Ends
  <1>5. CASE w # k
    <2>1. members[k].name # TRAILER /\ k + 1 \in 1..n /\ k # n
      BY <1>1, <1>2, <1>3, <1>5, SMT
    <2>2. /\ h[k + 1] = NextAt(members[k], h[k]) /\ NextAt(members[k], h[k]) = DataAt(members, k) + Align4(members[k].file_len)
          /\ DataAt(members, k) \in Nat
      <3> DEFINE data_start == h[k] + Align4(HEADER + members[k].name_len)
      <3>1. /\ h[k + 1] = NextAt(members[k], h[k]) /\ DataAt(members, k) = data_start /\ data_start \in Nat
            /\ NextAt(members[k], h[k]) = data_start + Align4(members[k].file_len)
        BY <2>1, MemberOffsets
      <3> HIDE DEF data_start
      <3> QED
        BY <3>1
    <2>3. DataAt(members, w) = h[w] + Align4(HEADER + members[w].name_len) /\ DataAt(members, w) \in Nat /\ h[w] \in Nat
      <3> DEFINE data_start == h[w] + Align4(HEADER + members[w].name_len)
      <3>1. w \in 1..Len(a.members)
        BY <1>1, <1>2
      <3>2. DataAt(members, w) = data_start /\ data_start \in Nat /\ h[w] \in Nat
        BY <3>1, MemberOffsets
      <3> QED
        BY <3>2
    <2>4. h[w] <= DataAt(members, w)
      <3>1. HEADER + members[w].name_len \in Nat
        <4>1. members[w] \in MemberHeader
          BY <1>1, <1>2, SMT
        <4> QED
          BY <4>1, HeaderNumbers, Zenon
      <3>2. Align4(HEADER + members[w].name_len) \in Nat
        BY <3>1, Aligned
      <3> QED
        BY <2>3, <3>2, SMT
    <2>5. h[k + 1] \in Nat /\ h[k + 1] <= h[w]
      <3>1. w = k + 1 \/ k + 1 \in 1..(w - 1)
        BY <1>1, <1>3, <1>5, SMT
      <3>2. h[k + 1] \in Nat
        BY <2>1, Headers
      <3>3. \A j \in 1..(w - 1) : h[j] < h[w]
        BY <1>1, <1>2, Headers
      <3> QED
        BY <2>3, <3>1, <3>2, <3>3, SMT
    <2>6. Align4(members[k].file_len) \in Nat /\ members[k].file_len <= Align4(members[k].file_len)
      BY <1>1, Aligned
    <2>7. NextAt(members[k], h[k]) <= a.length
      <3> DEFINE d == DataAt(members, w)
                 l == members[w].file_len
                 x == h[k + 1]
                 y == h[w]
                 z == a.length
      <3>1. /\ x \in Nat /\ y \in Nat /\ d \in Nat /\ l \in Nat /\ z \in Nat
            /\ x <= y /\ y <= d /\ d + l <= z
        BY <1>1, <1>2, <2>3, <2>4, <2>5, Zenon
      <3> HIDE DEF d, l, x, y, z
      <3>2. x <= z
        BY <3>1, SMT
      <3> QED
        BY <2>2, <3>2, Zenon DEF x, z
    <2>8. DataAt(members, k) + members[k].file_len <= a.length
      BY <1>1, <2>2, <2>6, <2>7, SMT
    <2>9. ~Ends(a, target, h[k])
      BY <1>1, <2>1, <2>7, <2>8 DEF Ends
    <2> QED
      BY <1>2, <1>3, <2>9
  <1> QED
    BY <1>4, <1>5

LEMMA SearchFinds ==
    ASSUME NEW a, a.length \in Nat, a.members \in Seq(MemberHeader), NEW target, target # TRAILER, NEW f,
           \A o \in 0..a.length : SearchStep(a, target, f, o)
    PROVE  IsFirst(a, target, f[0]) \/ (f[0] = None /\ ~Whole(a, target))
  <1> DEFINE members == a.members
             h == HeaderAt(members)
             n == Len(members)
             Ended == IsFirst(a, target, f[0]) \/ (f[0] = None /\ ~Whole(a, target))
             Goes(k) == h[k] \in 0..a.length /\ f[0] = f[h[k]] /\ \A j \in 1..(k - 1) : members[j].name # target
             B == {k \in 1..n : ~Goes(k)}
  <1> SUFFICES ASSUME ~Ended
               PROVE  FALSE
    OBVIOUS
  <1>1. n \in Nat /\ DOMAIN members = 1..n /\ 0 \in 0..a.length
    BY SMT
  <1>2. ASSUME NEW k \in 1..n, Goes(k)
        PROVE  /\ members[k].name # target /\ NextAt(members[k], h[k]) \in 0..a.length
               /\ f[0] = f[NextAt(members[k], h[k])]
    <2>1. ~(f[h[k]] = None /\ Ends(a, target, h[k]))
      BY <1>2, WholeAhead
    <2>2. PICK i \in DOMAIN members :
             /\ h[i] = h[k]
             /\ \/ members[i].name = target /\ IsData(members, i, f[h[k]])
                \/ members[i].name # target /\ NextAt(members[i], h[k]) \in 0..a.length
                   /\ f[h[k]] = f[NextAt(members[i], h[k])]
      BY <1>2, <2>1 DEF SearchStep
    <2>3. i = k
      BY <1>1, <2>2, HeadersDiffer
    <2>4. ~(members[k].name = target /\ IsData(members, k, f[h[k]]))
      BY <1>1, <1>2 DEF IsFirst, FirstOfName
    <2> QED
      BY <1>2, <2>2, <2>3, <2>4
  <1>3. ASSUME NEW o \in 0..a.length, f[0] = f[o], f[0] # None
        PROVE  \E k \in 1..n : h[k] = o
    BY <1>1, <1>3 DEF SearchStep
  <1>4. n # 0
    <2>1. PICK k \in 1..n : TRUE
      BY <1>1, <1>3 DEF Whole
    <2> QED
      BY <1>1, <2>1, SMT
  <1>5. B = {}
    <2> SUFFICES ASSUME B # {}
                 PROVE  FALSE
      OBVIOUS
    <2>1. B \in SUBSET Nat
      BY <1>1, SMT
    <2> HIDE DEF Goes
    <2>2. PICK k \in B : \A m \in B : k <= m
      <3> HIDE DEF B
      <3> QED
        BY <2>1, Least
    <2>3. k \in Nat /\ k \in 1..n /\ ~Goes(k)
      BY <2>1, <2>2
    <2>4. CASE k = 1
      <3>1. h[1] = 0
        BY <1>1, <2>3, <2>4, HeadersUnfold
      <3>2. \A j : j \notin 1..(1 - 1)
        BY SMT
      <3> QED
        BY <1>1, <2>3, <2>4, <3>1, <3>2 DEF Goes
    <2>5. CASE k # 1
      <3> DEFINE i == k - 1
      <3>1. i \in 1..n /\ ~(k <= i) /\ i + 1 = k /\ i # n /\ \A j \in 1..(k - 1) : j \in 1..(i - 1) \/ j = i
        BY <1>1, <2>3, <2>5, SMT
      <3> HIDE DEF i
      <3>2. Goes(i)
        BY <2>2, <3>1
      <3>3. /\ members[i].name # target /\ NextAt(members[i], h[i]) \in 0..a.length
            /\ f[0] = f[NextAt(members[i], h[i])]
        BY <1>2, <3>1, <3>2
      <3>4. h[i + 1] = NextAt(members[i], h[i])
        BY <3>1, MemberOffsets
      <3>5. h[k] = NextAt(members[i], h[i])
        BY <3>1, <3>4
      <3>6. \A j \in 1..(k - 1) : members[j].name # target
        BY <3>1, <3>2, <3>3 DEF Goes
      <3>7. Goes(k)
        BY <3>3, <3>5, <3>6 DEF Goes
      <3> QED
        BY <2>3, <3>7
    <2> QED
      BY <2>4, <2>5
  <1>6. n \in 1..n
    BY <1>1, <1>4, SMT
  <1>7. Goes(n)
    <2> HIDE DEF Goes
    <2> QED
      BY <1>5, <1>6
  <1>8. NextAt(members[n], h[n]) \in 0..a.length /\ f[0] = f[NextAt(members[n], h[n])]
    BY <1>2, <1>6, <1>7
  <1>9. CASE f[0] # None
    <2>1. PICK k \in 1..n : h[k] = NextAt(members[n], h[n])
      BY <1>3, <1>8, <1>9
    <2> QED
      BY <1>6, <2>1, MemberOffsets
  <1>10. CASE Whole(a, target)
    <2>1. PICK i \in n..n : members[i].name = target
      BY <1>6, <1>7, <1>10, WholeAhead
    <2>2. i = n
      BY <1>1, <2>1, SMT
    <2> QED
      BY <1>2, <1>6, <1>7, <2>1, <2>2
  <1> QED
    BY <1>9, <1>10

LEMMA MemberAtOffset ==
    ASSUME NEW a, NEW o, MemberAt(a, o) # 0
    PROVE  MemberAt(a, o) \in DOMAIN a.members /\ HeaderAt(a.members)[MemberAt(a, o)] = o
  <1> DEFINE found == {k \in DOMAIN a.members : HeaderAt(a.members)[k] = o}
  <1>1. found # {} /\ MemberAt(a, o) = CHOOSE k \in found : TRUE
    BY DEF MemberAt
  <1>2. MemberAt(a, o) \in found
    BY <1>1
  <1> QED
    BY <1>2

LEMMA MemberIsAt ==
    ASSUME NEW a, a.members \in Seq(MemberHeader), NEW o, NEW k \in DOMAIN a.members, HeaderAt(a.members)[k] = o
    PROVE  MemberAt(a, o) = k /\ k # 0
  <1>1. DOMAIN a.members = 1..Len(a.members) /\ Len(a.members) \in Nat
    BY SMT
  <1>2. k # 0
    BY <1>1, SMT
  <1>3. \A j \in DOMAIN a.members : HeaderAt(a.members)[j] = o => j = k
    BY <1>1, HeadersDiffer
  <1>4. {j \in DOMAIN a.members : HeaderAt(a.members)[j] = o} = {k}
    BY <1>3
  <1>5. MemberAt(a, o) = CHOOSE j \in {k} : TRUE
    BY <1>4 DEF MemberAt
  <1> QED
    BY <1>2, <1>5

\* An archive that ends before the data of a member begins does not hold it.
LEMMA CutOff ==
    ASSUME NEW a, a.length \in Nat, a.members \in Seq(MemberHeader), NEW k \in DOMAIN a.members,
           LET o == HeaderAt(a.members)[k]
           IN  \/ o + HEADER > a.length
               \/ o + HEADER + a.members[k].name_len > a.length
               \/ o + Align4(HEADER + a.members[k].name_len) + a.members[k].file_len > a.length
    PROVE  ~(DataAt(a.members, k) + a.members[k].file_len <= a.length)
  <1> DEFINE o == HeaderAt(a.members)[k]
             n == a.members[k].name_len
             d == Align4(HEADER + n)
  <1>1. k \in 1..Len(a.members) /\ a.members[k] \in MemberHeader
    BY SMT
  <1>2. n \in Nat /\ a.members[k].file_len \in Nat
    BY <1>1 DEF MemberHeader
  <1>3. HEADER + n \in Nat /\ HEADER \in Nat
    BY <1>2, SMT DEF HEADER
  <1>4. d \in Nat /\ HEADER + n <= d
    BY <1>3, Aligned
  <1>5. DataAt(a.members, k) = o + d /\ o \in Nat
    BY <1>1, MemberOffsets
  <1>6. o + HEADER > a.length \/ o + HEADER + n > a.length \/ o + d + a.members[k].file_len > a.length
    OBVIOUS
  <1> DEFINE f == a.members[k].file_len
  <1> HIDE DEF d, o, n, f
  <1>7. f \in Nat /\ (o + HEADER > a.length \/ o + HEADER + n > a.length \/ o + d + f > a.length)
    BY <1>2, <1>6 DEF f
  <1>8. ~(o + d + f <= a.length)
    BY <1>2, <1>3, <1>4, <1>5, <1>7, SMT
  <1> QED
    BY <1>5, <1>8 DEF f

\* The search of the kernel, which stops wherever the archive is too short.
LEMMA KernelFinds ==
    ASSUME NEW a \in Archives, NEW target, target # TRAILER
    PROVE  \/ IsFirst(a, target, find_file(a, target))
           \/ find_file(a, target) = None /\ ~Whole(a, target)
  <1> DEFINE member(o) == a.members[MemberAt(a, o)]
             data_start(o) == o + Align4(HEADER + member(o).name_len)
             next(o) == data_start(o) + Align4(member(o).file_len)
             fails(o) == \/ o + HEADER > a.length
                         \/ MemberAt(a, o) = 0
                         \/ o + HEADER + member(o).name_len > a.length
                         \/ member(o).name = TRAILER
                         \/ data_start(o) + member(o).file_len > a.length
             Body(f, o) == IF fails(o) THEN None
                           ELSE IF member(o).name = target
                                THEN [start |-> data_start(o), length |-> member(o).file_len]
                                ELSE IF next(o) <= a.length THEN f[next(o)] ELSE None
             stop == [o \in 0..a.length |-> fails(o) \/ member(o).name = target \/ ~(next(o) <= a.length)]
             answer == [o \in 0..a.length |->
                           IF fails(o) THEN None
                           ELSE IF member(o).name = target
                                THEN [start |-> data_start(o), length |-> member(o).file_len]
                                ELSE None]
             after == [o \in 0..a.length |-> next(o)]
             F == CHOOSE f : f = [o \in 0..a.length |-> Body(f, o)]
  <1>1. a.length \in Nat /\ a.members \in Seq(MemberHeader)
    BY ArchivesAssumption
  <1>2. find_file(a, target) = F[0]
    BY DEF find_file
  <1>3. ASSUME NEW o \in 0..a.length, ~fails(o)
        PROVE  LET k == MemberAt(a, o)
               IN  /\ k \in DOMAIN a.members /\ HeaderAt(a.members)[k] = o
                   /\ DataAt(a.members, k) = data_start(o) /\ NextAt(a.members[k], o) = next(o)
                   /\ next(o) \in Nat /\ o < next(o)
    <2> DEFINE k == MemberAt(a, o)
    <2>1. k \in DOMAIN a.members /\ HeaderAt(a.members)[k] = o
      BY <1>3, MemberAtOffset
    <2>2. k \in 1..Len(a.members)
      BY <1>1, <2>1, SMT
    <2> HIDE DEF k
    <2>3. /\ DataAt(a.members, k) = o + Align4(HEADER + a.members[k].name_len)
          /\ NextAt(a.members[k], o) = o + Align4(HEADER + a.members[k].name_len) + Align4(a.members[k].file_len)
          /\ NextAt(a.members[k], o) \in Nat /\ o < NextAt(a.members[k], o)
      BY <1>1, <2>1, <2>2, MemberOffsets
    <2> QED
      BY <2>1, <2>3 DEF k
  <1>4. \A o \in 0..a.length : stop[o] \/ after[o] \in (o + 1)..a.length
    <2> SUFFICES ASSUME NEW o \in 0..a.length, ~stop[o]
                 PROVE  after[o] \in (o + 1)..a.length
      OBVIOUS
    <2>1. after[o] = next(o) /\ next(o) \in Nat /\ o < next(o) /\ next(o) <= a.length
      BY <1>3
    <2> DEFINE x == after[o]
    <2> HIDE DEF x
    <2>2. x \in Nat /\ o < x /\ x <= a.length
      BY <2>1 DEF x
    <2>3. x \in (o + 1)..a.length
      BY <1>1, <2>2, SMT
    <2> QED
      BY <2>3 DEF x
  <1> HIDE DEF member, data_start, next, fails
  <1>5. PICK f : IsSearch(f, a.length, stop, answer, after)
    <2> HIDE DEF stop, answer, after
    <2> QED
      BY <1>1, <1>4, SearchExists
  <1>6. \A o \in 0..a.length : (IF stop[o] THEN answer[o] ELSE f[after[o]]) = Body(f, o)
    OBVIOUS
  <1> HIDE DEF stop, answer, after
  <1>7. f = [o \in 0..a.length |-> Body(f, o)]
    <2> HIDE DEF Body
    <2> QED
      BY <1>5, <1>6 DEF IsSearch
  <1>8. F = [o \in 0..a.length |-> Body(F, o)]
    <2> HIDE DEF Body
    <2> QED
      BY <1>7
  <1> HIDE DEF F
  <1>9. ASSUME NEW o \in 0..a.length
        PROVE  SearchStep(a, target, F, o)
    <2>1. F[o] = Body(F, o)
      <3> HIDE DEF Body
      <3> QED
        BY <1>8
    <2>2. CASE fails(o)
      <3>1. ASSUME NEW k \in DOMAIN a.members, HeaderAt(a.members)[k] = o
            PROVE  a.members[k].name = TRAILER \/ ~(DataAt(a.members, k) + a.members[k].file_len <= a.length)
        BY <1>1, <2>2, <3>1, MemberIsAt, CutOff DEF fails, member, data_start
      <3>2. Ends(a, target, o)
        BY <3>1 DEF Ends
      <3> QED
        BY <2>1, <2>2, <3>2 DEF SearchStep
    <2>3. CASE ~fails(o)
      <3> DEFINE k == MemberAt(a, o)
      <3>1. /\ k \in DOMAIN a.members /\ HeaderAt(a.members)[k] = o
            /\ DataAt(a.members, k) = data_start(o) /\ NextAt(a.members[k], o) = next(o)
            /\ next(o) \in Nat
        BY <1>3, <2>3
      <3>2. member(o) = a.members[k]
        BY DEF member
      <3>3. CASE member(o).name = target
        <4>1. F[o].start = data_start(o) /\ F[o].length = member(o).file_len
          BY <2>1, <2>3, <3>3, SMT
        <4>2. IsData(a.members, k, F[o])
          BY <3>1, <3>2, <4>1 DEF IsData
        <4> QED
          BY <3>1, <3>2, <3>3, <4>2 DEF SearchStep
      <3>4. CASE member(o).name # target /\ next(o) <= a.length
        <4>1. F[o] = F[next(o)]
          BY <2>1, <2>3, <3>4
        <4>2. next(o) \in 0..a.length
          BY <1>1, <3>1, <3>4, SMT
        <4> QED
          BY <3>1, <3>2, <3>4, <4>1, <4>2 DEF SearchStep
      <3>5. CASE member(o).name # target /\ ~(next(o) <= a.length)
        <4>1. ASSUME NEW j \in DOMAIN a.members, HeaderAt(a.members)[j] = o
              PROVE  j = k
          BY <1>1, <4>1, MemberIsAt
        <4>2. Ends(a, target, o)
          BY <3>1, <3>2, <3>5, <4>1 DEF Ends
        <4> QED
          BY <2>1, <2>3, <3>5, <4>2 DEF SearchStep
      <3> QED
        BY <3>3, <3>4, <3>5
    <2> QED
      BY <2>2, <2>3
  <1> QED
    BY <1>1, <1>2, <1>9, SearchFinds

\* The search of omega3, which relies on the trailer.
LEMMA OmegaFinds ==
    ASSUME NEW a \in Archives, NEW target, target # TRAILER, find_file(a, "omega3.elf") # None
    PROVE  \/ IsFirst(a, target, omega_find_file(a, target))
           \/ omega_find_file(a, target) = None /\ ~Whole(a, target)
  <1> DEFINE member(o) == a.members[MemberAt(a, o)]
             data_start(o) == o + Align4(HEADER + member(o).name_len)
             next(o) == data_start(o) + Align4(member(o).file_len)
             fails(o) == MemberAt(a, o) = 0 \/ member(o).name = TRAILER
             Body(f, o) == IF fails(o) THEN None
                           ELSE IF member(o).name = target
                                THEN [start |-> data_start(o), length |-> member(o).file_len]
                                ELSE f[next(o)]
             stop == [o \in 0..a.length |-> fails(o) \/ member(o).name = target]
             answer == [o \in 0..a.length |->
                           IF fails(o) THEN None
                           ELSE IF member(o).name = target
                                THEN [start |-> data_start(o), length |-> member(o).file_len]
                                ELSE None]
             after == [o \in 0..a.length |-> next(o)]
             F == CHOOSE f : f = [o \in 0..a.length |-> Body(f, o)]
  <1>1. a.length \in Nat /\ a.members \in Seq(MemberHeader)
    BY ArchivesAssumption
  <1>2. omega_find_file(a, target) = F[0]
    BY DEF omega_find_file
  <1>3. ASSUME NEW o \in 0..a.length, ~fails(o)
        PROVE  LET k == MemberAt(a, o)
               IN  /\ k \in DOMAIN a.members /\ HeaderAt(a.members)[k] = o
                   /\ DataAt(a.members, k) = data_start(o) /\ NextAt(a.members[k], o) = next(o)
                   /\ next(o) \in Nat /\ o < next(o)
    <2> DEFINE k == MemberAt(a, o)
    <2>1. k \in DOMAIN a.members /\ HeaderAt(a.members)[k] = o
      BY <1>3, MemberAtOffset
    <2>2. k \in 1..Len(a.members)
      BY <1>1, <2>1, SMT
    <2> HIDE DEF k
    <2>3. /\ DataAt(a.members, k) = o + Align4(HEADER + a.members[k].name_len)
          /\ NextAt(a.members[k], o) = o + Align4(HEADER + a.members[k].name_len) + Align4(a.members[k].file_len)
          /\ NextAt(a.members[k], o) \in Nat /\ o < NextAt(a.members[k], o)
      BY <1>1, <2>1, <2>2, MemberOffsets
    <2> QED
      BY <2>1, <2>3 DEF k
  <1>4. \A o \in 0..a.length : ~fails(o) => next(o) <= a.length
    <2> SUFFICES ASSUME NEW o \in 0..a.length, ~fails(o)
                 PROVE  next(o) <= a.length
      OBVIOUS
    <2> DEFINE k == MemberAt(a, o)
    <2>1. k \in DOMAIN a.members /\ a.members[k].name # TRAILER
      BY <1>3
    <2>2. DataAt(a.members, k) + Align4(a.members[k].file_len) <= a.length
      BY <2>1, ArchivesAssumption
    <2> QED
      BY <1>3, <2>2
  <1>5. \A o \in 0..a.length : stop[o] \/ after[o] \in (o + 1)..a.length
    <2> SUFFICES ASSUME NEW o \in 0..a.length, ~stop[o]
                 PROVE  after[o] \in (o + 1)..a.length
      OBVIOUS
    <2>1. after[o] = next(o) /\ next(o) \in Nat /\ o < next(o) /\ next(o) <= a.length
      BY <1>3, <1>4
    <2> DEFINE x == after[o]
    <2> HIDE DEF x
    <2>2. x \in Nat /\ o < x /\ x <= a.length
      BY <2>1 DEF x
    <2>3. x \in (o + 1)..a.length
      BY <1>1, <2>2, SMT
    <2> QED
      BY <2>3 DEF x
  <1> HIDE DEF member, data_start, next, fails
  <1>6. PICK f : IsSearch(f, a.length, stop, answer, after)
    <2> HIDE DEF stop, answer, after
    <2> QED
      BY <1>1, <1>5, SearchExists
  <1>7. \A o \in 0..a.length : (IF stop[o] THEN answer[o] ELSE f[after[o]]) = Body(f, o)
    OBVIOUS
  <1> HIDE DEF stop, answer, after
  <1>8. f = [o \in 0..a.length |-> Body(f, o)]
    <2> HIDE DEF Body
    <2> QED
      BY <1>6, <1>7 DEF IsSearch
  <1>9. F = [o \in 0..a.length |-> Body(F, o)]
    <2> HIDE DEF Body
    <2> QED
      BY <1>8
  <1> HIDE DEF F
  <1>10. ASSUME NEW o \in 0..a.length
        PROVE  SearchStep(a, target, F, o)
    <2>1. F[o] = Body(F, o)
      <3> HIDE DEF Body
      <3> QED
        BY <1>9
    <2>2. CASE fails(o)
      <3>1. ASSUME NEW k \in DOMAIN a.members, HeaderAt(a.members)[k] = o
            PROVE  a.members[k].name = TRAILER
        BY <1>1, <2>2, <3>1, MemberIsAt DEF fails, member
      <3>2. Ends(a, target, o)
        BY <3>1 DEF Ends
      <3> QED
        BY <2>1, <2>2, <3>2 DEF SearchStep
    <2>3. CASE ~fails(o)
      <3> DEFINE k == MemberAt(a, o)
      <3>1. /\ k \in DOMAIN a.members /\ HeaderAt(a.members)[k] = o
            /\ DataAt(a.members, k) = data_start(o) /\ NextAt(a.members[k], o) = next(o)
            /\ next(o) \in Nat
        BY <1>3, <2>3
      <3>2. member(o) = a.members[k]
        BY DEF member
      <3>3. CASE member(o).name = target
        <4>1. F[o].start = data_start(o) /\ F[o].length = member(o).file_len
          BY <2>1, <2>3, <3>3, SMT
        <4>2. IsData(a.members, k, F[o])
          BY <3>1, <3>2, <4>1 DEF IsData
        <4> QED
          BY <3>1, <3>2, <3>3, <4>2 DEF SearchStep
      <3>4. CASE member(o).name # target /\ next(o) <= a.length
        <4>1. F[o] = F[next(o)]
          BY <2>1, <2>3, <3>4
        <4>2. next(o) \in 0..a.length
          BY <1>1, <3>1, <3>4, SMT
        <4> QED
          BY <3>1, <3>2, <3>4, <4>1, <4>2 DEF SearchStep
      <3> QED
        BY <1>4, <2>3, <3>3, <3>4
    <2> QED
      BY <2>2, <2>3
  <1> QED
    BY <1>1, <1>2, <1>10, SearchFinds

-----------------------------------------------------------------------------
(* The two loaders: what holds at each place of bootstrap::spawn and of    *)
(* omega3's _start.                                                        *)

\* Places of bootstrap::spawn after find_file, and of omega3 while it loads a program.
Spawning == {"resources", "parse", "segment", "page", "insert"}
Loading == {"parse", "as_create", "header", "frame", "scratch", "unmap", "map", "stack_frame", "stack_map", "create"}

\* The first n pages of a stack, from the top.
StackPart(n) == {STACK_TOP - i * FRAME_SIZE : i \in 1..n}

\* The file and the image that are loaded are those of the program.
LoaderFor(name) ==
    loader.name = name /\ loader.image \in Images[name] /\ IsFirst(archive, name, loader.file)

\* User code runs only after the start-up, and then the kernel was found in the archive.
UserLast ==
    /\ step = "user" \/ machine \in {"boot", "panic"}
    /\ DOMAIN at = TaskId
    /\ at[omega3] # "start" => step = "user"

ArchiveRead ==
    /\ step \in Spawning \cup {"spawn", "start", "user"} => archive \in Archives
    /\ step \in Spawning \cup {"start", "user"} => find_file(archive, "omega3.elf") # None

\* The data of the segments that the kernel has come to is in the file.
DataSo(ld, here) ==
    \A i \in Loaded(ld.image) :
        i < ld.segment \/ (i = ld.segment /\ here = "page") =>
            ld.image.segments[i].offset + ld.image.segments[i].file_size <= ld.file.length

KernelLoader ==
    LET reserved == StackPages \cup {INITRAMFS_START}
    IN  /\ step \in Spawning => LoaderFor("omega3.elf")
        /\ step = "resources" => LoaderTypes(loader) /\ loader.segment = 1
        /\ step \in {"parse", "segment", "insert"} => LoadedSo(loader, reserved, FALSE)
        /\ step = "page" => LoadedSo(loader, reserved, TRUE) /\ FitsMemory(Segment)
        /\ step = "insert" => loader.segment > Len(loader.image.segments)
        /\ step \in {"parse", "segment", "page", "insert"} => DataSo(loader, step)

OmegaLoader ==
    /\ at[omega3] \in Loading => \E name \in {"echo.elf", "client.elf"} : LoaderFor(name)
    /\ at[omega3] \in {"parse", "as_create", "header"} => LoadedSo(loader, {}, FALSE)
    /\ at[omega3] \in {"frame", "scratch", "unmap", "map"} => LoadedSo(loader, {}, TRUE)
    /\ at[omega3] \in {"unmap", "map"} =>
          loader.scratch = SegmentBytes(Segment, loader.file.start, loader.page)
    /\ at[omega3] \in {"stack_frame", "stack_map", "create"} => loader.segment > Len(loader.image.segments)
    /\ at[omega3] \in {"stack_frame", "stack_map"} =>
          \E n \in 0..(STACK_PAGES - 1) :
              loader.page = STACK_TOP - (n + 1) * FRAME_SIZE /\ LoadedSo(loader, StackPart(n), FALSE)
    /\ at[omega3] = "create" => LoadedSo(loader, StackPages, FALSE)

LoaderInv == UserLast /\ ArchiveRead /\ KernelLoader /\ OmegaLoader

\* A program that was found is where the layout of the archive says.
LEMMA FileStored ==
    ASSUME archive \in Archives, NEW name, NEW file, IsFirst(archive, name, file)
    PROVE  file.start = Stored(name) /\ file.start \in Int
  <1> DEFINE members == archive.members
  <1>1. PICK k \in DOMAIN members : FirstOfName(members, name, k) /\ file.start = DataAt(members, k)
    BY DEF IsFirst, IsData
  <1>2. members \in Seq(MemberHeader) /\ DOMAIN members = 1..Len(members) /\ Len(members) \in Nat
    BY ArchivesAssumption, SMT
  <1>3. ASSUME NEW j \in DOMAIN members, FirstOfName(members, name, j)
        PROVE  j = k
    BY <1>1, <1>2, <1>3, SMT DEF FirstOfName
  <1>4. (CHOOSE j \in DOMAIN members : FirstOfName(members, name, j)) = k
    BY <1>1, <1>3
  <1>5. DataAt(members, k) \in Nat
    BY <1>2, MemberOffsets
  <1>6. Stored(name) = DataAt(members, k)
    BY <1>4 DEF Stored
  <1> QED
    BY <1>1, <1>5, <1>6, SMT

\* Before the first segment only the reserved pages are there.
LEMMA FreshLoads ==
    ASSUME NEW ld, NEW reserved, LoaderTypes(ld), ld.segment = 1, DOMAIN ld.pages = reserved
    PROVE  LoadedSo(ld, reserved, FALSE)
  <1>1. ASSUME NEW i \in DOMAIN ld.image.segments
        PROVE  ~(i < ld.segment)
    BY SegmentTypes, SMT
  <1>2. ASSUME NEW i \in Loaded(ld.image)
        PROVE  PagesDone(ld, FALSE, i) = {}
    BY <1>1 DEF PagesDone, Loaded
  <1> QED
    BY <1>1, <1>2 DEF LoadedSo, PagesAre, ContentsAre, SegmentsFit

\* find_file returned the file, and load_elf begins.
LEMMA ProgramFound ==
    ASSUME archive \in Archives, NEW name \in {"omega3.elf", "echo.elf", "client.elf"},
           NEW file, IsFirst(archive, name, file), NEW image \in Images[name],
           loader' = [Idle EXCEPT !.name = name, !.file = file, !.image = image], archive' = archive
    PROVE  /\ LoaderFor(name)' /\ LoaderTypes(loader') /\ loader'.segment = 1
           /\ DOMAIN loader'.pages = {}
  <1>1. /\ loader'.name = name /\ loader'.file = file /\ loader'.image = image /\ loader'.segment = 1
        /\ loader'.pages = NoPages /\ DOMAIN loader' = LoaderFields
    BY DEF Idle, LoaderFields
  <1>2. DOMAIN NoPages = {}
    BY DEF NoPages
  <1>3. file.start \in Int /\ image.segments \in Seq(ProgramHeader) /\ 1 \in Nat /\ 1 >= 1
    BY FileStored, ImagesAssumption, SMT
  <1> QED
    BY <1>1, <1>2, <1>3 DEF LoaderFor, LoaderTypes

LEMMA StartUpStays ==
    ASSUME StartUp
    PROVE  /\ step \notin {"start", "user"} /\ step' \notin Spawning \cup {"spawn", "start", "user"}
           /\ machine' \in {"boot", "panic"} /\ UNCHANGED at
  <1> USE DEF Spawning, Fail
  <1>1. machine' \in {"boot", "panic"} /\ UNCHANGED at
    BY DEF StartUp, userVars
  <1>2. CASE from_rsdp \/ find_table \/ LocalApic_init \/ IoApic_new
    BY <1>1, <1>2 DEF from_rsdp, find_table, LocalApic_init, IoApic_new
  <1>3. CASE effective_local_apic_address \/ sole_io_apic \/ isa_irq_route
    BY <1>1, <1>3 DEF effective_local_apic_address, sole_io_apic, isa_irq_route, Walk, AddressEntry, IoApicEntry,
          RouteEntry
  <1>4. CASE \/ At("mask_old", mask_old) \/ At("write_high", write_high) \/ At("write_low", write_low)
             \/ At("unmask", unmask) \/ At("start_counter", start_calibration_counter)
             \/ At("one_shot", start_pit_one_shot) \/ At("enable_interrupts", enable_interrupts)
    BY <1>1, <1>4 DEF At, mask_old, write_high, write_low, unmask, start_calibration_counter,
          start_pit_one_shot, enable_interrupts
  <1>5. CASE \/ At("poll_flag", poll_flag) \/ At("poll_count", poll_count) \/ At("timeout", timeout)
             \/ At("disable_interrupts", disable_interrupts) \/ At("mask", mask) \/ At("stop_timer", stop_timer)
    BY <1>1, <1>5 DEF At, poll_flag, poll_count, timeout, disable_interrupts, mask, stop_timer
  <1> QED
    BY <1>2, <1>3, <1>4, <1>5 DEF StartUp, BootPath

\* Before user code runs omega3 is at its start, so only the kernel's loader matters.
LEMMA BeforeUser ==
    ASSUME LoaderInv, step # "user", machine' \in {"boot", "panic"} \/ step' = "user", UNCHANGED at
    PROVE  UserLast' /\ OmegaLoader'
  <1>1. DOMAIN at = TaskId /\ at[omega3] = "start" /\ at'[omega3] = "start"
    BY DEF LoaderInv, UserLast
  <1> QED
    BY <1>1 DEF UserLast, OmegaLoader, Loading

\* The machine may stop or switch tasks while the loaders rest.
LEMMA LoadersRest ==
    ASSUME LoaderInv, UNCHANGED <<step, archive, loader, at>>, step = "user" \/ machine' \in {"boot", "panic"}
    PROVE  LoaderInv'
  <1>1. UserLast' /\ ArchiveRead'
    BY DEF LoaderInv, UserLast, ArchiveRead
  <1>2. KernelLoader'
    BY DEF LoaderInv, KernelLoader, LoaderFor, Segment, DataSo
  <1>3. OmegaLoader'
    BY DEF LoaderInv, OmegaLoader, LoaderFor, Segment
  <1> QED
    BY <1>1, <1>2, <1>3 DEF LoaderInv

-----------------------------------------------------------------------------
(* The steps of bootstrap::spawn.                                          *)

\* A step of load_elf: the archive and the file stay, the step and the loader go on.
LEMMA KernelGoesOn ==
    ASSUME LoaderInv, step \in Spawning, step' \in {"parse", "segment", "page", "insert"},
           UNCHANGED <<archive, at, machine>>, loader'.name = loader.name, loader'.file = loader.file,
           loader'.image = loader.image,
           LoadedSo(loader', StackPages \cup {INITRAMFS_START}, step' = "page"),
           step' = "page" => FitsMemory(Segment'),
           step' = "insert" => loader'.segment > Len(loader'.image.segments),
           DataSo(loader', step')
    PROVE  LoaderInv'
  <1>1. machine' \in {"boot", "panic"} /\ step # "user"
    BY DEF LoaderInv, UserLast, Spawning
  <1>2. UserLast' /\ OmegaLoader'
    BY <1>1, BeforeUser
  <1>3. ArchiveRead'
    BY DEF LoaderInv, ArchiveRead, Spawning
  <1>4. LoaderFor("omega3.elf")'
    BY DEF LoaderInv, KernelLoader, LoaderFor
  <1>5. KernelLoader'
    <2>1. CASE step' = "page"
      BY <1>4, <2>1 DEF KernelLoader, FitsMemory
    <2>2. CASE step' # "page"
      BY <1>4, <2>2 DEF KernelLoader
    <2> QED
      BY <2>1, <2>2
  <1> QED
    BY <1>2, <1>3, <1>5 DEF LoaderInv

\* A segment that is done is behind the loop.
LEMMA DataGoesOn ==
    ASSUME LoaderTypes(loader), DataSo(loader, step), loader'.file = loader.file, loader'.image = loader.image,
           loader.segment \notin Loaded(loader.image) \/ step = "page",
           loader'.segment = loader.segment + 1, step' # "page"
    PROVE  DataSo(loader', step')
  <1> SUFFICES ASSUME NEW i \in Loaded(loader.image), i < loader.segment + 1
               PROVE  loader.image.segments[i].offset + loader.image.segments[i].file_size <= loader.file.length
    BY DEF DataSo
  <1>1. i \in Nat /\ loader.segment \in Nat
    BY SegmentTypes DEF Loaded, LoaderTypes
  <1>2. i < loader.segment \/ i = loader.segment
    BY <1>1, SMT
  <1> QED
    BY <1>2 DEF DataSo

LEMMA KernelPanics == ASSUME LoaderInv, NEW why, KernelPanic(why) PROVE LoaderInv'
  BY LoadersRest DEF KernelPanic, bootVars, userVars

LEMMA KernelSegment ==
    ASSUME LoaderInv, load_segment
    PROVE  LoaderInv'
  <1> DEFINE reserved == StackPages \cup {INITRAMFS_START}
  <1>1. LoadedSo(loader, reserved, FALSE) /\ step = "segment" /\ step \in Spawning /\ DataSo(loader, step)
    BY DEF LoaderInv, KernelLoader, load_segment, Booting, Spawning
  <1>2. LoaderTypes(loader) /\ loader.segment <= Len(loader.image.segments) /\ DOMAIN loader = LoaderFields
    BY <1>1 DEF LoadedSo, LoaderTypes, load_segment
  <1>3. loader.segment \in DOMAIN loader.image.segments
    BY <1>2, SMT DEF LoaderTypes
  <1>4. Segment.memory_size \in Nat
    BY <1>2, <1>3, SegmentTypes DEF Segment, Sized
  <1>5. CASE KernelPanic("image")
    BY <1>5, KernelPanics
  <1>6. CASE /\ Segment.type # "Load" \/ (Segment.memory_size = 0 /\ SegmentOk(Segment, loader.file.length))
             /\ loader' = Skipped /\ Continue("segment")
    <2>1. step' = "segment" /\ UNCHANGED <<archive, at, machine>>
      BY <1>6 DEF Continue, userVars, vars
    <2>2. loader.segment \notin Loaded(loader.image)
      BY <1>4, <1>6, SMT DEF Loaded, Segment
    <2>3. Segment.type = "Load" => Segment.file_size <= Segment.memory_size
      BY <1>6 DEF SegmentOk
    <2>4. LoadedSo(loader', reserved, FALSE)
      BY <1>1, <1>3, <1>6, <2>2, <2>3, SkipSegment
    <2>5. loader'.name = loader.name /\ loader'.file = loader.file /\ loader'.image = loader.image
      BY <1>2, <1>6 DEF Skipped, LoaderFields
    <2>6. loader'.segment = loader.segment + 1
      BY <1>2, <1>6 DEF Skipped, LoaderFields
    <2>7. DataSo(loader', step')
      BY <1>1, <1>2, <2>1, <2>2, <2>5, <2>6, DataGoesOn
    <2> QED
      BY <1>1, <2>1, <2>4, <2>5, <2>7, KernelGoesOn
  <1>7. CASE /\ Segment.type = "Load" /\ SegmentOk(Segment, loader.file.length) /\ SegmentEnd <= USER_SPACE_END
             /\ Segment.memory_size > 0
             /\ loader' = [loader EXCEPT
                    !.page = PageOf(Segment.address),
                    !.executable_entry = \/ @
                                         \/ /\ Segment.executable
                                            /\ Segment.address <= loader.image.entry
                                            /\ loader.image.entry < SegmentEnd]
             /\ Continue("page")
    <2>1. step' = "page" /\ UNCHANGED <<archive, at, machine>>
      BY <1>7 DEF Continue, userVars, vars
    <2>2. /\ loader'.name = loader.name /\ loader'.file = loader.file /\ loader'.image = loader.image
          /\ loader'.pages = loader.pages /\ loader'.segment = loader.segment
          /\ loader'.page = PageOf(Segment.address) /\ DOMAIN loader' = LoaderFields
      BY <1>2, <1>7 DEF LoaderFields
    <2>3. LoadedSo(loader', reserved, TRUE)
      BY <1>1, <1>3, <1>7, <2>2, BeginSegment DEF Loaded, Segment
    <2>4. FitsMemory(Segment')
      BY <1>7, <2>2 DEF FitsMemory, SegmentOk, Segment, SegmentEnd
    <2>5. Segment.offset + Segment.file_size <= loader.file.length
      BY <1>7 DEF SegmentOk
    <2>6. DataSo(loader', step')
      BY <1>1, <2>1, <2>2, <2>5 DEF DataSo, Segment
    <2> QED
      BY <1>1, <2>1, <2>2, <2>3, <2>4, <2>6, KernelGoesOn
  <1> QED
    BY <1>5, <1>6, <1>7 DEF load_segment

LEMMA KernelLoadsPage ==
    ASSUME LoaderInv, spawn_page
    PROVE  LoaderInv'
  <1> DEFINE reserved == StackPages \cup {INITRAMFS_START}
             same == loader'.segment = loader.segment
  <1>1. /\ LoadedSo(loader, reserved, TRUE) /\ FitsMemory(Segment) /\ step = "page" /\ step \in Spawning
        /\ DataSo(loader, step)
    BY DEF LoaderInv, KernelLoader, spawn_page, Booting, Spawning
  <1>2. /\ LoaderTypes(loader) /\ DOMAIN loader = LoaderFields
        /\ loader.segment \in Loaded(loader.image) /\ loader.page \in PagesOf(Segment)
    BY <1>1 DEF LoadedSo, LoaderTypes, Segment
  <1>3. CASE KernelPanic("memory") \/ KernelPanic("image")
    BY <1>3, KernelPanics
  <1>4. CASE /\ loader.page \notin DOMAIN loader.pages
             /\ loader' = Mapped(Page(load_page(Segment, loader.file.start, loader.page),
                                      Segment.writable, Segment.executable))
             /\ Continue(IF same THEN "page" ELSE "segment")
    <2>1. UNCHANGED <<archive, at, machine>> /\ step' = IF same THEN "page" ELSE "segment"
      BY <1>4 DEF Continue, userVars, vars
    <2>2. /\ Sized(Segment) /\ Segment.address \in Nat /\ Segment.file_size \in Nat /\ Segment.offset \in Nat
          /\ Segment.memory_size > 0 /\ loader.file.start \in Int
      BY <1>2, SegmentTypes DEF Loaded, Segment, Sized, LoaderTypes
    <2>3. loader.page \in Nat
      BY <1>2, <2>2, SegmentPage
    <2>4. loader' = Mapped(SegmentPageOf(loader, Segment, loader.page))
      BY <1>4, <2>2, <2>3, KernelPage DEF SegmentPageOf
    <2>5. Segment.file_size <= Segment.memory_size /\ SegmentEnd <= USER_SPACE_END
      BY <1>1, <2>2 DEF FitsMemory, SegmentEnd
    <2>6. LoadedSo(loader', reserved, same)
      BY <1>1, <1>4, <2>4, <2>5, MapPage
    <2>7. loader'.name = loader.name /\ loader'.file = loader.file /\ loader'.image = loader.image
      BY <1>2, <1>4 DEF Mapped, LoaderFields
    <2>8. same => FitsMemory(Segment')
      BY <1>1, <2>7 DEF FitsMemory, Segment
    <2>9. CASE same
      <3>1. DataSo(loader', step')
        BY <1>1, <2>1, <2>7, <2>9 DEF DataSo
      <3> QED
        BY <1>1, <2>1, <2>6, <2>7, <2>8, <2>9, <3>1, KernelGoesOn
    <2>10. CASE ~same
      <3>1. loader'.segment = loader.segment + 1
        BY <1>2, <1>4, <2>10 DEF Mapped, LoaderFields
      <3>2. DataSo(loader', step')
        BY <1>1, <1>2, <2>1, <2>7, <2>10, <3>1, DataGoesOn
      <3> QED
        BY <1>1, <2>1, <2>6, <2>7, <2>10, <3>2, KernelGoesOn
    <2> QED
      BY <2>9, <2>10
  <1> QED
    BY <1>3, <1>4 DEF spawn_page

LEMMA KernelSpawns ==
    ASSUME LoaderInv, bootstrap_spawn
    PROVE  LoaderInv'
  <1> DEFINE reserved == StackPages \cup {INITRAMFS_START}
  <1> USE DEF Spawning
  <1>1. CASE Handover
    <2>1. step # "user" /\ step' = "spawn" /\ archive' \in Archives /\ UNCHANGED <<at, machine>>
      BY <1>1 DEF Handover, userVars, vars
    <2>2. machine' \in {"boot", "panic"}
      BY <2>1 DEF LoaderInv, UserLast
    <2>3. UserLast' /\ OmegaLoader'
      BY <2>1, <2>2, BeforeUser
    <2> QED
      BY <2>1, <2>3 DEF LoaderInv, ArchiveRead, KernelLoader
  <1>2. CASE spawn_find
    <2> DEFINE file == find_file(archive, "omega3.elf")
    <2>1. CASE KernelPanic("archive")
      BY <2>1, KernelPanics
    <2>2. CASE /\ file # None
               /\ \E image \in Images["omega3.elf"] :
                     loader' = [Idle EXCEPT !.name = "omega3.elf", !.file = file, !.image = image]
               /\ Continue("resources")
      <3>1. step = "spawn" /\ step' = "resources" /\ UNCHANGED <<archive, at, machine>>
        BY <1>2, <2>2 DEF spawn_find, Booting, Continue, userVars, vars
      <3>2. archive \in Archives /\ machine' \in {"boot", "panic"}
        BY <3>1 DEF LoaderInv, ArchiveRead, UserLast
      <3>3. IsFirst(archive, "omega3.elf", file)
        BY <2>2, <3>2, KernelFinds DEF TRAILER
      <3>4. LoaderFor("omega3.elf")' /\ LoaderTypes(loader') /\ loader'.segment = 1
        BY <2>2, <3>1, <3>2, <3>3, ProgramFound
      <3>5. UserLast' /\ OmegaLoader'
        BY <3>1, <3>2, BeforeUser
      <3>6. ArchiveRead'
        BY <2>2, <3>1, <3>2 DEF ArchiveRead
      <3> QED
        BY <3>1, <3>4, <3>5, <3>6 DEF LoaderInv, KernelLoader
    <2> QED
      BY <1>2, <2>1, <2>2 DEF spawn_find
  <1>3. CASE spawn_resources
    <2>1. CASE KernelPanic("memory")
      BY <2>1, KernelPanics
    <2>2. CASE /\ loader' = [loader EXCEPT !.pages = [page \in reserved |-> Page(Blank(Stale), TRUE, FALSE)]]
               /\ Continue("parse")
      <3>1. step = "resources" /\ step' = "parse" /\ UNCHANGED <<archive, at, machine>>
        BY <1>3, <2>2 DEF spawn_resources, Booting, Continue, userVars, vars
      <3>2. LoaderTypes(loader) /\ DOMAIN loader = LoaderFields /\ loader.segment = 1
        BY <3>1 DEF LoaderInv, KernelLoader, LoaderTypes
      <3>3. /\ loader'.name = loader.name /\ loader'.file = loader.file /\ loader'.image = loader.image
            /\ loader'.segment = loader.segment /\ DOMAIN loader' = LoaderFields
            /\ loader'.pages = [page \in reserved |-> Page(Blank(Stale), TRUE, FALSE)]
        BY <2>2, <3>2 DEF LoaderFields
      <3>4. LoaderTypes(loader') /\ loader'.segment = 1 /\ DOMAIN loader'.pages = reserved
        BY <3>2, <3>3 DEF LoaderTypes
      <3>5. LoadedSo(loader', reserved, FALSE)
        BY <3>4, FreshLoads
      <3>6. ASSUME NEW i \in Loaded(loader'.image)
            PROVE  ~(i < loader'.segment)
        <4>1. i \in DOMAIN loader'.image.segments
          BY DEF Loaded
        <4> QED
          BY <3>4, <4>1, SMT DEF LoaderTypes
      <3>7. DataSo(loader', step')
        BY <3>1, <3>6 DEF DataSo
      <3> QED
        BY <3>1, <3>3, <3>5, <3>7, KernelGoesOn
    <2> QED
      BY <1>3, <2>1, <2>2 DEF spawn_resources
  <1>4. CASE spawn_parse \/ load_elf_end
    <2>1. CASE KernelPanic("image")
      BY <2>1, KernelPanics
    <2>2. CASE /\ UNCHANGED loader
               /\ \/ step = "parse" /\ Continue("segment")
                  \/ step = "segment" /\ loader.segment > Len(loader.image.segments) /\ Continue("insert")
      <3>1. /\ step \in {"parse", "segment"} /\ step' \in {"segment", "insert"} /\ UNCHANGED <<archive, at, machine>>
            /\ step' = "insert" => loader.segment > Len(loader.image.segments)
        BY <2>2 DEF Continue, userVars, vars
      <3>2. LoadedSo(loader', reserved, FALSE)
        BY <2>2, <3>1 DEF LoaderInv, KernelLoader
      <3>3. DataSo(loader, step)
        BY <3>1 DEF LoaderInv, KernelLoader
      <3>4. DataSo(loader', step')
        BY <2>2, <3>1, <3>3 DEF DataSo
      <3> QED
        BY <2>2, <3>1, <3>2, <3>4, KernelGoesOn
    <2> QED
      BY <1>4, <2>1, <2>2 DEF spawn_parse, load_elf_end, Booting
  <1>5. CASE spawn_insert \/ scheduler_start
    <2>1. step \in {"insert", "start"} /\ step' \in {"start", "user"} /\ UNCHANGED <<archive, at>>
      BY <1>5 DEF spawn_insert, scheduler_start, Booting, userVars
    <2>2. machine' \in {"boot", "panic"} \/ step' = "user"
      BY <1>5 DEF spawn_insert, scheduler_start, Booting, Spawn, add_task, Assert
    <2>3. UserLast' /\ OmegaLoader'
      BY <2>1, <2>2, BeforeUser
    <2>4. ArchiveRead'
      BY <2>1 DEF LoaderInv, ArchiveRead
    <2> QED
      BY <2>1, <2>3, <2>4 DEF LoaderInv, KernelLoader
  <1> QED
    BY <1>1, <1>2, <1>3, <1>4, <1>5, KernelSegment, KernelLoadsPage DEF bootstrap_spawn

-----------------------------------------------------------------------------
(* The steps of omega3.                                                    *)

\* omega3 runs after the start-up; its steps leave the archive and the boot path alone.
LEMMA OmegaKeeps ==
    ASSUME LoaderInv, machine = "running", UNCHANGED <<bootVars, archive>>, DOMAIN at' = DOMAIN at
    PROVE  /\ step = "user" /\ step' = "user" /\ UserLast' /\ ArchiveRead' /\ KernelLoader'
           /\ archive \in Archives /\ find_file(archive, "omega3.elf") # None /\ archive' = archive
  <1>1. step = "user" /\ step' = "user"
    BY DEF LoaderInv, UserLast, bootVars
  <1> QED
    BY <1>1 DEF LoaderInv, UserLast, ArchiveRead, KernelLoader, Spawning

\* Outside load_elf nothing is asked of the loader.
LEMMA OmegaLeaves ==
    ASSUME LoaderInv, machine = "running", UNCHANGED <<bootVars, archive>>, DOMAIN at' = DOMAIN at,
           at'[omega3] \notin Loading
    PROVE  LoaderInv'
  <1>1. OmegaLoader'
    BY DEF OmegaLoader, Loading
  <1> QED
    BY <1>1, OmegaKeeps DEF LoaderInv

LEMMA OmegaPanics ==
    ASSUME LoaderInv, machine = "running", NEW why, OmegaPanic(why) \/ OmegaFault(why)
    PROVE  LoaderInv'
  <1>1. DOMAIN at = TaskId /\ omega3 \in TaskId
    BY ThreePrograms DEF LoaderInv, UserLast
  <1>2. DOMAIN at' = DOMAIN at /\ at'[omega3] = "gone"
    BY <1>1 DEF OmegaPanic, OmegaFault, OmegaStops, Goto
  <1> QED
    BY <1>2, OmegaLeaves DEF OmegaPanic, OmegaFault, OmegaStops, Loading

\* A step of load_elf: the place and the loader go on together.
LEMMA OmegaGoesOn ==
    ASSUME LoaderInv, machine = "running", NEW place, OmegaGoto(place), at[omega3] \in Loading,
           loader'.name = loader.name, loader'.file = loader.file, loader'.image = loader.image,
           place \in {"parse", "as_create", "header"} => LoadedSo(loader', {}, FALSE),
           place \in {"frame", "scratch", "unmap", "map"} => LoadedSo(loader', {}, TRUE),
           place \in {"unmap", "map"} =>
               loader'.scratch = SegmentBytes(Segment', loader'.file.start, loader'.page),
           place \in {"stack_frame", "stack_map", "create"} => loader'.segment > Len(loader'.image.segments),
           place \in {"stack_frame", "stack_map"} =>
               \E n \in 0..(STACK_PAGES - 1) :
                   loader'.page = STACK_TOP - (n + 1) * FRAME_SIZE /\ LoadedSo(loader', StackPart(n), FALSE),
           place = "create" => LoadedSo(loader', StackPages, FALSE)
    PROVE  LoaderInv'
  <1>1. DOMAIN at = TaskId /\ omega3 \in TaskId
    BY ThreePrograms DEF LoaderInv, UserLast
  <1>2. DOMAIN at' = DOMAIN at /\ at'[omega3] = place /\ UNCHANGED <<bootVars, archive>>
    BY <1>1 DEF OmegaGoto, Goto
  <1>3. PICK name \in {"echo.elf", "client.elf"} : LoaderFor(name)
    BY DEF LoaderInv, OmegaLoader
  <1>4. LoaderFor(name)'
    BY <1>2, <1>3 DEF LoaderFor
  <1>5. OmegaLoader'
    BY <1>2, <1>4 DEF OmegaLoader
  <1> QED
    BY <1>2, <1>5, OmegaKeeps DEF LoaderInv

LEMMA OmegaFindsProgram ==
    ASSUME LoaderInv, omega_find
    PROVE  LoaderInv'
  <1> DEFINE file == omega_find_file(archive, Target)
  <1>1. machine = "running" /\ DOMAIN at = TaskId /\ omega3 \in TaskId
    BY ThreePrograms DEF omega_find, Running, InUserMode, LoaderInv, UserLast
  <1>2. CASE OmegaPanic("archive")
    BY <1>1, <1>2, OmegaPanics
  <1>3. CASE /\ file # None /\ OmegaGoto("parse")
             /\ \E image \in Images[Target] :
                   loader' = [Idle EXCEPT !.name = Target, !.file = file, !.image = image]
    <2>1. DOMAIN at' = DOMAIN at /\ at'[omega3] = "parse" /\ UNCHANGED <<bootVars, archive>>
      BY <1>1, <1>3 DEF OmegaGoto, Goto
    <2>2. archive \in Archives /\ find_file(archive, "omega3.elf") # None
      BY <1>1, <2>1, OmegaKeeps
    <2>3. Target \in {"echo.elf", "client.elf"} /\ IsFirst(archive, Target, file)
      BY <1>3, <2>2, OmegaFinds DEF Target, TRAILER
    <2>4. PICK name \in {"echo.elf", "client.elf"} : name = Target
      BY <2>3
    <2>5. LoaderFor(name)' /\ LoaderTypes(loader') /\ loader'.segment = 1 /\ DOMAIN loader'.pages = {}
      BY <1>3, <2>1, <2>2, <2>3, <2>4, ProgramFound
    <2>6. LoadedSo(loader', {}, FALSE)
      BY <2>5, FreshLoads
    <2>7. OmegaLoader'
      BY <2>1, <2>5, <2>6 DEF OmegaLoader
    <2> QED
      BY <1>1, <2>1, <2>7, OmegaKeeps DEF LoaderInv
  <1> QED
    BY <1>2, <1>3 DEF omega_find

\* omega3 does not check that the data of a segment fits; it relies on its images.
LEMMA OmegaImages ==
    ASSUME LoaderInv, at[omega3] \in Loading, NEW i \in DOMAIN loader.image.segments,
           loader.image.segments[i].type = "Load"
    PROVE  loader.image.segments[i].file_size <= loader.image.segments[i].memory_size
  <1>1. PICK name \in {"echo.elf", "client.elf"} : LoaderFor(name)
    BY DEF LoaderInv, OmegaLoader
  <1>2. loader.image \in Images[name] /\ name \in {"omega3.elf", "echo.elf", "client.elf"} /\ name # "omega3.elf"
    BY <1>1 DEF LoaderFor
  <1> QED
    BY <1>2, ImagesAssumption

LEMMA OmegaHeader ==
    ASSUME LoaderInv, omega_header
    PROVE  LoaderInv'
  <1>1. machine = "running" /\ at[omega3] = "header" /\ at[omega3] \in Loading
    BY DEF omega_header, Running, InUserMode, Loading
  <1>2. LoadedSo(loader, {}, FALSE)
    BY <1>1 DEF LoaderInv, OmegaLoader
  <1>3. LoaderTypes(loader) /\ DOMAIN loader = LoaderFields
    BY <1>2 DEF LoadedSo, LoaderTypes
  <1>4. CASE /\ loader.segment > Len(loader.image.segments)
             /\ loader' = [loader EXCEPT !.page = STACK_TOP - FRAME_SIZE]
             /\ OmegaGoto("stack_frame")
    <2>1. /\ loader'.name = loader.name /\ loader'.file = loader.file /\ loader'.image = loader.image
          /\ loader'.segment = loader.segment /\ loader'.pages = loader.pages
          /\ loader'.page = STACK_TOP - FRAME_SIZE /\ DOMAIN loader' = LoaderFields
      BY <1>3, <1>4 DEF LoaderFields
    <2>2. StackPart(0) = {} /\ 0 \in 0..(STACK_PAGES - 1) /\ STACK_TOP - FRAME_SIZE = STACK_TOP - (0 + 1) * FRAME_SIZE
      BY StackAssumption, FrameSizeAssumption, SMT DEF StackPart
    <2>3. LoadedSo(loader', StackPart(0), FALSE)
      BY <1>2, <2>1, <2>2 DEF LoadedSo, LoaderTypes, PagesAre, ContentsAre, SegmentsFit, PagesDone, SegmentPageOf
    <2>4. \E n \in 0..(STACK_PAGES - 1) :
              loader'.page = STACK_TOP - (n + 1) * FRAME_SIZE /\ LoadedSo(loader', StackPart(n), FALSE)
      BY <2>1, <2>2, <2>3
    <2> QED
      BY <1>1, <1>4, <2>1, <2>4, OmegaGoesOn
  <1>5. CASE /\ loader.segment <= Len(loader.image.segments)
             /\ Segment.type # "Load" \/ Segment.memory_size = 0
             /\ loader' = Skipped /\ OmegaGoto("header")
    <2>1. loader.segment \in DOMAIN loader.image.segments
      BY <1>3, <1>5, SMT DEF LoaderTypes
    <2>2. loader.segment \notin Loaded(loader.image)
      <3>1. ~(0 > 0)
        BY SMT
      <3> QED
        BY <1>5, <3>1 DEF Loaded, Segment
    <2>3. Segment.type = "Load" => Segment.file_size <= Segment.memory_size
      BY <1>1, <2>1, OmegaImages DEF Segment
    <2>4. LoadedSo(loader', {}, FALSE)
      BY <1>2, <1>5, <2>1, <2>2, <2>3, SkipSegment
    <2>5. loader'.name = loader.name /\ loader'.file = loader.file /\ loader'.image = loader.image
      BY <1>3, <1>5 DEF Skipped, LoaderFields
    <2> QED
      BY <1>1, <1>5, <2>4, <2>5, OmegaGoesOn
  <1>6. CASE /\ loader.segment <= Len(loader.image.segments)
             /\ Segment.type = "Load" /\ Segment.memory_size > 0
             /\ loader' = [loader EXCEPT !.page = PageOf(Segment.address)]
             /\ OmegaGoto("frame")
    <2>1. loader.segment \in DOMAIN loader.image.segments
      BY <1>3, <1>6, SMT DEF LoaderTypes
    <2>2. /\ loader'.name = loader.name /\ loader'.file = loader.file /\ loader'.image = loader.image
          /\ loader'.pages = loader.pages /\ loader'.segment = loader.segment
          /\ loader'.page = PageOf(Segment.address) /\ DOMAIN loader' = LoaderFields
      BY <1>3, <1>6 DEF LoaderFields
    <2>3. LoadedSo(loader', {}, TRUE)
      BY <1>2, <1>6, <2>1, <2>2, BeginSegment DEF Loaded, Segment
    <2> QED
      BY <1>1, <1>6, <2>2, <2>3, OmegaGoesOn
  <1>7. CASE OmegaPanic("image")
    BY <1>1, <1>7, OmegaPanics
  <1> QED
    BY <1>4, <1>5, <1>6, <1>7 DEF omega_header

LEMMA OmegaMapsPage ==
    ASSUME LoaderInv, omega_scratch \/ omega_map
    PROVE  LoaderInv'
  <1> DEFINE same == loader'.segment = loader.segment
  <1>1. machine = "running" /\ at[omega3] \in {"scratch", "map"} /\ at[omega3] \in Loading
    BY DEF omega_scratch, omega_map, Running, InUserMode, Loading
  <1>2. LoadedSo(loader, {}, TRUE) /\ LoaderTypes(loader) /\ DOMAIN loader = LoaderFields
    BY <1>1 DEF LoaderInv, OmegaLoader, LoadedSo, LoaderTypes
  <1>3. /\ loader.segment \in DOMAIN loader.image.segments /\ loader.segment \in Loaded(loader.image)
        /\ Segment.type = "Load" /\ loader.page \in PagesOf(Segment)
    BY <1>2 DEF LoadedSo, Loaded, Segment
  <1>4. /\ Sized(Segment) /\ Segment.address \in Nat /\ Segment.memory_size \in Nat
        /\ Segment.file_size \in Nat /\ Segment.offset \in Nat /\ loader.file.start \in Int
    BY <1>2, <1>3, SegmentTypes DEF Segment, Sized, LoaderTypes
  <1>5. loader.page \in Nat
    BY <1>3, <1>4, SegmentPage
  <1>6. CASE OmegaPanic("memory") \/ OmegaPanic("image") \/ OmegaFault("image")
    BY <1>1, <1>6, OmegaPanics
  <1>7. CASE /\ loader' = [loader EXCEPT !.scratch = omega_load_page(Segment, loader.file.start, loader.page)]
             /\ OmegaGoto("unmap")
    <2>1. /\ loader'.name = loader.name /\ loader'.file = loader.file /\ loader'.image = loader.image
          /\ loader'.pages = loader.pages /\ loader'.segment = loader.segment /\ loader'.page = loader.page
          /\ loader'.scratch = omega_load_page(Segment, loader.file.start, loader.page)
          /\ DOMAIN loader' = LoaderFields
      BY <1>2, <1>7 DEF LoaderFields
    <2>2. loader'.scratch = SegmentBytes(Segment', loader'.file.start, loader'.page)
      BY <1>4, <1>5, <2>1, OmegaPage DEF Segment
    <2>3. LoadedSo(loader', {}, TRUE)
      BY <1>2, <2>1 DEF LoadedSo, LoaderTypes, PagesAre, ContentsAre, SegmentsFit, PagesDone, SegmentPageOf
    <2> QED
      BY <1>1, <1>7, <2>1, <2>2, <2>3, OmegaGoesOn
  <1>8. CASE /\ at[omega3] = "map" /\ ~CannotMap
             /\ loader' = Mapped(Page(loader.scratch, Segment.writable, Segment.executable))
             /\ OmegaGoto(IF same THEN "frame" ELSE "header")
    <2>1. loader' = Mapped(SegmentPageOf(loader, Segment, loader.page))
      BY <1>8 DEF LoaderInv, OmegaLoader, SegmentPageOf
    <2>2. Segment.file_size <= Segment.memory_size
      BY <1>1, <1>3, OmegaImages DEF Segment
    <2>3. loader.page \notin DOMAIN loader.pages /\ ~(loader.page + FRAME_SIZE > USER_SPACE_END)
      BY <1>8 DEF CannotMap
    <2>4. ~(loader.page + FRAME_SIZE < SegmentEnd) => SegmentEnd <= USER_SPACE_END
      BY <1>4, <1>5, <2>3, FrameSizeAssumption, AddressAssumption, SMT DEF SegmentEnd
    <2>5. LoadedSo(loader', {}, same)
      BY <1>2, <2>1, <2>2, <2>3, <2>4, MapPage
    <2>6. loader'.name = loader.name /\ loader'.file = loader.file /\ loader'.image = loader.image
      BY <1>2, <1>8 DEF Mapped, LoaderFields
    <2>7. CASE same
      BY <1>1, <1>8, <2>5, <2>6, <2>7, OmegaGoesOn
    <2>8. CASE ~same
      BY <1>1, <1>8, <2>5, <2>6, <2>8, OmegaGoesOn
    <2> QED
      BY <2>7, <2>8
  <1> QED
    BY <1>6, <1>7, <1>8 DEF omega_scratch, omega_map, Running

\* The loop of map_stack goes down one page at a time and stops after the last.
LEMMA StackGrows ==
    ASSUME NEW n \in 0..(STACK_PAGES - 1)
    PROVE  LET page == STACK_TOP - (n + 1) * FRAME_SIZE
               down == page - FRAME_SIZE < STACK_TOP - STACK_PAGES * FRAME_SIZE
           IN  /\ StackPart(n) \cup {page} = StackPart(n + 1)
               /\ down => StackPart(n + 1) = StackPages
               /\ ~down => n + 1 \in 0..(STACK_PAGES - 1) /\ page - FRAME_SIZE = STACK_TOP - (n + 1 + 1) * FRAME_SIZE
  <1> USE StackAssumption, FrameSizeAssumption
  <1>1. StackPart(n) \cup {STACK_TOP - (n + 1) * FRAME_SIZE} = StackPart(n + 1)
    <2>1. 1..(n + 1) = (1..n) \cup {n + 1}
      BY SMT
    <2> QED
      BY <2>1 DEF StackPart
  <1>2. STACK_TOP - (n + 1) * FRAME_SIZE - FRAME_SIZE = STACK_TOP - (n + 1 + 1) * FRAME_SIZE
    BY SMT
  <1>3. n + 1 + 1 <= STACK_PAGES => (n + 1 + 1) * FRAME_SIZE <= STACK_PAGES * FRAME_SIZE
    BY SMT
  <1>4. CASE n + 1 + 1 <= STACK_PAGES
    <2>1. n + 1 \in 0..(STACK_PAGES - 1)
      BY <1>4, SMT
    <2>2. ~(STACK_TOP - (n + 1 + 1) * FRAME_SIZE < STACK_TOP - STACK_PAGES * FRAME_SIZE)
      BY <1>3, <1>4, SMT
    <2> QED
      BY <1>1, <1>2, <2>1, <2>2
  <1>5. CASE ~(n + 1 + 1 <= STACK_PAGES)
    <2>1. n + 1 = STACK_PAGES
      BY <1>5, SMT
    <2>2. STACK_TOP - (STACK_PAGES + 1) * FRAME_SIZE < STACK_TOP - STACK_PAGES * FRAME_SIZE
      BY SMT
    <2> QED
      BY <1>1, <1>2, <2>1, <2>2 DEF StackPart, StackPages
  <1> QED
    BY <1>4, <1>5

LEMMA OmegaMapsStack ==
    ASSUME LoaderInv, omega_stack_map
    PROVE  LoaderInv'
  <1>1. machine = "running" /\ at[omega3] = "stack_map" /\ at[omega3] \in Loading
    BY DEF omega_stack_map, Running, InUserMode, Loading
  <1>2. /\ loader.segment > Len(loader.image.segments)
        /\ \E n \in 0..(STACK_PAGES - 1) :
              loader.page = STACK_TOP - (n + 1) * FRAME_SIZE /\ LoadedSo(loader, StackPart(n), FALSE)
    BY <1>1 DEF LoaderInv, OmegaLoader
  <1>3. PICK n \in 0..(STACK_PAGES - 1) :
              loader.page = STACK_TOP - (n + 1) * FRAME_SIZE /\ LoadedSo(loader, StackPart(n), FALSE)
    BY <1>2
  <1> DEFINE down == loader'.page < STACK_TOP - STACK_PAGES * FRAME_SIZE
  <1>4. CASE OmegaPanic("memory") \/ OmegaPanic("image")
    BY <1>1, <1>4, OmegaPanics
  <1>5. CASE /\ ~CannotMap
             /\ loader' = [loader EXCEPT !.page = @ - FRAME_SIZE,
                       !.pages = [p \in DOMAIN @ \cup {loader.page} |->
                                     IF p = loader.page THEN Page(Blank(Zero), TRUE, FALSE) ELSE @[p]]]
             /\ OmegaGoto(IF down THEN "create" ELSE "stack_frame")
    <2>1. DOMAIN loader = LoaderFields
      BY <1>3 DEF LoadedSo, LoaderTypes
    <2>2. /\ loader'.name = loader.name /\ loader'.file = loader.file /\ loader'.image = loader.image
          /\ loader'.segment = loader.segment /\ loader'.page = loader.page - FRAME_SIZE
          /\ loader'.pages = [p \in DOMAIN loader.pages \cup {loader.page} |->
                                 IF p = loader.page THEN Page(Blank(Zero), TRUE, FALSE) ELSE loader.pages[p]]
          /\ DOMAIN loader' = LoaderFields
      BY <1>5, <2>1 DEF LoaderFields
    <2>3. loader.page \notin DOMAIN loader.pages
      BY <1>5 DEF CannotMap
    <2>4. LoadedSo(loader', StackPart(n) \cup {loader.page}, FALSE)
      BY <1>3, <2>2, <2>3, ReservePage
    <2>5. /\ StackPart(n) \cup {loader.page} = StackPart(n + 1)
          /\ down => StackPart(n + 1) = StackPages
          /\ ~down => n + 1 \in 0..(STACK_PAGES - 1) /\ loader'.page = STACK_TOP - (n + 1 + 1) * FRAME_SIZE
      BY <1>3, <2>2, StackGrows
    <2>6. CASE down
      BY <1>1, <1>2, <1>5, <2>2, <2>4, <2>5, <2>6, OmegaGoesOn
    <2>7. CASE ~down
      <3>1. \E m \in 0..(STACK_PAGES - 1) :
               loader'.page = STACK_TOP - (m + 1) * FRAME_SIZE /\ LoadedSo(loader', StackPart(m), FALSE)
        BY <2>4, <2>5, <2>7
      <3> QED
        BY <1>1, <1>2, <1>5, <2>2, <2>7, <3>1, OmegaGoesOn
    <2> QED
      BY <2>6, <2>7
  <1> QED
    BY <1>4, <1>5 DEF omega_stack_map

\* System calls of load_elf that leave the loader as it is.
LEMMA OmegaCalls ==
    ASSUME LoaderInv,
           \/ omega_parse \/ omega_as_create \/ omega_unmap
           \/ FrameAlloc("frame", "scratch") \/ FrameAlloc("stack_frame", "stack_map")
    PROVE  LoaderInv'
  <1>1. machine = "running"
    BY DEF omega_parse, omega_as_create, omega_unmap, FrameAlloc, Running, InUserMode
  <1>2. CASE \E why : OmegaPanic(why)
    BY <1>1, <1>2, OmegaPanics
  <1>3. ASSUME UNCHANGED loader, at[omega3] \in {"parse", "as_create"},
               OmegaGoto("as_create") \/ OmegaGoto("header")
        PROVE  LoaderInv'
    <2>1. LoadedSo(loader', {}, FALSE) /\ at[omega3] \in Loading
      BY <1>3 DEF LoaderInv, OmegaLoader, Loading
    <2> QED
      BY <1>1, <1>3, <2>1, OmegaGoesOn
  <1>4. ASSUME UNCHANGED loader, at[omega3] = "frame", OmegaGoto("scratch")
        PROVE  LoaderInv'
    <2>1. LoadedSo(loader', {}, TRUE) /\ at[omega3] \in Loading
      BY <1>4 DEF LoaderInv, OmegaLoader, Loading
    <2> QED
      BY <1>1, <1>4, <2>1, OmegaGoesOn
  <1>5. ASSUME UNCHANGED loader, at[omega3] = "unmap", OmegaGoto("map")
        PROVE  LoaderInv'
    <2>1. /\ LoadedSo(loader', {}, TRUE) /\ at[omega3] \in Loading
          /\ loader'.scratch = SegmentBytes(Segment', loader'.file.start, loader'.page)
      BY <1>5 DEF LoaderInv, OmegaLoader, Loading, Segment
    <2> QED
      BY <1>1, <1>5, <2>1, OmegaGoesOn
  <1>6. ASSUME UNCHANGED loader, at[omega3] = "stack_frame", OmegaGoto("stack_map")
        PROVE  LoaderInv'
    <2>1. /\ loader'.segment > Len(loader'.image.segments) /\ at[omega3] \in Loading
          /\ \E n \in 0..(STACK_PAGES - 1) :
                loader'.page = STACK_TOP - (n + 1) * FRAME_SIZE /\ LoadedSo(loader', StackPart(n), FALSE)
      BY <1>6 DEF LoaderInv, OmegaLoader, Loading
    <2> QED
      BY <1>1, <1>6, <2>1, OmegaGoesOn
  <1> QED
    BY <1>2, <1>3, <1>4, <1>5, <1>6 DEF omega_parse, omega_as_create, omega_unmap, FrameAlloc, Running

LEMMA OmegaSteps == ASSUME LoaderInv, Omega3 PROVE LoaderInv'
  <1>1. CASE omega_create \/ omega_bogus_call
    <2>1. machine = "running" /\ DOMAIN at = TaskId /\ omega3 \in TaskId /\ UNCHANGED <<bootVars, archive>>
      BY <1>1, ThreePrograms DEF omega_create, omega_bogus_call, Running, InUserMode, LoaderInv, UserLast
    <2>2. DOMAIN at' = DOMAIN at /\ at'[omega3] \in {"panic", "start", "bogus", "gone"}
      BY <1>1, <2>1 DEF omega_create, omega_bogus_call, Goto
    <2> QED
      BY <2>1, <2>2, OmegaLeaves DEF Loading
  <1> QED
    BY <1>1, OmegaFindsProgram, OmegaHeader, OmegaMapsPage, OmegaMapsStack, OmegaCalls DEF Omega3

\* echo, client and the exits leave the loader alone.
LEMMA OthersRest ==
    ASSUME LoaderInv, machine = "running", UNCHANGED <<bootVars, archive, loader>>,
           DOMAIN at' = DOMAIN at, at'[omega3] = at[omega3]
    PROVE  LoaderInv'
  <1>1. OmegaLoader'
    BY DEF LoaderInv, OmegaLoader, LoaderFor, Segment
  <1> QED
    BY <1>1, OmegaKeeps DEF LoaderInv

LEMMA OtherPrograms ==
    ASSUME LoaderInv, Echo \/ Client \/ \E t \in TaskId : Leave(t)
    PROVE  LoaderInv'
  <1>1. omega3 # echo /\ omega3 # client
    BY SMT DEF omega3, echo, client
  <1>2. DOMAIN at = TaskId /\ omega3 \in TaskId
    BY ThreePrograms DEF LoaderInv, UserLast
  <1>3. ASSUME NEW t, t # omega3, NEW place, NEW next, Receive(t, place, next)
        PROVE  LoaderInv'
    <2>1. machine = "running" /\ UNCHANGED <<bootVars, archive, loader>>
      BY <1>3 DEF Receive, InUserMode, RecvResume
    <2>2. DOMAIN at' = DOMAIN at /\ at'[omega3] = at[omega3]
      BY <1>2, <1>3 DEF Receive, Goto
    <2> QED
      BY <2>1, <2>2, OthersRest
  <1>4. ASSUME NEW t, t # omega3, NEW place, NEW dest, NEW data, NEW next, SendTo(t, place, dest, data, next)
        PROVE  LoaderInv'
    <2>1. machine = "running" /\ UNCHANGED <<bootVars, archive, loader>>
      BY <1>4 DEF SendTo, Running, InUserMode
    <2>2. DOMAIN at' = DOMAIN at /\ at'[omega3] = at[omega3]
      BY <1>2, <1>4 DEF SendTo, Goto
    <2> QED
      BY <2>1, <2>2, OthersRest
  <1>5. ASSUME NEW t \in TaskId, Leave(t)
        PROVE  LoaderInv'
    <2>1. machine = "running" /\ UNCHANGED <<bootVars, archive, loader>> /\ at' = [at EXCEPT ![t] = "gone"]
      BY <1>5 DEF Leave, InUserMode, Goto
    <2>2. CASE t = omega3
      <3>1. DOMAIN at' = DOMAIN at /\ at'[omega3] \notin Loading
        BY <1>2, <2>1, <2>2 DEF Loading
      <3> QED
        BY <2>1, <3>1, OmegaLeaves
    <2>3. CASE t # omega3
      <3>1. DOMAIN at' = DOMAIN at /\ at'[omega3] = at[omega3]
        BY <1>2, <2>1, <2>3
      <3> QED
        BY <2>1, <3>1, OthersRest
    <2> QED
      BY <2>2, <2>3
  <1>6. CASE Echo
    BY <1>1, <1>3, <1>4, <1>6 DEF Echo
  <1>7. CASE Client
    BY <1>1, <1>3, <1>4, <1>7 DEF Client
  <1> QED
    BY <1>5, <1>6, <1>7

-----------------------------------------------------------------------------
LEMMA LoaderInit == SystemInit => LoaderInv
  <1> SUFFICES ASSUME SystemInit
               PROVE  LoaderInv
    OBVIOUS
  <1>1. step = "rsdp" /\ machine = "boot" /\ at = [t \in TaskId |-> "start"]
    BY DEF SystemInit, ControllerInit, Init, SchedInit
  <1>2. DOMAIN at = TaskId /\ at[omega3] = "start"
    BY <1>1, ThreePrograms
  <1> QED
    BY <1>1, <1>2 DEF LoaderInv, UserLast, ArchiveRead, KernelLoader, OmegaLoader, Spawning, Loading

LEMMA LoaderStep == LoaderInv /\ [SystemNext]_sysVars => LoaderInv'
  <1> SUFFICES ASSUME LoaderInv, [SystemNext]_sysVars
               PROVE  LoaderInv'
    OBVIOUS
  <1>1. CASE StartUp
    <2>1. UserLast' /\ OmegaLoader'
      BY <1>1, StartUpStays, BeforeUser
    <2> QED
      BY <1>1, <2>1, StartUpStays DEF LoaderInv, ArchiveRead, KernelLoader, Spawning
  <1>2. CASE Hardware \/ LateInterrupt \/ Halted_forever \/ UNCHANGED sysVars
    <2>1. UNCHANGED <<step, archive, loader, at, machine>>
      <3>1. CASE Hardware
        BY <3>1 DEF Hardware, Devices, record_pit_calibration, PitRises, Tick, vars, userVars
      <3>2. CASE LateInterrupt
        BY <3>2 DEF LateInterrupt, vars, userVars
      <3>3. CASE Halted_forever
        BY <3>3 DEF Halted_forever, Halt, hcf, schedVars, bootVars, userVars
      <3>4. CASE UNCHANGED sysVars
        BY <3>4 DEF sysVars, vars, bootVars, userVars
      <3> QED
        BY <1>2, <3>1, <3>2, <3>3, <3>4
    <2>2. step = "user" \/ machine' \in {"boot", "panic"}
      BY <2>1 DEF LoaderInv, UserLast
    <2> QED
      BY <2>1, <2>2, LoadersRest
  <1> QED
    BY <1>1, <1>2, KernelSpawns, OmegaSteps, OtherPrograms DEF SystemNext, Software

LEMMA LoaderInvMatches == LoaderInv => ImageMatchesFile
  <1> SUFFICES ASSUME LoaderInv, step = "insert" \/ at[omega3] = "create"
               PROVE  ImageMatchesFile
    BY DEF ImageMatchesFile
  <1> DEFINE reserved == StackPages \cup (IF step = "insert" THEN {INITRAMFS_START} ELSE {})
  <1>1. /\ LoadedSo(loader, reserved, FALSE) /\ loader.segment > Len(loader.image.segments)
        /\ archive \in Archives /\ (\E name : LoaderFor(name))
        /\ step = "insert" => DataSo(loader, step)
    <2>1. CASE step = "insert"
      BY <2>1 DEF LoaderInv, KernelLoader, ArchiveRead, Spawning
    <2>2. CASE step # "insert" /\ at[omega3] = "create"
      <3>1. step = "user" /\ reserved = StackPages
        BY <2>2 DEF LoaderInv, UserLast
      <3> QED
        BY <2>2, <3>1 DEF LoaderInv, OmegaLoader, ArchiveRead, Loading
    <2> QED
      BY <2>1, <2>2
  <1>2. loader.file.start = Stored(loader.name)
    BY <1>1, FileStored DEF LoaderFor
  <1> HIDE DEF reserved
  <1> DEFINE image == loader.image
             loaded == DOMAIN loader.pages \ reserved
  <1>3. /\ Fits(image, reserved)
        /\ loaded = UNION {PagesOf(image.segments[i]) : i \in Loaded(image)}
        /\ \A p \in loaded, b \in 0..(FRAME_SIZE - 1) :
              loader.pages[p].bytes[b] = FileByte(image, loader.file.start, p + b)
        /\ \A i \in Loaded(image) : \A p \in PagesOf(image.segments[i]) :
              /\ loader.pages[p].writable = image.segments[i].writable
              /\ loader.pages[p].executable = image.segments[i].executable
    BY <1>1, LoadedMatches
  <1>4. ASSUME NEW p \in loaded, NEW b \in 0..(FRAME_SIZE - 1)
        PROVE  loader.pages[p].bytes[b] = FileByte(image, Stored(loader.name), p + b)
    BY <1>2, <1>3
  <1>5. ASSUME step = "insert"
        PROVE  DataInFile(image)
    <2>1. ASSUME NEW i \in Loaded(image)
          PROVE  i < loader.segment
      <3>1. LoaderTypes(loader) /\ i \in DOMAIN loader.image.segments
        BY <1>1 DEF LoadedSo, Loaded
      <3> QED
        BY <1>1, <3>1, SMT DEF LoaderTypes
    <2> QED
      BY <1>1, <1>5, <2>1 DEF DataSo, DataInFile
  <1> QED
    BY <1>3, <1>4, <1>5 DEF ImageMatchesFile, reserved

\* Whatever the archive and the images contain, whatever the sizes of pages, stacks and
\* address spaces, and whatever runs out on the way: when the kernel is about to insert
\* omega3, and when omega3 is about to create echo or client, the pages of the program hold
\* the bytes of the first file of its name, zeroes after them, and nothing else, with the
\* permissions of their segments (load_elf and load_page of bootstrap.rs and of omega3).
THEOREM LoadersAreExact == SystemSpec => []ImageMatchesFile
  <1>1. LoaderInv /\ [SystemNext]_sysVars => LoaderInv'
    BY LoaderStep
  <1> QED
    BY <1>1, LoaderInit, LoaderInvMatches, PTL DEF SystemSpec
=============================================================================
