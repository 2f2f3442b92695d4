----------------------------- MODULE Initramfs -----------------------------
(***************************************************************************)
(* The archive and the programs in it: find_file (src/src/format/cpio.rs   *)
(* and, without bounds, src/userspace/omega3/src/cpio.rs), the checks of   *)
(* ELF images (src/src/format/elf.rs, omega3/src/elf.rs) and the           *)
(* arithmetic of copying a segment page by page, of which                  *)
(* src/src/task/bootstrap.rs and src/userspace/omega3/src/main.rs have a   *)
(* copy each.                                                              *)
(*                                                                         *)
(* An archive is the list of its members and its length in bytes.  An      *)
(* image is what the loaders read of it: whether the fixed fields of its   *)
(* header are right, whether the table of program headers is in the file,  *)
(* the entry point and the program headers.  A page tells, for every byte, *)
(* its distance from the start of the archive or that it is zero.          *)
(***************************************************************************)
EXTENDS Integers, Sequences

CONSTANTS FRAME_SIZE,      \* bytes of a page, scaled down
          USER_SPACE_END   \* the first address that is not the user's

ASSUME FrameSizeAssumption == FRAME_SIZE \in Nat \ {0}

\* A byte is its distance from the start of the archive, zero, or left over from an earlier use of the frame.
Zero == -1
Stale == -2

\* find_file finds nothing.
None == [start |-> -1, length |-> 0]

-----------------------------------------------------------------------------
\* size_of::<Header>(), and the padding of names and data.
HEADER == 110
Align4(n) == 4 * ((n + 3) \div 4)

TRAILER == "TRAILER!!!"

\* How an archive is laid out: where the header and the data of member k begin.
HeaderAt(members) ==
    LET at[k \in 1..Len(members)] ==
            IF k = 1 THEN 0
            ELSE LET data == at[k - 1] + HEADER + members[k - 1].name_len
                 IN  Align4(Align4(data) + members[k - 1].file_len)
    IN  at

DataAt(members, k) == Align4(HeaderAt(members)[k] + HEADER + members[k].name_len)

\* The member whose header, with its magic, begins at offset; 0 if there is none.
MemberAt(archive, offset) ==
    LET found == {k \in DOMAIN archive.members : HeaderAt(archive.members)[k] = offset}
    IN  IF found = {} THEN 0 ELSE CHOOSE k \in found : TRUE

\* find_file of the kernel: where the data of the first member of that name begins.
find_file(archive, target) ==
    LET find[offset \in 0..archive.length] ==
            LET k == MemberAt(archive, offset)
                member == archive.members[k]
                data_start == offset + Align4(HEADER + member.name_len)
                next == data_start + Align4(member.file_len)
            IN  IF \/ offset + HEADER > archive.length
                   \/ k = 0
                   \/ offset + HEADER + member.name_len > archive.length
                   \/ member.name = TRAILER
                   \/ data_start + member.file_len > archive.length
                THEN None
                ELSE IF member.name = target
                     THEN [start |-> data_start, length |-> member.file_len]
                     ELSE IF next <= archive.length THEN find[next] ELSE None
    IN  find[0]

\* find_file of omega3, which goes on until the trailer.
omega_find_file(archive, target) ==
    LET find[offset \in 0..archive.length] ==
            LET k == MemberAt(archive, offset)
                member == archive.members[k]
                data_start == offset + Align4(HEADER + member.name_len)
            IN  IF k = 0 \/ member.name = TRAILER
                THEN None
                ELSE IF member.name = target
                     THEN [start |-> data_start, length |-> member.file_len]
                     ELSE find[data_start + Align4(member.file_len)]
    IN  find[0]

-----------------------------------------------------------------------------
is_power_of_two(n) == \E i \in 0..n : 2 ^ i = n

\* Elf::parse of the kernel: there is no dynamic linker.
parse(image) ==
    /\ image.header_ok /\ image.table_ok
    /\ \A i \in DOMAIN image.segments : image.segments[i].type \notin {"Dynamic", "Interpreter"}

\* Elf::segments of the kernel, for one program header.
SegmentOk(s, file_len) ==
    /\ s.file_size <= s.memory_size
    /\ s.alignment > 1 => is_power_of_two(s.alignment) /\ s.address % s.alignment = s.offset % s.alignment
    /\ s.offset + s.file_size <= file_len

PageOf(address) == address - (address % FRAME_SIZE)
Lesser(m, n) == IF m < n THEN m ELSE n
Greater(m, n) == IF m > n THEN m ELSE n

\* The part of a page that data of the file goes to; where there is none it is empty.
CopyStart(s, page) == Lesser(Greater(page, s.address), page + FRAME_SIZE)
CopyEnd(s, page) == Greater(Lesser(page + FRAME_SIZE, s.address + s.file_size), CopyStart(s, page))

\* The bytes of a page after n of them, from first on, were written.
Written(bytes, first, n, Value(_)) ==
    [b \in 0..(FRAME_SIZE - 1) |-> IF first <= b /\ b < first + n THEN Value(b) ELSE bytes[b]]

Blank(value) == [b \in 0..(FRAME_SIZE - 1) |-> value]

\* Variant: the zeroing of what comes after the copy counts from the start of the page.
load_page_unzeroed(s, start, page) ==
    LET copy_start == CopyStart(s, page)
        copy_end == CopyEnd(s, page)
        prefix == copy_start - page
        copied == copy_end - copy_start
        zeroed == Written(Blank(Stale), 0, prefix, LAMBDA b : Zero)
        filled == Written(zeroed, prefix, copied,
                          LAMBDA b : start + s.offset + copy_start - s.address + b - prefix)
    IN  Written(filled, prefix + copied, FRAME_SIZE - prefix - copied - 1, LAMBDA b : Zero)

\* The page of load_elf in bootstrap.rs, over a frame that alloc_nozero has not cleared.
load_page(s, start, page) ==
    LET copy_start == CopyStart(s, page)
        copy_end == CopyEnd(s, page)
        prefix == copy_start - page
        copied == copy_end - copy_start
        zeroed == Written(Blank(Stale), 0, prefix, LAMBDA b : Zero)
        filled == Written(zeroed, prefix, copied,
                          LAMBDA b : start + s.offset + copy_start - s.address + b - prefix)
    IN  Written(filled, prefix + copied, FRAME_SIZE - prefix - copied, LAMBDA b : Zero)

\* The page of load_elf in omega3, in the scratch page.
omega_load_page(s, start, page) ==
    LET copy_start == CopyStart(s, page)
        copy_end == CopyEnd(s, page)
        file_offset == start + s.offset + (copy_start - s.address)
        page_offset == copy_start - page
    IN  IF copy_end > copy_start
        THEN Written(Blank(Zero), page_offset, copy_end - copy_start,
                     LAMBDA b : file_offset + b - page_offset)
        ELSE Blank(Zero)

\* That copy reads behind the last page of the archive; nothing checks where the segment's
\* data is.
leaves_archive(s, start, page, length) ==
    /\ CopyEnd(s, page) > CopyStart(s, page)
    /\ start + s.offset + (CopyEnd(s, page) - s.address) > PageOf(length + FRAME_SIZE - 1)

-----------------------------------------------------------------------------
\* What the byte at an address is to hold: the byte of the file that a segment puts
\* there, and zero where no segment has file data.
FileByte(image, start, address) ==
    LET covers(s) == s.type = "Load" /\ s.address <= address /\ address < s.address + s.file_size
        at == {i \in DOMAIN image.segments : covers(image.segments[i])}
    IN  IF at = {} THEN Zero
        ELSE LET s == image.segments[CHOOSE i \in at : TRUE]
             IN  start + s.offset + address - s.address
=============================================================================
