------------------------------ MODULE MCSystem ------------------------------
(* Small machines, archives and programs for System. *)
EXTENDS System

-----------------------------------------------------------------------------
\* MADT entries without their offsets.
Cpu == [kind |-> 0, length |-> 8]
Chip(base, length) == [kind |-> 1, length |-> length, id |-> 1, gsi_base |-> base]
Override(bus, source, gsi, bits) ==
    [kind |-> 2, length |-> 10, bus |-> bus, source |-> source, gsi |-> gsi, flags |-> bits]
Address(a) == [kind |-> 5, length |-> 12, address |-> a]
Other(length) == [kind |-> 7, length |-> length]

Overrides == {Override(0, 0, 2, 0), Override(0, 0, 2, 15), Override(0, 0, 0, 5), Override(0, 0, 120, 0),
              Override(0, 0, 2, 2), Override(0, 0, 2, 8), Override(1, 0, 3, 0), Override(0, 9, 9, 13)}
Small == {Cpu, Chip(0, 12), Chip(1, 12), Chip(0, 11), Address(1), Address(2),
          Other(2), Other(1), Other(0)}

Lists == {<<>>} \cup {<<a>> : a \in Small} \cup {<<Chip(0, 12), a>> : a \in Small \cup Overrides}
         \cup {<<a, Chip(0, 12)>> : a \in Small \cup Overrides}
         \cup {<<Chip(1, 12), a>> : a \in Overrides}
         \cup {<<Override(0, 0, 2, 15), Chip(0, 12), a>> : a \in {Override(0, 0, 1, 0), Address(1), Override(0, 0, 2, 2)}}
         \cup {<<Address(2), Chip(0, 12), a>> : a \in {Address(1), Other(2), Override(0, 0, 2, 0)}}

\* An entry takes the room of its header even if it says that it is shorter.
Offset(list) ==
    LET o[k \in 1..(Len(list) + 1)] ==
            IF k = 1 THEN 0 ELSE o[k - 1] + Greater(list[k - 1].length, ENTRY_HEADER)
    IN  o
Placed(list) == {[f \in DOMAIN list[k] \cup {"offset"} |-> IF f = "offset" THEN Offset(list)[k] ELSE list[k][f]] :
                    k \in DOMAIN list}

\* A MADT whose entries end short bytes after the table does.
Madt(list, short, sum) ==
    [signature |-> "APIC", length |-> 44 + Offset(list)[Len(list) + 1] - short, sum |-> sum,
     local_apic_address |-> 1, entries |-> Placed(list)]
Table(signature, length) == [signature |-> signature, length |-> length, sum |-> 0]

Rsdp(revision) == [sum |-> 0, signature |-> "RSD PTR ", revision |-> revision, length |-> 36, extended_sum |-> 0]
Root(revision, tables) ==
    [sum |-> 0, signature |-> IF revision >= 2 THEN "XSDT" ELSE "RSDT", tables |-> tables,
     length |-> 36 + Len(tables) * (IF revision >= 2 THEN 8 ELSE 4)]
Tables(revision, tables) == [rsdp |-> Rsdp(revision), root |-> Root(revision, tables)]

Plain == Tables(2, <<Table("FACP", 40), Madt(<<Chip(0, 12)>>, 0, 0)>>)
MCFirmware ==
    {Tables(2, <<Table("FACP", 40), Madt(list, 0, 0)>>) : list \in Lists}
    \cup {Tables(0, <<Madt(<<Cpu, Chip(0, 12)>>, 0, 0), Madt(<<>>, 0, 0)>>), Tables(0, <<Table("FACP", 40)>>),
          Tables(0, <<Table("FACP", 35), Madt(<<>>, 0, 0)>>), Tables(2, <<Madt(<<Chip(0, 12)>>, 0, 1)>>),
          Tables(2, <<Madt(<<Chip(0, 12)>>, 3, 0)>>), Tables(2, <<Madt(<<Chip(0, 12), Cpu>>, 7, 0)>>),
          Tables(2, <<[Madt(<<>>, 0, 0) EXCEPT !.length = 43]>>)}
    \cup {[Plain EXCEPT !.rsdp.sum = 1], [Plain EXCEPT !.rsdp.signature = "RSD"], [Plain EXCEPT !.rsdp.length = 35],
          [Plain EXCEPT !.rsdp.extended_sum = 1], [Plain EXCEPT !.root.sum = 1],
          [Plain EXCEPT !.root.signature = "RSDT"], [Plain EXCEPT !.root.length = 35], [Plain EXCEPT !.root.length = 45],
          [Plain EXCEPT !.rsdp.revision = 0]}

LocalApic(address, enabled, bsp, id, x2apic) ==
    [address |-> address, enabled |-> enabled, bsp |-> bsp, id |-> id, x2apic |-> x2apic]
MCLocalApics == {LocalApic(1, TRUE, TRUE, 0, FALSE), LocalApic(1, TRUE, TRUE, 256, TRUE),
                 LocalApic(2, TRUE, TRUE, 3, TRUE), LocalApic(1, FALSE, TRUE, 0, TRUE), LocalApic(1, TRUE, FALSE, 0, TRUE)}
MCIoApics == {[id |-> 1, entry_count |-> 2], [id |-> 1, entry_count |-> 240], [id |-> 2, entry_count |-> 24]}

-----------------------------------------------------------------------------
Member(name, name_len, file_len) == [name |-> name, name_len |-> name_len, file_len |-> file_len]
Omega3File == Member("omega3.elf", 11, 8)
EchoFile == Member("echo.elf", 9, 7)
ClientFile == Member("client.elf", 11, 5)
Trailer == Member(TRAILER, 11, 0)
Directory == Member(".", 2, 0)

Complete(members) ==
    [members |-> members, length |-> DataAt(members, Len(members)) + Align4(members[Len(members)].file_len)]
Cut(members, length) == [members |-> members, length |-> length]

InOrder == <<Directory, Omega3File, EchoFile, ClientFile, Trailer>>
MCArchives ==
    {Complete(InOrder), Complete(<<ClientFile, EchoFile, Omega3File, Trailer>>),
     Complete(<<EchoFile, ClientFile, Trailer, Omega3File>>), Complete(<<Omega3File, ClientFile, Trailer>>),
     Complete(<<Omega3File, EchoFile, Trailer>>)}
    \cup {Cut(InOrder, n) : n \in {0, 109, 110, 112, 115, 221, 222, 233, 239, 243}}

\* Programs: segments over pages of four bytes.
Seg(address, offset, file_size, memory_size, alignment, writable, executable) ==
    [type |-> "Load", address |-> address, offset |-> offset, file_size |-> file_size,
     memory_size |-> memory_size, alignment |-> alignment, writable |-> writable, executable |-> executable]
Note == [Seg(0, 0, 0, 0, 0, FALSE, FALSE) EXCEPT !.type = "Note"]
Image(entry, segments) == [header_ok |-> TRUE, table_ok |-> TRUE, entry |-> entry, segments |-> segments]
Damaged == [NoImage EXCEPT !.entry = 4]
NoTable == [Damaged EXCEPT !.header_ok = TRUE]
Code(address, n) == Seg(address, 0, n, n, 1, FALSE, TRUE)

\* One segment in every position, and code followed by another segment.
Single == {Image(4, <<Seg(address, offset, file_size, memory_size, alignment, TRUE, TRUE)>>) :
              address \in 3..6, offset \in {0, 1, 4}, file_size \in {0, 3, 5}, memory_size \in {0, 1, 3, 5, 6},
              alignment \in {0, 3, 4}}
Double == {Image(4, <<Note, Code(4, 3), Seg(address, 2, 3, memory_size, 1, TRUE, FALSE)>>) :
              address \in {6, 7, 8, 11, 15, 22, 25, 28, 30}, memory_size \in {3, 4, 9}}
Wrong == {Damaged, NoTable, Image(4, <<>>), Image(4, <<Seg(4, 0, 3, 3, 1, TRUE, FALSE)>>),
          Image(4, <<Code(4, 3), [Note EXCEPT !.type = "Dynamic"]>>), Image(0, <<Code(0, 4)>>), Image(9, <<Code(4, 3)>>)}
UserImages == {Image(5, <<Seg(5, 1, 2, 3, 4, FALSE, TRUE)>>), Image(5, <<Seg(5, 1, 2, 19, 1, TRUE, TRUE)>>),
               Image(5, <<Seg(5, 1, 2, 5, 1, TRUE, TRUE), Note>>),
               Image(4, <<Code(4, 3), Seg(8, 2, 1, 2, 1, TRUE, FALSE)>>), Image(4, <<Code(4, 3), Seg(7, 2, 1, 2, 1, TRUE, FALSE)>>),
               Image(4, <<Code(4, 3), Seg(8, 6, 3, 3, 1, TRUE, FALSE)>>), Image(4, <<Seg(4, 1000, 5, 6, 1, TRUE, TRUE)>>),
               Image(4, <<Code(4, 3), Seg(38, 2, 1, 2, 1, TRUE, FALSE)>>), Image(4, <<Code(4, 3), Seg(36, 2, 1, 3, 1, TRUE, FALSE)>>),
               Image(4, <<Code(4, 3), Seg(23, 2, 1, 2, 1, TRUE, FALSE)>>), Image(4, <<Code(4, 3), Seg(30, 2, 1, 3, 1, TRUE, FALSE)>>)}

MCImages == [name \in {"omega3.elf", "echo.elf", "client.elf"} |->
                IF name = "omega3.elf" THEN Single \cup Double \cup Wrong ELSE UserImages \cup Wrong]
=============================================================================
