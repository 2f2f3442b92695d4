------------------------ MODULE InterruptController ------------------------
(***************************************************************************)
(* From the firmware's tables to a calibrated timer: acpi::init and the    *)
(* MADT (src/src/platform/acpi.rs), init_interrupt_controller              *)
(* (src/src/arch/x86_64/mod.rs), the redirection entry of the I/O APIC     *)
(* (io_apic.rs) and the calibration of the local timer (timer.rs, pit.rs), *)
(* which races the interrupt it waits for.                                 *)
(*                                                                         *)
(* step is where the boot path is.  Every error ends in an expect of       *)
(* kernel_main, so all of them are the step "failed".  A table of the      *)
(* firmware is a record that says what the checks of the code can tell     *)
(* apart; an entry of the MADT has its real offsets and lengths.  The one  *)
(* redirection entry that the kernel touches is that of the PIT.           *)
(***************************************************************************)
EXTENDS Integers, Sequences

CONSTANTS Firmware,      \* the tables that a machine may come with
          LocalApics,    \* IA32_APIC_BASE and the APIC ID
          IoApics,       \* ID and size of the I/O APIC
          INITIAL_COUNT  \* u32::MAX, scaled down

ASSUME CountAssumption == INITIAL_COUNT \in Nat \ {0}

\* The sizes of the header of a table, of the fixed part of a MADT and of an entry's header.
SDT_HEADER == 36
MADT_BODY == 8
ENTRY_HEADER == 2

\* A machine's tables are memory: where a walk over the MADT looks for an entry, it reads
\* one, and the entries of the record are those that such a walk can meet.
EntryFields(e) ==
    /\ "offset" \in DOMAIN e /\ e.offset \in Nat /\ e.length \in Nat /\ e.kind \in Nat
    /\ e.kind = 1 => e.gsi_base \in Nat
    /\ e.kind = 2 => e.gsi \in Nat /\ e.flags \in Nat

Readable(t) ==
    /\ \A e \in t.entries : EntryFields(e) /\ e.offset + SDT_HEADER + MADT_BODY < t.length
    /\ \A e, f \in t.entries :
          e.offset = f.offset \/ (e.offset <= f.offset /\ f.offset < e.offset + e.length) => e = f
    /\ \A n \in 0..(t.length - SDT_HEADER - MADT_BODY - ENTRY_HEADER) :
          n = 0 \/ (\E e \in t.entries : e.length >= ENTRY_HEADER /\ n = e.offset + e.length)
              => \E e \in t.entries : e.offset = n

ASSUME FirmwareAssumption ==
    \A f \in Firmware :
        /\ f.rsdp.revision \in Nat /\ f.root.length \in Nat /\ DOMAIN f.root.tables \subseteq Nat \ {0}
        /\ LET extended == f.rsdp.revision >= 2
               width == IF extended THEN 8 ELSE 4
               size == f.root.length - SDT_HEADER
           IN  f.root.signature = (IF extended THEN "XSDT" ELSE "RSDT") /\ size >= 0 /\ size % width = 0
                   => 1..(size \div width) \subseteq DOMAIN f.root.tables
        /\ \A i \in DOMAIN f.root.tables :
              /\ f.root.tables[i].length \in Nat
              /\ f.root.tables[i].signature = "APIC" => Readable(f.root.tables[i])

ASSUME LocalApicAssumption == \A c \in LocalApics : c.id \in Nat
ASSUME IoApicAssumption == \A c \in IoApics : c.entry_count \in Nat

VARIABLES step,
          firmware, cpu, chip,   \* the machine: members of the constants above
          table, entry_addr,     \* find_table's index, and MadtEntries::current
          info,                  \* what the walks over the MADT have found
          redirection,           \* the PIT's redirection entry
          timer,                 \* count of the local timer; the LAPIC is on; a request is pending
          pit,                   \* "periodic" as the firmware left it, "one_shot", "fired"
          interrupts,            \* the interrupt flag IF
          PIT_FIRED, LAPIC_COUNT_AT_PIT,
          seen                   \* history: the count at the first edge let through, and at line 56

machineVars == <<firmware, cpu, chip>>
flags == <<PIT_FIRED, LAPIC_COUNT_AT_PIT>>
bootVars == <<step, machineVars, table, entry_addr, info, redirection, timer, pit, interrupts,
              flags, seen>>

Nothing == [kind |-> "nothing"]
NoCount == INITIAL_COUNT + 1

\* What the boot loader leaves in the redirection entry: it masks an entry that delivers
\* a fixed vector, and may leave one of another kind unmasked.
FirmwareEntry == [vector : {"firmware"}, destination : {-1}, polarity : {"High"},
                  trigger : {"Edge"}, masked : BOOLEAN]

ControllerInit ==
    /\ step = "rsdp"
    /\ firmware \in Firmware /\ cpu \in LocalApics /\ chip \in IoApics
    /\ table = 1 /\ entry_addr = 0
    /\ info = [address |-> 0, io_apic |-> Nothing, route |-> Nothing]
    /\ redirection \in FirmwareEntry
    /\ timer = [count |-> 0, enabled |-> FALSE, pending |-> FALSE]
    /\ pit = "periodic"
    /\ interrupts = FALSE
    /\ PIT_FIRED = FALSE /\ LAPIC_COUNT_AT_PIT = 0
    /\ seen = [edge |-> NoCount, close |-> NoCount]

Fail == step' = "failed"

-----------------------------------------------------------------------------
\* AcpiTables::from_rsdp: checksums, signatures and, from revision 2 on, the
\* extended descriptor; the root table is the XSDT or the RSDT accordingly.
from_rsdp ==
    /\ step = "rsdp"
    /\ LET rsdp == firmware.rsdp
           extended == rsdp.revision >= 2
       IN step' = IF /\ rsdp.sum = 0 /\ rsdp.signature = "RSD PTR "
                     /\ extended => rsdp.length >= 36 /\ rsdp.extended_sum = 0
                     /\ firmware.root.sum = 0
                     /\ firmware.root.signature = IF extended THEN "XSDT" ELSE "RSDT"
                  THEN "find_table" ELSE "failed"
    /\ UNCHANGED <<machineVars, table, entry_addr, info, redirection, timer, pit, interrupts, flags, seen>>

EntryWidth == IF firmware.rsdp.revision >= 2 THEN 8 ELSE 4
BadRootLength == firmware.root.length < SDT_HEADER \/ (firmware.root.length - SDT_HEADER) % EntryWidth # 0
EntryCount == (firmware.root.length - SDT_HEADER) \div EntryWidth

\* One round of find_table("APIC"), and Madt::parse when the table is there.
find_table ==
    /\ step = "find_table"
    /\ \/ /\ BadRootLength \/ table > EntryCount
          /\ Fail
          /\ UNCHANGED <<table, info>>
       \/ /\ ~BadRootLength /\ table <= EntryCount
          /\ LET sdt == firmware.root.tables[table]
             IN \/ /\ sdt.length < SDT_HEADER
                   /\ Fail
                   /\ UNCHANGED <<table, info>>
                \/ /\ sdt.length >= SDT_HEADER /\ sdt.signature # "APIC"
                   /\ table' = table + 1
                   /\ UNCHANGED <<step, info>>
                \/ /\ sdt.length >= SDT_HEADER /\ sdt.signature = "APIC"
                   /\ step' = IF sdt.sum = 0 /\ sdt.length >= SDT_HEADER + MADT_BODY
                              THEN "local_apic_address" ELSE "failed"
                   /\ info' = [info EXCEPT !.address = sdt.local_apic_address]
                   /\ UNCHANGED table
    /\ UNCHANGED <<machineVars, entry_addr, redirection, timer, pit, interrupts, flags, seen>>

-----------------------------------------------------------------------------
\* The MADT found, the end of its entries, and the entry that begins at an offset.
madt == firmware.root.tables[table]
End == madt.length - SDT_HEADER - MADT_BODY
EntryAt(offset) == CHOOSE e \in madt.entries : e.offset = offset

\* The sizes of the structures that read_next reads; other kinds have no body.
BodySize == [kind \in {0, 1, 2, 3, 4, 5, 9} |->
    CASE kind = 0 -> 6 [] kind \in {1, 5} -> 10 [] kind \in {2, 3} -> 8 [] kind = 4 -> 4 [] kind = 9 -> 14]

\* MadtEntries::next yields an error: the header, the entry or its body does not fit.
BadEntry ==
    \/ entry_addr > End
    \/ End - entry_addr < ENTRY_HEADER
    \/ LET e == EntryAt(entry_addr)
       IN \/ e.length < ENTRY_HEADER
          \/ e.length > End - entry_addr
          \/ e.kind \in DOMAIN BodySize /\ e.length < ENTRY_HEADER + BodySize[e.kind]

\* A for loop over the entries, in step walk: an error fails, the end leads to AtEnd,
\* and an entry e to OnEntry(e), which says whether the loop goes on.
Walk(walk, AtEnd, OnEntry(_)) ==
    /\ step = walk
    /\ \/ /\ entry_addr = End
          /\ AtEnd
          /\ entry_addr' = 0
       \/ /\ entry_addr # End /\ BadEntry
          /\ Fail
          /\ UNCHANGED <<entry_addr, info>>
       \/ /\ entry_addr # End /\ ~BadEntry
          /\ OnEntry(EntryAt(entry_addr))
          /\ entry_addr' = IF step' = walk THEN entry_addr + EntryAt(entry_addr).length ELSE 0
    /\ UNCHANGED <<machineVars, table, redirection, timer, pit, interrupts, flags, seen>>

\* The last override of the address counts.
AddressEntry(e) ==
    /\ info' = IF e.kind = 5 THEN [info EXCEPT !.address = e.address] ELSE info
    /\ UNCHANGED step

effective_local_apic_address ==
    Walk("local_apic_address", step' = "local_apic" /\ UNCHANGED info, AddressEntry)

\* The second I/O APIC ends the search with an error.
IoApicEntry(e) ==
    \/ /\ e.kind = 1
       /\ info' = IF info.io_apic = Nothing THEN [info EXCEPT !.io_apic = e] ELSE info
       /\ step' = IF info.io_apic = Nothing THEN step ELSE "failed"
    \/ e.kind # 1 /\ UNCHANGED <<step, info>>

sole_io_apic ==
    Walk("io_apics",
         step' = (IF info.io_apic = Nothing THEN "failed" ELSE "route") /\ UNCHANGED info,
         IoApicEntry)

PIT_IRQ == 0
Polarity == [bits \in {0, 1, 3} |-> IF bits = 3 THEN "Low" ELSE "High"]
Trigger == [bits \in {0, 1, 3} |-> IF bits = 3 THEN "Level" ELSE "Edge"]

Route(gsi, polarity, trigger) == [gsi |-> gsi, polarity |-> polarity, trigger |-> trigger]

\* The first override of the PIT's line on the ISA bus decides.
RouteEntry(e) ==
    \/ /\ e.kind = 2 /\ e.bus = 0 /\ e.source = PIT_IRQ
       /\ LET polarity == e.flags % 4
              trigger == (e.flags \div 4) % 4
          IN \/ /\ 2 \in {polarity, trigger}
                /\ Fail
                /\ UNCHANGED info
             \/ /\ 2 \notin {polarity, trigger}
                /\ step' = "io_apic"
                /\ info' = [info EXCEPT !.route = Route(e.gsi, Polarity[polarity], Trigger[trigger])]
    \/ /\ ~(e.kind = 2 /\ e.bus = 0 /\ e.source = PIT_IRQ)
       /\ UNCHANGED <<step, info>>

isa_irq_route ==
    Walk("route",
         /\ step' = "io_apic"
         /\ info' = [info EXCEPT !.route = Route(PIT_IRQ, "High", "Edge")],
         RouteEntry)

-----------------------------------------------------------------------------
\* LocalApic::init; mapping the registers of an xAPIC may run out of frames.
LocalApic_init ==
    /\ step = "local_apic"
    /\ \/ /\ cpu.address = info.address /\ cpu.enabled /\ cpu.bsp
          /\ step' = "io_apics"
          /\ timer' = [timer EXCEPT !.enabled = TRUE]
       \/ /\ (cpu.address # info.address \/ ~cpu.enabled \/ ~cpu.bsp \/ ~cpu.x2apic)
          /\ Fail
          /\ UNCHANGED timer
    /\ UNCHANGED <<machineVars, table, entry_addr, info, redirection, pit, interrupts, flags, seen>>

\* redirection_index, and the two registers of the entry as a byte each.
Index == info.route.gsi - info.io_apic.gsi_base
HandlesGsi == Index >= 0 /\ Index < chip.entry_count
RegistersFit == 16 + 2 * Index + 1 <= 255

\* IoApic::new, which maps the registers and compares the ID, then handles_gsi, the
\* width of the destination and, in configure_masked, the width of the registers.
IoApic_new ==
    /\ step = "io_apic"
    /\ \/ /\ chip.id = info.io_apic.id /\ HandlesGsi /\ cpu.id <= 255 /\ RegistersFit
          /\ step' = "mask_old"
       \/ Fail
    /\ UNCHANGED <<machineVars, table, entry_addr, info, redirection, timer, pit, interrupts, flags, seen>>

\* Variant: the old entry is left as it is.
mask_old_skipped ==
    /\ step' = "write_high"
    /\ UNCHANGED <<redirection, timer, pit, interrupts, flags, seen>>

\* The three writes of configure_masked: the old low half with the mask, the high half,
\* and the new low half.
mask_old ==
    /\ redirection' = [redirection EXCEPT !.masked = TRUE]
    /\ step' = "write_high"
    /\ UNCHANGED <<timer, pit, interrupts, flags, seen>>

write_high ==
    /\ redirection' = [redirection EXCEPT !.destination = cpu.id]
    /\ step' = "write_low"
    /\ UNCHANGED <<timer, pit, interrupts, flags, seen>>

write_low ==
    /\ redirection' = [vector |-> "PIT_CALIBRATION", destination |-> redirection.destination,
                       polarity |-> info.route.polarity, trigger |-> info.route.trigger,
                       masked |-> TRUE]
    /\ step' = "unmask"
    /\ UNCHANGED <<timer, pit, interrupts, flags, seen>>

-----------------------------------------------------------------------------
\* calibrate_local_apic, one step for each access to a device or a flag.
unmask ==
    /\ PIT_FIRED' = FALSE /\ LAPIC_COUNT_AT_PIT' = 0
    /\ redirection' = [redirection EXCEPT !.masked = FALSE]
    /\ step' = "start_counter"
    /\ UNCHANGED <<timer, pit, interrupts, seen>>

start_calibration_counter ==
    /\ timer' = [timer EXCEPT !.count = INITIAL_COUNT]
    /\ step' = "one_shot"
    /\ UNCHANGED <<redirection, pit, interrupts, flags, seen>>

start_pit_one_shot ==
    /\ pit' = "one_shot"
    /\ step' = "enable_interrupts"
    /\ UNCHANGED <<redirection, timer, interrupts, flags, seen>>

enable_interrupts ==
    /\ interrupts' = TRUE
    /\ step' = "poll_flag"
    /\ UNCHANGED <<redirection, timer, pit, flags, seen>>

\* while !PIT_FIRED
poll_flag ==
    /\ step' = IF PIT_FIRED THEN "disable_interrupts" ELSE "poll_count"
    /\ UNCHANGED <<redirection, timer, pit, interrupts, flags, seen>>

\* Variant: the wait for the PIT has no end.
poll_count_forever ==
    /\ step' = "poll_flag"
    /\ UNCHANGED <<redirection, timer, pit, interrupts, flags, seen>>

\* if current_timer_count() == 0 ... return Err(PitTimeout)
poll_count ==
    /\ step' = IF timer.count = 0 THEN "timeout" ELSE "poll_flag"
    /\ UNCHANGED <<redirection, timer, pit, interrupts, flags, seen>>

\* Variant: the wait ends and the measurement goes on.
timeout_ignored ==
    /\ step' = "disable_interrupts"
    /\ UNCHANGED <<redirection, timer, pit, interrupts, flags, seen>>

timeout ==
    /\ interrupts' = FALSE
    /\ redirection' = [redirection EXCEPT !.masked = TRUE]
    /\ timer' = [timer EXCEPT !.count = 0]
    /\ Fail
    /\ UNCHANGED <<pit, flags, seen>>

disable_interrupts ==
    /\ interrupts' = FALSE
    /\ seen' = [seen EXCEPT !.close = timer.count]
    /\ step' = "mask"
    /\ UNCHANGED <<redirection, timer, pit, flags>>

mask ==
    /\ redirection' = [redirection EXCEPT !.masked = TRUE]
    /\ step' = "stop_timer"
    /\ UNCHANGED <<timer, pit, interrupts, flags, seen>>

\* The counter is stopped, and elapsed must not be zero.
stop_timer ==
    /\ timer' = [timer EXCEPT !.count = 0]
    /\ step' = IF LAPIC_COUNT_AT_PIT = INITIAL_COUNT THEN "failed" ELSE "calibrated"
    /\ UNCHANGED <<redirection, pit, interrupts, flags, seen>>

At(name, Step) == step = name /\ Step /\ UNCHANGED <<machineVars, table, entry_addr, info>>

-----------------------------------------------------------------------------
\* apic_vectors::handle for the vector of the PIT, with the end of interrupt.
record_pit_calibration ==
    /\ interrupts /\ timer.pending
    /\ LAPIC_COUNT_AT_PIT' = timer.count
    /\ PIT_FIRED' = TRUE
    /\ timer' = [timer EXCEPT !.pending = FALSE]
    /\ UNCHANGED <<step, machineVars, table, entry_addr, info, redirection, pit, interrupts, seen>>

\* The I/O APIC forwards a request of the PIT as its entry says.
Forwarded ==
    ~redirection.masked /\ redirection.vector = "PIT_CALIBRATION" /\ timer.enabled

\* The output of the PIT rises, or is still up and the entry is level triggered.
PitRises ==
    /\ \/ pit = "periodic" /\ UNCHANGED pit
       \/ pit = "one_shot" /\ pit' = "fired"
       \/ pit = "fired" /\ redirection.trigger = "Level" /\ Forwarded /\ UNCHANGED pit
    /\ timer' = [timer EXCEPT !.pending = @ \/ Forwarded]
    /\ seen' = IF Forwarded /\ seen.edge = NoCount
               THEN [seen EXCEPT !.edge = IF step = "start_counter" THEN INITIAL_COUNT ELSE timer.count]
               ELSE seen
    /\ UNCHANGED <<step, machineVars, table, entry_addr, info, redirection, interrupts, flags>>

\* The local timer counts down to zero and stays there: its interrupt is masked.
Tick ==
    /\ timer.count > 0
    /\ timer' = [timer EXCEPT !.count = @ - 1]
    /\ UNCHANGED <<step, machineVars, table, entry_addr, info, redirection, pit, interrupts, flags, seen>>

Devices == record_pit_calibration \/ PitRises \/ Tick

BootPath ==
    \/ from_rsdp \/ find_table
    \/ effective_local_apic_address \/ LocalApic_init \/ sole_io_apic \/ isa_irq_route \/ IoApic_new
    \/ At("mask_old", mask_old) \/ At("write_high", write_high) \/ At("write_low", write_low)
    \/ At("unmask", unmask) \/ At("start_counter", start_calibration_counter)
    \/ At("one_shot", start_pit_one_shot) \/ At("enable_interrupts", enable_interrupts)
    \/ At("poll_flag", poll_flag) \/ At("poll_count", poll_count) \/ At("timeout", timeout)
    \/ At("disable_interrupts", disable_interrupts) \/ At("mask", mask) \/ At("stop_timer", stop_timer)

-----------------------------------------------------------------------------
\* What the tables say, without walking them: the first APIC table, its entries one after
\* the other, the only I/O APIC, the last override of the address and the first of the line.
FirstMadt ==
    LET tables == firmware.root.tables
    IN  tables[CHOOSE i \in DOMAIN tables :
                  tables[i].signature = "APIC" /\ \A j \in 1..(i - 1) : tables[j].signature # "APIC"]

OfKind(kind) == {e \in FirstMadt.entries : e.kind = kind}
PitOverrides == {e \in OfKind(2) : e.bus = 0 /\ e.source = PIT_IRQ}

Tiled(entries, size) ==
    \A byte \in 0..(size - 1) :
        \E e \in entries : e.offset <= byte /\ byte < e.offset + e.length /\ e.offset + e.length <= size

FirstOf(entries) == CHOOSE e \in entries : \A f \in entries : e.offset <= f.offset
LastOf(entries) == CHOOSE e \in entries : \A f \in entries : f.offset <= e.offset

DeclaredAddress ==
    IF OfKind(5) = {} THEN FirstMadt.local_apic_address ELSE LastOf(OfKind(5)).address

DeclaredRoute ==
    IF PitOverrides = {} THEN Route(PIT_IRQ, "High", "Edge")
    ELSE LET e == FirstOf(PitOverrides)
         IN  Route(e.gsi, IF e.flags % 4 = 3 THEN "Low" ELSE "High",
                          IF (e.flags \div 4) % 4 = 3 THEN "Level" ELSE "Edge")

\* The PIT's line is never open on an entry that is half the loader's and half the kernel's
\* (io_apic.rs, configure_masked): an unmasked entry is the untouched one, or delivers the
\* calibration vector to this CPU with the polarity and trigger of the first override.  It
\* is then an entry of the only I/O APIC of a well-formed table that also names the local
\* APIC in use.
PitRoutedByTable ==
    redirection # Nothing /\ ~redirection.masked =>
        \/ redirection \in FirmwareEntry
        \/ /\ redirection = [vector |-> "PIT_CALIBRATION", destination |-> cpu.id, masked |-> FALSE,
                              polarity |-> DeclaredRoute.polarity, trigger |-> DeclaredRoute.trigger]
           /\ Tiled(FirstMadt.entries, FirstMadt.length - 44)
           /\ cpu.address = DeclaredAddress /\ cpu.id \in 0..255
           /\ \A io \in OfKind(1) :
                 OfKind(1) = {io} /\ io.id = chip.id /\ DeclaredRoute.gsi - io.gsi_base \in 0..(chip.entry_count - 1)

\* The frequency is computed from a count that an interrupt has stored
\* (timer.rs, calibrate_local_apic): when it succeeds, the recorded count lies between the
\* first request let through, be it the one-shot's or an earlier one of the periodic PIT,
\* and the end of the wait; time has passed, and the line is masked, the counter stopped
\* and interrupts disabled again.
CalibrationMeasures ==
    step = "calibrated" =>
        /\ PIT_FIRED
        /\ seen.close <= LAPIC_COUNT_AT_PIT /\ LAPIC_COUNT_AT_PIT <= seen.edge
        /\ LAPIC_COUNT_AT_PIT < INITIAL_COUNT
        /\ redirection.masked /\ timer.count = 0 /\ ~interrupts
=============================================================================
