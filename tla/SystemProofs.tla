---------------------------- MODULE SystemProofs ----------------------------
(***************************************************************************)
(* Two results about the start-up, for all firmware tables, APICs and      *)
(* initial counts: a calibration that succeeds has measured, and the line  *)
(* of the PIT is open only as the tables ask for.                          *)
(***************************************************************************)
EXTENDS System, TLAPS

\* Steps that need arithmetic, or that Zenon does not find, name SMT.
USE Zenon

-----------------------------------------------------------------------------
(* The steps of the system as the interrupt controller sees them.          *)

\* The places of the boot path before the PIT's line is opened, and while it is open or
\* being closed again.
Early == {"rsdp", "find_table", "local_apic_address", "local_apic", "io_apics", "route", "io_apic",
          "mask_old", "write_high", "write_low", "unmask"}
Window == {"start_counter", "one_shot", "enable_interrupts", "poll_flag", "poll_count", "timeout",
           "disable_interrupts", "mask", "stop_timer"}
Controller == Early \cup Window \cup {"calibrated"}

\* The controller is set up before anything else: no task runs meanwhile.
BootAlone == step \in Controller => machine = "boot"

\* What a step of bootstrap::spawn, of a program or of hcf leaves alone.
ControllerAtRest ==
    /\ UNCHANGED <<machineVars, table, entry_addr, info, redirection, timer, pit, interrupts, flags, seen>>
    /\ step \notin Controller /\ step' \notin Controller

LEMMA SpawnRests ==
    ASSUME spawn_find \/ spawn_resources \/ spawn_parse \/ load_segment \/ spawn_page \/ load_elf_end
           \/ spawn_insert \/ scheduler_start
    PROVE  ControllerAtRest
  <1> USE DEF ControllerAtRest, Controller, Early, Window, Booting, Continue, KernelPanic, bootVars
  <1>1. CASE spawn_find
    BY <1>1 DEF spawn_find
  <1>2. CASE spawn_resources
    BY <1>2 DEF spawn_resources
  <1>3. CASE spawn_parse
    BY <1>3 DEF spawn_parse
  <1>4. CASE load_segment
    BY <1>4 DEF load_segment
  <1>5. CASE spawn_page
    <2>1. CASE KernelPanic("memory") \/ KernelPanic("image")
      BY <1>5, <2>1 DEF spawn_page
    <2>2. CASE Continue("page") \/ Continue("segment")
      BY <1>5, <2>2 DEF spawn_page
    <2> QED
      BY <1>5, <2>1, <2>2 DEF spawn_page
  <1>6. CASE load_elf_end
    BY <1>6 DEF load_elf_end
  <1>7. CASE spawn_insert
    BY <1>7 DEF spawn_insert
  <1>8. CASE scheduler_start
    BY <1>8 DEF scheduler_start
  <1> QED
    BY <1>1, <1>2, <1>3, <1>4, <1>5, <1>6, <1>7, <1>8

\* A step in user mode, or of a machine that has halted, does not touch the controller.
LEMMA UserRests ==
    ASSUME Omega3 \/ Echo \/ Client \/ (\E t \in TaskId : Leave(t)) \/ Halted_forever
    PROVE  machine # "boot" /\ UNCHANGED bootVars
  <1>1. CASE Omega3
    <2> USE DEF Running, InUserMode, OmegaPanic, OmegaFault, OmegaStops, OmegaGoto
    <2>1. CASE omega_find
      BY <2>1 DEF omega_find
    <2>2. CASE omega_parse
      BY <2>2 DEF omega_parse
    <2>3. CASE omega_as_create
      BY <2>3 DEF omega_as_create
    <2>4. CASE omega_header
      BY <2>4 DEF omega_header
    <2>5. CASE FrameAlloc("frame", "scratch") \/ FrameAlloc("stack_frame", "stack_map")
      BY <2>5 DEF FrameAlloc
    <2>6. CASE omega_scratch
      BY <2>6 DEF omega_scratch
    <2>7. CASE omega_unmap
      BY <2>7 DEF omega_unmap
    <2>8. CASE omega_map
      BY <2>8 DEF omega_map
    <2>9. CASE omega_stack_map
      BY <2>9 DEF omega_stack_map
    <2>10. CASE omega_create
      BY <2>10 DEF omega_create
    <2>11. CASE omega_bogus_call
      BY <2>11 DEF omega_bogus_call
    <2> QED
      BY <1>1, <2>1, <2>2, <2>3, <2>4, <2>5, <2>6, <2>7, <2>8, <2>9, <2>10, <2>11 DEF Omega3
  <1>2. ASSUME NEW t, NEW place, NEW next, Receive(t, place, next)
        PROVE  machine # "boot" /\ UNCHANGED bootVars
    BY <1>2 DEF Receive, InUserMode, RecvResume
  <1>3. ASSUME NEW t, NEW place, NEW dest, NEW data, NEW next, SendTo(t, place, dest, data, next)
        PROVE  machine # "boot" /\ UNCHANGED bootVars
    BY <1>3 DEF SendTo, Running, InUserMode
  <1>4. ASSUME NEW t \in TaskId, Leave(t)
        PROVE  machine # "boot" /\ UNCHANGED bootVars
    BY <1>4 DEF Leave, InUserMode
  <1>5. CASE Halted_forever
    BY <1>5 DEF Halted_forever, Halt, hcf, Halted
  <1> QED
    BY <1>1, <1>2, <1>3, <1>4, <1>5 DEF Echo, Client

LEMMA SystemCases ==
    ASSUME BootAlone, [SystemNext]_sysVars
    PROVE  \/ StartUp \/ Hardware \/ Handover
           \/ step \notin Controller /\ LateInterrupt
           \/ ControllerAtRest
           \/ UNCHANGED <<bootVars, machine>>
  <1>1. CASE bootstrap_spawn
    BY <1>1, SpawnRests DEF bootstrap_spawn
  <1>2. CASE LateInterrupt
    BY <1>2 DEF LateInterrupt, InUserMode, BootAlone
  <1>3. CASE Omega3 \/ Echo \/ Client \/ (\E t \in TaskId : Leave(t)) \/ Halted_forever
    BY <1>3, UserRests DEF BootAlone, ControllerAtRest, bootVars
  <1>4. CASE UNCHANGED sysVars
    BY <1>4 DEF sysVars, vars
  <1> QED
    BY <1>1, <1>2, <1>3, <1>4 DEF SystemNext, Software

-----------------------------------------------------------------------------
(* The calibration of the local timer.                                     *)

CalibrationTypes ==
    /\ timer \in [count : 0..INITIAL_COUNT, enabled : BOOLEAN, pending : BOOLEAN]
    /\ interrupts \in BOOLEAN /\ PIT_FIRED \in BOOLEAN
    /\ LAPIC_COUNT_AT_PIT \in 0..INITIAL_COUNT
    /\ seen \in [edge : 0..NoCount, close : 0..NoCount]
    /\ step \in Controller =>
          DOMAIN redirection = {"vector", "destination", "polarity", "trigger", "masked"}

\* Before the line is opened no request of the PIT gets through.
Quiet ==
    step \in Early =>
        /\ ~timer.pending /\ ~PIT_FIRED /\ ~interrupts
        /\ seen.edge = NoCount /\ timer.count = 0
        /\ redirection.masked \/ redirection.vector # "PIT_CALIBRATION"

\* While it is open: a request was let through before anything is pending or recorded; the
\* counter runs down from that request to the record; the record stands once interrupts
\* are disabled again.
Measuring ==
    step \in Window =>
        /\ interrupts => step \in {"poll_flag", "poll_count", "timeout", "disable_interrupts"}
        /\ timer.pending \/ PIT_FIRED => seen.edge # NoCount
        /\ step = "start_counter" => seen.edge >= INITIAL_COUNT /\ ~PIT_FIRED
        /\ step # "start_counter" =>
              /\ timer.count <= seen.edge
              /\ PIT_FIRED => timer.count <= LAPIC_COUNT_AT_PIT /\ LAPIC_COUNT_AT_PIT <= seen.edge
        /\ step \in {"disable_interrupts", "mask", "stop_timer"} => PIT_FIRED
        /\ step \in {"mask", "stop_timer"} => seen.close <= LAPIC_COUNT_AT_PIT /\ ~interrupts
        /\ step = "stop_timer" => redirection.masked

CalibrationInv == BootAlone /\ CalibrationTypes /\ Quiet /\ Measuring /\ CalibrationMeasures

LEMMA CalibrationInit == SystemInit => CalibrationInv
  <1> SUFFICES ASSUME SystemInit
               PROVE  CalibrationInv
    OBVIOUS
  <1>1. BootAlone
    BY DEF BootAlone, SystemInit, Init, SchedInit
  <1>2. CalibrationTypes /\ (redirection.masked \/ redirection.vector # "PIT_CALIBRATION")
    <2>1. redirection \in FirmwareEntry
      BY DEF SystemInit, ControllerInit
    <2>2. /\ redirection.vector # "PIT_CALIBRATION"
          /\ DOMAIN redirection = {"vector", "destination", "polarity", "trigger", "masked"}
      BY <2>1 DEF FirmwareEntry
    <2>3. [edge |-> NoCount, close |-> NoCount] \in [edge : 0..NoCount, close : 0..NoCount]
      BY CountAssumption, SMT DEF NoCount
    <2>4. [count |-> 0, enabled |-> FALSE, pending |-> FALSE]
             \in [count : 0..INITIAL_COUNT, enabled : BOOLEAN, pending : BOOLEAN]
      BY CountAssumption, SMT
    <2>5. 0 \in 0..INITIAL_COUNT
      BY CountAssumption, SMT
    <2> QED
      BY <2>2, <2>3, <2>4, <2>5 DEF CalibrationTypes, SystemInit, ControllerInit
  <1> QED
    BY <1>1, <1>2 DEF CalibrationInv, SystemInit, ControllerInit, Quiet, Measuring, CalibrationMeasures, Window

LEMMA CalibrationHardware == CalibrationInv /\ Hardware => CalibrationInv'
  <1> SUFFICES ASSUME CalibrationInv, Hardware
               PROVE  CalibrationInv'
    OBVIOUS
  <1> USE CountAssumption DEF NoCount
  <1>1. UNCHANGED <<machine, step, redirection, interrupts>> /\ BootAlone'
    BY DEF Hardware, Devices, record_pit_calibration, PitRises, Tick, vars, CalibrationInv, BootAlone
  <1>2. CASE Tick
    BY <1>1, <1>2, SMT DEF Tick, CalibrationInv, CalibrationTypes, Quiet, Measuring, CalibrationMeasures, flags, Early, Window
  <1>3. CASE record_pit_calibration
    <2>1. /\ timer' = [timer EXCEPT !.pending = FALSE] /\ LAPIC_COUNT_AT_PIT' = timer.count
          /\ PIT_FIRED' = TRUE /\ UNCHANGED seen /\ interrupts /\ timer.pending
      BY <1>3 DEF record_pit_calibration
    <2>2. /\ timer'.count = timer.count /\ timer'.pending = FALSE
          /\ timer' \in [count : 0..INITIAL_COUNT, enabled : BOOLEAN, pending : BOOLEAN]
      BY <2>1 DEF CalibrationInv, CalibrationTypes
    <2>3. CalibrationTypes'
      BY <1>1, <2>1, <2>2 DEF CalibrationInv, CalibrationTypes
    <2>4. step \notin Early /\ step # "calibrated"
      BY <2>1 DEF CalibrationInv, Quiet, CalibrationMeasures
    <2>5. Measuring'
      <3> SUFFICES ASSUME step \in Window
                   PROVE  Measuring'
        BY <1>1 DEF Measuring
      <3>1. /\ step \in {"poll_flag", "poll_count", "timeout", "disable_interrupts"}
            /\ seen.edge # NoCount /\ timer.count <= seen.edge
        BY <2>1 DEF CalibrationInv, Measuring
      <3>2. timer.count <= timer.count
        BY SMT DEF CalibrationInv, CalibrationTypes
      <3> QED
        BY <1>1, <2>1, <2>2, <3>1, <3>2 DEF Measuring
    <2> QED
      BY <1>1, <2>3, <2>4, <2>5 DEF CalibrationInv, Quiet, CalibrationMeasures
  <1>4. CASE PitRises
    <2>1. timer' = [timer EXCEPT !.pending = timer.pending \/ Forwarded] /\ UNCHANGED flags
      BY <1>4 DEF PitRises
    <2>2. (timer.pending \/ Forwarded) \in BOOLEAN
      OBVIOUS
    <2>3. /\ timer'.count = timer.count /\ timer'.pending = (timer.pending \/ Forwarded)
          /\ timer' \in [count : 0..INITIAL_COUNT, enabled : BOOLEAN, pending : BOOLEAN]
      BY <2>1, <2>2 DEF CalibrationInv, CalibrationTypes
    <2>4. CASE ~Forwarded \/ seen.edge # NoCount
      <3>1. seen' = seen
        BY <1>4, <2>4 DEF PitRises
      <3> QED
        BY <1>1, <2>1, <2>3, <2>4, <3>1 DEF CalibrationInv, CalibrationTypes, Quiet, Measuring, CalibrationMeasures,
              Early, Window, flags, Forwarded
    <2>5. CASE Forwarded /\ seen.edge = NoCount
      <3> DEFINE n == IF step = "start_counter" THEN INITIAL_COUNT ELSE timer.count
      <3>1. seen' = [seen EXCEPT !.edge = n] /\ n \in 0..INITIAL_COUNT
        BY <1>4, <2>5, SMT DEF PitRises, CalibrationInv, CalibrationTypes
      <3>2. seen'.edge = n /\ seen'.close = seen.close /\ seen' \in [edge : 0..NoCount, close : 0..NoCount]
        BY <3>1, SMT DEF CalibrationInv, CalibrationTypes
      <3>3. ~redirection.masked /\ redirection.vector = "PIT_CALIBRATION"
        BY <2>5 DEF Forwarded
      <3> QED
        BY <1>1, <2>1, <2>3, <2>5, <3>1, <3>2, <3>3, SMT DEF CalibrationInv, CalibrationTypes, Quiet, Measuring,
              CalibrationMeasures, Early, Window, flags
    <2> QED
      BY <2>4, <2>5
  <1> QED
    BY <1>2, <1>3, <1>4 DEF Hardware, Devices

\* The walks over the tables touch neither the devices nor the flags.
LEMMA TablesOnly ==
    ASSUME from_rsdp \/ find_table \/ effective_local_apic_address \/ sole_io_apic \/ isa_irq_route \/ IoApic_new
    PROVE  /\ UNCHANGED <<machineVars, redirection, timer, pit, interrupts, flags, seen>>
           /\ step \in Early /\ step' \in Early \cup {"failed"}
  <1> USE DEF Early, Fail
  <1>1. CASE from_rsdp
    BY <1>1 DEF from_rsdp
  <1>2. CASE find_table
    BY <1>2 DEF find_table
  <1>3. CASE effective_local_apic_address
    BY <1>3 DEF effective_local_apic_address, Walk, AddressEntry
  <1>4. CASE sole_io_apic
    BY <1>4 DEF sole_io_apic, Walk, IoApicEntry
  <1>5. CASE isa_irq_route
    BY <1>5 DEF isa_irq_route, Walk, RouteEntry
  <1>6. CASE IoApic_new
    BY <1>6 DEF IoApic_new
  <1> QED
    BY <1>1, <1>2, <1>3, <1>4, <1>5, <1>6

LEMMA CalibrationStartUp == CalibrationInv /\ StartUp => CalibrationInv'
  <1> SUFFICES ASSUME CalibrationInv, StartUp
               PROVE  CalibrationInv'
    OBVIOUS
  <1> USE CountAssumption DEF NoCount, flags
  <1>1. BootAlone'
    BY DEF StartUp, BootAlone, Controller, Early, Window
  <1>2. CASE from_rsdp \/ find_table \/ effective_local_apic_address \/ sole_io_apic \/ isa_irq_route \/ IoApic_new
    <2>1. /\ UNCHANGED <<redirection, timer, pit, interrupts, flags, seen>>
          /\ step \in Early /\ step' \in Early \cup {"failed"}
      BY <1>2, TablesOnly
    <2>2. step' \notin Window /\ step' # "calibrated"
      BY <2>1 DEF Early, Window
    <2> QED
      BY <1>1, <2>1, <2>2 DEF CalibrationInv, CalibrationTypes, Quiet, Measuring, CalibrationMeasures, Controller, Early
  <1>3. CASE LocalApic_init
    <2>1. /\ UNCHANGED <<redirection, pit, interrupts, flags, seen>>
          /\ timer' \in {timer, [timer EXCEPT !.enabled = TRUE]}
          /\ step = "local_apic" /\ step' \in {"io_apics", "failed"}
      BY <1>3 DEF LocalApic_init, Fail
    <2>2. /\ timer'.count = timer.count /\ timer'.pending = timer.pending
          /\ timer' \in [count : 0..INITIAL_COUNT, enabled : BOOLEAN, pending : BOOLEAN]
      BY <2>1 DEF CalibrationInv, CalibrationTypes
    <2> QED
      BY <1>1, <2>1, <2>2 DEF CalibrationInv, CalibrationTypes, Quiet, Measuring, CalibrationMeasures, Controller,
            Early, Window
  <1>4. CASE At("mask_old", mask_old) \/ At("write_high", write_high) \/ At("write_low", write_low)
    <2>1. /\ UNCHANGED <<timer, pit, interrupts, flags, seen>>
          /\ step \in {"mask_old", "write_high", "write_low"} /\ step' \in {"write_high", "write_low", "unmask"}
      BY <1>4 DEF At, mask_old, write_high, write_low
    <2>2. DOMAIN redirection = {"vector", "destination", "polarity", "trigger", "masked"}
      BY <2>1 DEF CalibrationInv, CalibrationTypes, Controller, Early
    <2>3. /\ DOMAIN redirection' = {"vector", "destination", "polarity", "trigger", "masked"}
          /\ redirection'.masked \/ redirection'.vector # "PIT_CALIBRATION"
      <3>1. redirection.masked \/ redirection.vector # "PIT_CALIBRATION"
        BY <2>1 DEF CalibrationInv, Quiet, Early
      <3>2. CASE redirection' = [redirection EXCEPT !.masked = TRUE]
        BY <2>2, <3>2
      <3>3. CASE redirection' = [redirection EXCEPT !.destination = cpu.id]
        BY <2>2, <3>1, <3>3
      <3>4. CASE write_low
        BY <3>4 DEF write_low
      <3> QED
        BY <1>4, <3>2, <3>3, <3>4 DEF At, mask_old, write_high
    <2> QED
      BY <1>1, <2>1, <2>3 DEF CalibrationInv, CalibrationTypes, Quiet, Measuring, CalibrationMeasures, Early, Window
  <1>5. CASE At("unmask", unmask)
    <2>1. /\ UNCHANGED <<timer, interrupts, seen>> /\ PIT_FIRED' = FALSE /\ LAPIC_COUNT_AT_PIT' = 0
          /\ step = "unmask" /\ step' = "start_counter" /\ redirection' = [redirection EXCEPT !.masked = FALSE]
      BY <1>5 DEF At, unmask
    <2> QED
      <3>1. CalibrationTypes'
        <4>1. DOMAIN redirection' = DOMAIN redirection
          BY <2>1
        <4>2. 0 \in 0..INITIAL_COUNT
          BY SMT
        <4> QED
          BY <2>1, <4>1, <4>2 DEF CalibrationInv, CalibrationTypes, Controller, Early
      <3>2. ~timer.pending /\ ~interrupts /\ seen.edge = NoCount /\ NoCount >= INITIAL_COUNT
        BY <2>1, SMT DEF CalibrationInv, Quiet, Early
      <3> QED
        BY <1>1, <2>1, <3>1, <3>2 DEF CalibrationInv, Quiet, Measuring, CalibrationMeasures, Early
  <1>6. CASE At("start_counter", start_calibration_counter)
    <2>1. /\ UNCHANGED <<redirection, interrupts, flags, seen>> /\ timer' = [timer EXCEPT !.count = INITIAL_COUNT]
          /\ step = "start_counter" /\ step' = "one_shot"
      BY <1>6 DEF At, start_calibration_counter
    <2>2. /\ timer'.count = INITIAL_COUNT /\ timer'.pending = timer.pending
          /\ timer' \in [count : 0..INITIAL_COUNT, enabled : BOOLEAN, pending : BOOLEAN]
      BY <2>1, SMT DEF CalibrationInv, CalibrationTypes
    <2> QED
      BY <1>1, <2>1, <2>2 DEF CalibrationInv, CalibrationTypes, Quiet, Measuring, CalibrationMeasures, Controller,
            Early, Window
  <1>7. CASE \/ At("one_shot", start_pit_one_shot) \/ At("enable_interrupts", enable_interrupts)
             \/ At("poll_flag", poll_flag) \/ At("poll_count", poll_count)
    <2>1. /\ UNCHANGED <<redirection, timer, flags, seen>>
          /\ interrupts' \in {TRUE, interrupts}
          /\ step \in {"one_shot", "enable_interrupts", "poll_flag", "poll_count"}
          /\ step' \in {"enable_interrupts", "poll_flag", "disable_interrupts", "poll_count", "timeout"}
          /\ step' = "disable_interrupts" => PIT_FIRED
          /\ step' = "enable_interrupts" => step = "one_shot" /\ interrupts' = interrupts
      BY <1>7 DEF At, start_pit_one_shot, enable_interrupts, poll_flag, poll_count
    <2> QED
      <3>1. CalibrationTypes'
        BY <2>1 DEF CalibrationInv, CalibrationTypes, Controller, Window
      <3>2. Measuring'
        <4>1. step' = "enable_interrupts" => ~interrupts'
          BY <2>1 DEF CalibrationInv, Measuring, Window
        <4> QED
          BY <2>1, <4>1 DEF CalibrationInv, Measuring, Window
      <3> QED
        BY <1>1, <2>1, <3>1, <3>2 DEF CalibrationInv, Quiet, CalibrationMeasures, Early
  <1>8. CASE At("timeout", timeout)
    <2>1. /\ interrupts' = FALSE /\ timer' = [timer EXCEPT !.count = 0] /\ step' = "failed" /\ UNCHANGED <<flags, seen>>
      BY <1>8 DEF At, timeout, Fail
    <2> QED
      <3>1. timer' \in [count : 0..INITIAL_COUNT, enabled : BOOLEAN, pending : BOOLEAN]
        BY <2>1, SMT DEF CalibrationInv, CalibrationTypes
      <3> QED
        BY <1>1, <2>1, <3>1 DEF CalibrationInv, CalibrationTypes, Quiet, Measuring, CalibrationMeasures, Controller,
              Early, Window
  <1>9. CASE At("disable_interrupts", disable_interrupts)
    <2>1. /\ UNCHANGED <<redirection, timer, flags>> /\ interrupts' = FALSE
          /\ seen' = [seen EXCEPT !.close = timer.count]
          /\ step = "disable_interrupts" /\ step' = "mask"
      BY <1>9 DEF At, disable_interrupts
    <2>2. /\ seen'.edge = seen.edge /\ seen'.close = timer.count
          /\ seen' \in [edge : 0..NoCount, close : 0..NoCount]
      BY <2>1, SMT DEF CalibrationInv, CalibrationTypes
    <2> QED
      BY <1>1, <2>1, <2>2 DEF CalibrationInv, CalibrationTypes, Quiet, Measuring, CalibrationMeasures, Controller,
            Early, Window
  <1>10. CASE At("mask", mask)
    <2>1. /\ UNCHANGED <<timer, interrupts, flags, seen>> /\ redirection' = [redirection EXCEPT !.masked = TRUE]
          /\ step = "mask" /\ step' = "stop_timer"
      BY <1>10 DEF At, mask
    <2> QED
      BY <1>1, <2>1 DEF CalibrationInv, CalibrationTypes, Quiet, Measuring, CalibrationMeasures, Controller, Early, Window
  <1>11. CASE At("stop_timer", stop_timer)
    <2>1. /\ UNCHANGED <<redirection, interrupts, flags, seen>> /\ timer' = [timer EXCEPT !.count = 0]
          /\ step = "stop_timer" /\ step' \in {"failed", "calibrated"}
          /\ step' = "calibrated" => LAPIC_COUNT_AT_PIT # INITIAL_COUNT
      BY <1>11 DEF At, stop_timer
    <2>2. /\ timer'.count = 0
          /\ timer' \in [count : 0..INITIAL_COUNT, enabled : BOOLEAN, pending : BOOLEAN]
      BY <2>1, SMT DEF CalibrationInv, CalibrationTypes
    <2> QED
      BY <1>1, <2>1, <2>2, SMT DEF CalibrationInv, CalibrationTypes, Quiet, Measuring, CalibrationMeasures, Controller,
            Early, Window
  <1> QED
    BY <1>2, <1>3, <1>4, <1>5, <1>6, <1>7, <1>8, <1>9, <1>10, <1>11 DEF StartUp, BootPath

LEMMA CalibrationStep == CalibrationInv /\ [SystemNext]_sysVars => CalibrationInv'
  <1> SUFFICES ASSUME CalibrationInv, [SystemNext]_sysVars
               PROVE  CalibrationInv'
    OBVIOUS
  <1>1. CASE Handover
    <2>1. step' = "spawn" /\ PIT_FIRED' = TRUE /\ LAPIC_COUNT_AT_PIT' = 0 /\ UNCHANGED <<timer, interrupts>>
          /\ seen' = [edge |-> NoCount, close |-> NoCount]
      BY <1>1 DEF Handover
    <2>2. seen' \in [edge : 0..NoCount, close : 0..NoCount] /\ 0 \in 0..INITIAL_COUNT
      BY <2>1, CountAssumption, SMT DEF NoCount
    <2> QED
      BY <2>1, <2>2 DEF CalibrationInv, CalibrationTypes, BootAlone, Quiet, Measuring, CalibrationMeasures, Controller,
            Early, Window
  <1>2. CASE step \notin Controller /\ LateInterrupt
    <2>1. /\ LAPIC_COUNT_AT_PIT' = timer.count /\ PIT_FIRED' = TRUE /\ timer' = [timer EXCEPT !.pending = FALSE]
          /\ UNCHANGED <<step, interrupts, seen>> /\ step \notin Controller
      BY <1>2 DEF LateInterrupt
    <2>2. timer' \in [count : 0..INITIAL_COUNT, enabled : BOOLEAN, pending : BOOLEAN] /\ timer.count \in 0..INITIAL_COUNT
      BY <2>1 DEF CalibrationInv, CalibrationTypes
    <2> QED
      BY <2>1, <2>2 DEF CalibrationInv, CalibrationTypes, BootAlone, Quiet, Measuring, CalibrationMeasures, Controller
  <1>3. CASE ControllerAtRest
    BY <1>3 DEF ControllerAtRest, CalibrationInv, CalibrationTypes, BootAlone, Quiet, Measuring, CalibrationMeasures,
                Controller, flags
  <1>4. CASE UNCHANGED <<bootVars, machine>>
    BY <1>4 DEF bootVars, flags, CalibrationInv, CalibrationTypes, BootAlone, Quiet, Measuring, CalibrationMeasures
  <1>5. BootAlone
    BY DEF CalibrationInv
  <1> QED
    BY <1>1, <1>2, <1>3, <1>4, <1>5, SystemCases, CalibrationHardware, CalibrationStartUp

\* When the calibration succeeds, the count it uses was stored by an interrupt inside the
\* window and the hardware is quiet again (timer.rs, calibrate_local_apic), whatever the
\* PIT does, for every initial count and every length of the waiting loop.
THEOREM CalibrationIsMeasured == SystemSpec => []CalibrationMeasures
  <1>1. CalibrationInv => CalibrationMeasures
    BY DEF CalibrationInv
  <1> QED
    BY <1>1, CalibrationInit, CalibrationStep, PTL DEF SystemSpec

-----------------------------------------------------------------------------
(* The walks over the MADT and the redirection entry they lead to.         *)

\* The size of the entries of a MADT; how far a walk may have come.
Size(m) == m.length - SDT_HEADER - MADT_BODY
Reached(m, n) ==
    /\ n \in 0..Size(m) /\ Tiled(m.entries, n)
    /\ n = 0 \/ \E e \in m.entries : e.length >= ENTRY_HEADER /\ n = e.offset + e.length

Sound(m) == Readable(m) /\ m.length \in Nat /\ m.length >= SDT_HEADER + MADT_BODY

LEMMA EntryThere ==
    ASSUME NEW m, Sound(m), NEW n, Reached(m, n), Size(m) - n >= ENTRY_HEADER
    PROVE  /\ \E e \in m.entries : e.offset = n
           /\ \A e, f \in m.entries : e.offset = n /\ f.offset = n => e = f
  <1>1. Size(m) \in Nat /\ n \in 0..(m.length - SDT_HEADER - MADT_BODY - ENTRY_HEADER)
    BY SMT DEF Sound, Reached, Size, SDT_HEADER, MADT_BODY, ENTRY_HEADER
  <1>2. \E e \in m.entries : e.offset = n
    BY <1>1 DEF Sound, Readable, Reached
  <1>3. \A e, f \in m.entries : e.offset = n /\ f.offset = n => e = f
    BY DEF Sound, Readable
  <1> QED
    BY <1>2, <1>3

LEMMA NextReached ==
    ASSUME NEW m, Sound(m), NEW n, Reached(m, n),
           NEW e \in m.entries, e.offset = n, e.length >= ENTRY_HEADER, e.length <= Size(m) - n
    PROVE  /\ n + e.length \in Nat /\ Reached(m, n + e.length)
           /\ \A f \in m.entries : f.offset \in Nat /\ (f.offset < n + e.length <=> f.offset < n \/ f = e)
  <1>1. /\ \A f \in m.entries : f.offset \in Nat /\ f.length \in Nat
        /\ \A g, f \in m.entries : g.offset <= f.offset /\ f.offset < g.offset + g.length => g = f
        /\ Size(m) \in Nat /\ n \in Nat
    BY SMT DEF Sound, Readable, EntryFields, Size, Reached, SDT_HEADER, MADT_BODY
  <1>2. n + e.length \in 0..Size(m)
    BY <1>1, SMT
  <1>3. Tiled(m.entries, n + e.length)
    <2> DEFINE k == n + e.length
    <2>0. k \in Nat
      BY <1>1, SMT
    <2> HIDE DEF k
    <2> SUFFICES ASSUME NEW byte \in 0..(k - 1)
                 PROVE  \E f \in m.entries :
                            f.offset <= byte /\ byte < f.offset + f.length /\ f.offset + f.length <= k
      BY DEF Tiled, k
    <2> USE <2>0 DEF k
    <2>1. CASE byte < n
      <3>1. PICK f \in m.entries : f.offset <= byte /\ byte < f.offset + f.length /\ f.offset + f.length <= n
        BY <1>1, <2>1, SMT DEF Reached, Tiled
      <3> QED
        BY <1>1, <3>1, SMT
    <2>2. CASE byte >= n
      BY <1>1, <2>2, SMT
    <2> QED
      BY <1>1, <2>1, <2>2, SMT
  <1>4. \A f \in m.entries : f.offset < n + e.length <=> f.offset < n \/ f = e
    <2> SUFFICES ASSUME NEW f \in m.entries
                 PROVE  f.offset < n + e.length <=> f.offset < n \/ f = e
      OBVIOUS
    <2>1. f = e => f.offset < n + e.length
      BY <1>1, SMT DEF ENTRY_HEADER
    <2>2. f.offset < n => f.offset < n + e.length
      BY <1>1, SMT
    <2>3. f.offset < n + e.length /\ f.offset >= n => f = e
      BY <1>1
    <2> QED
      BY <1>1, <2>1, <2>2, <2>3, SMT
  <1> QED
    BY <1>1, <1>2, <1>3, <1>4, SMT DEF Reached

\* What the walks have learnt from the entries before n.
Before(m, kind, n) == {e \in m.entries : e.kind = kind /\ e.offset < n}
AddressSoFar(m, n) ==
    \/ Before(m, 5, n) = {} /\ info.address = m.local_apic_address
    \/ \E e \in Before(m, 5, n) : info.address = e.address /\ \A f \in Before(m, 5, n) : f.offset <= e.offset
IoApicSoFar(m, n) ==
    \/ Before(m, 1, n) = {} /\ info.io_apic = Nothing
    \/ Before(m, 1, n) = {info.io_apic} /\ info.io_apic # Nothing
NoRouteSoFar(m, n) == \A e \in Before(m, 2, n) : ~(e.bus = 0 /\ e.source = PIT_IRQ)

\* A walk begins before all entries.
LEMMA WalkBegins ==
    ASSUME NEW m, Sound(m)
    PROVE  Reached(m, 0) /\ \A kind : Before(m, kind, 0) = {}
  <1>1. Size(m) \in Nat
    BY SMT DEF Sound, Size, SDT_HEADER, MADT_BODY
  <1>2. Tiled(m.entries, 0)
    BY SMT DEF Tiled
  <1>3. \A e \in m.entries : e.offset \in Nat
    BY DEF Sound, Readable, EntryFields
  <1>4. \A kind : Before(m, kind, 0) = {}
    BY <1>3, SMT DEF Before
  <1> QED
    BY <1>1, <1>2, <1>4, SMT DEF Reached

LEMMA AllBefore ==
    ASSUME Sound(FirstMadt)
    PROVE  \A kind : Before(FirstMadt, kind, Size(FirstMadt)) = OfKind(kind)
  BY SMT DEF Sound, Readable, EntryFields, Size, Before, OfKind, SDT_HEADER, MADT_BODY

LEMMA AddressAtEnd ==
    ASSUME Sound(FirstMadt), AddressSoFar(FirstMadt, Size(FirstMadt))
    PROVE  info.address = DeclaredAddress
  <1>1. CASE OfKind(5) = {}
    BY <1>1, AllBefore DEF AddressSoFar, DeclaredAddress
  <1>2. CASE OfKind(5) # {}
    <2>1. PICK e \in OfKind(5) : info.address = e.address /\ \A f \in OfKind(5) : f.offset <= e.offset
      BY <1>2, AllBefore DEF AddressSoFar
    <2>2. \A d, f \in OfKind(5) :
              d.offset \in Nat /\ f.offset \in Nat /\ (d.offset = f.offset => d = f)
      BY DEF OfKind, Sound, Readable, EntryFields
    <2>3. ASSUME NEW d \in OfKind(5), \A f \in OfKind(5) : f.offset <= d.offset
          PROVE  d = e
      <3>1. d.offset <= e.offset /\ e.offset <= d.offset /\ d.offset \in Nat /\ e.offset \in Nat
        BY <2>1, <2>2, <2>3
      <3>2. d.offset = e.offset
        BY <3>1, SMT
      <3> QED
        BY <2>2, <3>2
    <2>4. LastOf(OfKind(5)) = e
      BY <2>1, <2>3 DEF LastOf
    <2> QED
      BY <1>2, <2>1, <2>4 DEF DeclaredAddress
  <1> QED
    BY <1>1, <1>2

LEMMA RouteAtEnd ==
    ASSUME Sound(FirstMadt), NoRouteSoFar(FirstMadt, Size(FirstMadt))
    PROVE  DeclaredRoute = Route(PIT_IRQ, "High", "Edge")
  BY AllBefore DEF NoRouteSoFar, DeclaredRoute, PitOverrides

LEMMA RouteAt ==
    ASSUME Sound(FirstMadt), NEW n \in Nat, NoRouteSoFar(FirstMadt, n),
           NEW e \in FirstMadt.entries, e.offset = n, e.kind = 2, e.bus = 0, e.source = PIT_IRQ,
           2 \notin {e.flags % 4, (e.flags \div 4) % 4}
    PROVE  DeclaredRoute = Route(e.gsi, Polarity[e.flags % 4], Trigger[(e.flags \div 4) % 4])
  <1>1. e \in PitOverrides
    BY DEF PitOverrides, OfKind
  <1>2. \A f \in PitOverrides : f.offset \in Nat /\ e.offset <= f.offset /\ (e.offset = f.offset => f = e)
    BY SMT DEF PitOverrides, OfKind, NoRouteSoFar, Before, Sound, Readable, EntryFields
  <1>3. \A d \in PitOverrides : (\A f \in PitOverrides : d.offset <= f.offset) => d = e
    BY <1>1, <1>2, SMT
  <1>4. FirstOf(PitOverrides) = e
    BY <1>1, <1>2, <1>3 DEF FirstOf
  <1>5. e.flags % 4 \in {0, 1, 3} /\ (e.flags \div 4) % 4 \in {0, 1, 3}
    <2>1. e.flags \in Nat
      BY DEF Sound, Readable, EntryFields
    <2>2. e.flags % 4 \in 0..3 /\ (e.flags \div 4) % 4 \in 0..3
      BY <2>1, SMT
    <2> QED
      BY <2>2, SMT
  <1> QED
    BY <1>1, <1>4, <1>5 DEF DeclaredRoute, Polarity, Trigger

\* The places from which on something is known.
Walks == {"local_apic_address", "io_apics", "route"}
FromMadt == Controller \ {"rsdp", "find_table"}
FromAddress == FromMadt \ {"local_apic_address"}
FromApic == FromAddress \ {"local_apic"}
FromIoApic == FromApic \ {"io_apics"}
FromRoute == FromIoApic \ {"route"}
FromChip == FromRoute \ {"io_apic"}

Machines ==
    step \in Controller =>
        /\ firmware \in Firmware /\ cpu \in LocalApics /\ chip \in IoApics
        /\ DOMAIN info = {"address", "io_apic", "route"}

Searching ==
    step \in {"rsdp", "find_table"} =>
        /\ table \in Nat \ {0} /\ entry_addr = 0 /\ info.io_apic = Nothing
        /\ \A j \in 1..(table - 1) : firmware.root.tables[j].signature # "APIC"
        /\ step = "find_table" =>
              firmware.root.signature = IF firmware.rsdp.revision >= 2 THEN "XSDT" ELSE "RSDT"

Walked ==
    /\ step \in FromMadt => madt = FirstMadt /\ Sound(madt)
    /\ step \in Walks => Reached(madt, entry_addr)
    /\ step \in Controller \ Walks => entry_addr = 0
    /\ step = "local_apic_address" => AddressSoFar(madt, entry_addr)
    /\ step \in {"local_apic_address", "local_apic"} => info.io_apic = Nothing
    /\ step \in FromAddress => Tiled(madt.entries, Size(madt)) /\ info.address = DeclaredAddress
    /\ step \in FromApic => cpu.address = DeclaredAddress
    /\ step = "io_apics" => IoApicSoFar(madt, entry_addr)
    /\ step \in FromIoApic => OfKind(1) = {info.io_apic}
    /\ step = "route" => NoRouteSoFar(madt, entry_addr)
    /\ step \in FromRoute => info.route = DeclaredRoute /\ info.route.gsi \in Nat
    /\ step \in FromChip => /\ chip.id = info.io_apic.id /\ cpu.id \in 0..255
                            /\ DeclaredRoute.gsi - info.io_apic.gsi_base \in 0..(chip.entry_count - 1)

\* The redirection entry is the loader's until it is masked, and complete when it is opened.
EntryWritten ==
    /\ step \in Early \ {"write_high", "write_low", "unmask"} => redirection \in FirmwareEntry
    /\ step \in {"write_high", "write_low"} => redirection.masked = TRUE
    /\ step = "write_low" => redirection.destination = cpu.id
    /\ step = "unmask" =>
          redirection = [vector |-> "PIT_CALIBRATION", destination |-> cpu.id, masked |-> TRUE,
                         polarity |-> info.route.polarity, trigger |-> info.route.trigger]

RoutingInv == Machines /\ Searching /\ Walked /\ EntryWritten /\ PitRoutedByTable

LEMMA RoutingInit == SystemInit => RoutingInv
  <1> SUFFICES ASSUME SystemInit
               PROVE  RoutingInv
    OBVIOUS
  <1>1. /\ step = "rsdp" /\ table = 1 /\ entry_addr = 0 /\ redirection \in FirmwareEntry
        /\ info = [address |-> 0, io_apic |-> Nothing, route |-> Nothing]
        /\ firmware \in Firmware /\ cpu \in LocalApics /\ chip \in IoApics
    BY DEF SystemInit, ControllerInit
  <1>2. Machines /\ Searching
    BY <1>1, SMT DEF Machines, Searching
  <1>3. Walked
    BY <1>1 DEF Walked, FromMadt, FromAddress, FromApic, FromIoApic, FromRoute, FromChip, Walks
  <1>4. EntryWritten /\ PitRoutedByTable
    BY <1>1 DEF EntryWritten, PitRoutedByTable
  <1> QED
    BY <1>2, <1>3, <1>4 DEF RoutingInv

LEMMA DeclaredSame ==
    ASSUME UNCHANGED machineVars
    PROVE  /\ FirstMadt' = FirstMadt /\ DeclaredAddress' = DeclaredAddress /\ DeclaredRoute' = DeclaredRoute
           /\ OfKind(1)' = OfKind(1)
  <1>1. firmware' = firmware
    BY DEF machineVars
  <1>2. FirstMadt' = FirstMadt
    BY <1>1 DEF FirstMadt
  <1>3. OfKind(1)' = OfKind(1) /\ OfKind(2)' = OfKind(2) /\ OfKind(5)' = OfKind(5)
    BY <1>2 DEF OfKind
  <1>4. DeclaredAddress' = DeclaredAddress
    BY <1>2, <1>3 DEF DeclaredAddress
  <1>5. PitOverrides' = PitOverrides
    BY <1>3 DEF PitOverrides
  <1>6. DeclaredRoute' = DeclaredRoute
    BY <1>5 DEF DeclaredRoute
  <1> QED
    BY <1>2, <1>3, <1>4, <1>6

LEMMA RoutedSame ==
    ASSUME PitRoutedByTable, UNCHANGED <<machineVars, redirection>>
    PROVE  PitRoutedByTable'
  <1>1. cpu' = cpu /\ chip' = chip /\ redirection' = redirection
    BY DEF machineVars
  <1>2. /\ FirstMadt' = FirstMadt /\ DeclaredAddress' = DeclaredAddress /\ DeclaredRoute' = DeclaredRoute
        /\ OfKind(1)' = OfKind(1)
    BY DeclaredSame
  <1> QED
    BY <1>1, <1>2, SMT DEF PitRoutedByTable

LEMMA RoutingFrame ==
    ASSUME RoutingInv, UNCHANGED <<step, machineVars, table, entry_addr, info, redirection>>
    PROVE  RoutingInv'
  <1>1. /\ step' = step /\ table' = table /\ entry_addr' = entry_addr /\ info' = info /\ redirection' = redirection
        /\ firmware' = firmware /\ cpu' = cpu /\ chip' = chip
    BY DEF machineVars
  <1>2. Machines' /\ Searching' /\ EntryWritten'
    BY <1>1 DEF RoutingInv, Machines, Searching, EntryWritten
  <1>3. Walked'
    <2>1. madt' = madt
      BY <1>1 DEF madt
    <2>2. /\ AddressSoFar(madt, entry_addr) => AddressSoFar(madt, entry_addr)'
          /\ IoApicSoFar(madt, entry_addr) => IoApicSoFar(madt, entry_addr)'
          /\ NoRouteSoFar(madt, entry_addr) => NoRouteSoFar(madt, entry_addr)'
      BY <1>1, <2>1 DEF AddressSoFar, IoApicSoFar, NoRouteSoFar
    <2>3. /\ FirstMadt' = FirstMadt /\ DeclaredAddress' = DeclaredAddress /\ DeclaredRoute' = DeclaredRoute
          /\ OfKind(1)' = OfKind(1)
      BY DeclaredSame
    <2> QED
      BY <1>1, <2>1, <2>2, <2>3, SMT DEF RoutingInv, Walked
  <1>4. PitRoutedByTable'
    BY RoutedSame DEF RoutingInv
  <1> QED
    BY <1>2, <1>3, <1>4 DEF RoutingInv

LEMMA RoutingRest ==
    ASSUME RoutingInv, UNCHANGED <<machineVars, redirection>>, step' \notin Controller
    PROVE  RoutingInv'
  <1>1. PitRoutedByTable'
    BY RoutedSame DEF RoutingInv
  <1>2. Machines' /\ Searching' /\ EntryWritten'
    BY DEF Machines, Searching, EntryWritten, Controller, Early
  <1>3. Walked'
    BY DEF Walked, FromMadt, FromAddress, FromApic, FromIoApic, FromRoute, FromChip, Walks, Controller, Early
  <1> QED
    BY <1>1, <1>2, <1>3 DEF RoutingInv

LEMMA RoutingSearch ==
    ASSUME RoutingInv, from_rsdp \/ find_table
    PROVE  RoutingInv'
  <1>1. UNCHANGED <<machineVars, redirection>>
    BY DEF from_rsdp, find_table
  <1>2. CASE step' = "failed"
    BY <1>1, <1>2, RoutingRest DEF Controller, Early, Window
  <1>3. CASE step' = "find_table"
    <2>1. /\ step \in {"rsdp", "find_table"} /\ UNCHANGED <<info, entry_addr>>
          /\ table' = table \/ (table' = table + 1 /\ firmware.root.tables[table].signature # "APIC")
          /\ firmware.root.signature = IF firmware.rsdp.revision >= 2 THEN "XSDT" ELSE "RSDT"
      BY <1>3 DEF from_rsdp, find_table, RoutingInv, Searching, Fail
    <2>2. Machines' /\ Searching'
      <3>1. /\ table \in Nat \ {0} /\ entry_addr = 0 /\ info.io_apic = Nothing
            /\ \A j \in 1..(table - 1) : firmware.root.tables[j].signature # "APIC"
        BY <2>1 DEF RoutingInv, Searching
      <3>2. table' \in Nat \ {0} /\ \A j \in 1..(table' - 1) : firmware.root.tables[j].signature # "APIC"
        BY <2>1, <3>1, SMT
      <3>3. Machines'
        BY <1>1, <2>1 DEF RoutingInv, Machines, machineVars, Controller, Early
      <3> QED
        BY <1>1, <1>3, <2>1, <3>1, <3>2, <3>3 DEF Searching, machineVars
    <2>3. Walked'
      BY <1>3, <2>1 DEF RoutingInv, Searching, Walked, FromMadt, FromAddress, FromApic, FromIoApic, FromRoute,
                        FromChip, Walks
    <2>4. EntryWritten' /\ PitRoutedByTable'
      BY <1>1, <1>3, <2>1 DEF RoutingInv, EntryWritten, PitRoutedByTable, Early
    <2> QED
      BY <2>2, <2>3, <2>4 DEF RoutingInv
  <1>4. CASE step' = "local_apic_address"
    <2>0. PICK m : m = firmware.root.tables[table]
      OBVIOUS
    <2>1. /\ step = "find_table" /\ ~BadRootLength /\ table <= EntryCount
          /\ m.signature = "APIC" /\ m.length >= SDT_HEADER + MADT_BODY
          /\ info' = [info EXCEPT !.address = m.local_apic_address] /\ UNCHANGED <<table, entry_addr>>
      BY <1>4, <2>0 DEF from_rsdp, find_table, Fail
    <2>2. /\ table \in Nat \ {0} /\ entry_addr = 0 /\ info.io_apic = Nothing
          /\ \A j \in 1..(table - 1) : firmware.root.tables[j].signature # "APIC"
          /\ firmware.root.signature = IF firmware.rsdp.revision >= 2 THEN "XSDT" ELSE "RSDT"
      BY <2>1 DEF RoutingInv, Searching
    <2>3. /\ firmware \in Firmware /\ DOMAIN info = {"address", "io_apic", "route"}
          /\ cpu \in LocalApics /\ chip \in IoApics
      BY <2>1 DEF RoutingInv, Machines, Controller, Early
    <2>4. DOMAIN firmware.root.tables \subseteq Nat \ {0} /\ table \in DOMAIN firmware.root.tables
      <3>1. EntryCount \in Int /\ table \in 1..EntryCount
        BY <2>1, <2>2, <2>3, FirmwareAssumption, SMT DEF EntryCount, BadRootLength, EntryWidth, SDT_HEADER
      <3>2. 1..EntryCount \subseteq DOMAIN firmware.root.tables
        BY <2>1, <2>2, <2>3, FirmwareAssumption, SMT DEF EntryCount, BadRootLength, EntryWidth, SDT_HEADER
      <3> QED
        BY <2>3, <3>1, <3>2, FirmwareAssumption
    <2>5. Sound(m)
      BY <2>0, <2>1, <2>3, <2>4, FirmwareAssumption DEF Sound
    <2>6. FirstMadt = m
      <3> DEFINE T == firmware.root.tables
                 First(i) == T[i].signature = "APIC" /\ \A j \in 1..(i - 1) : T[j].signature # "APIC"
      <3>1. table \in DOMAIN T /\ First(table)
        BY <2>0, <2>1, <2>2, <2>4
      <3>2. ASSUME NEW k \in DOMAIN T, First(k)
            PROVE  k = table
        BY <2>2, <2>4, <3>1, <3>2, SMT
      <3>3. FirstMadt = T[CHOOSE k \in DOMAIN T : First(k)]
        BY DEF FirstMadt
      <3> HIDE DEF T, First
      <3>4. (CHOOSE k \in DOMAIN T : First(k)) = table
        BY <3>1, <3>2
      <3> QED
        BY <2>0, <3>3, <3>4 DEF T
    <2>7. madt' = m /\ FirstMadt' = m
      BY <1>1, <2>0, <2>1, <2>6, DeclaredSame DEF madt, machineVars
    <2>8. Machines' /\ Searching'
      BY <1>1, <1>4, <2>1, <2>3 DEF Machines, Searching, machineVars
    <2>9. info'.address = m.local_apic_address /\ info'.io_apic = Nothing
      BY <2>1, <2>2, <2>3
    <2>10. Reached(m, 0)
      BY <2>5, SMT DEF Reached, Tiled, Sound, Size, SDT_HEADER, MADT_BODY
    <2>11. Before(m, 5, 0) = {}
      BY <2>5, SMT DEF Before, Sound, Readable, EntryFields
    <2>12. AddressSoFar(madt, entry_addr)'
      BY <2>1, <2>2, <2>7, <2>9, <2>11 DEF AddressSoFar
    <2>13. Walked'
      BY <1>4, <2>1, <2>2, <2>5, <2>7, <2>9, <2>10, <2>12 DEF Walked, FromMadt, FromAddress, FromApic, FromIoApic,
            FromRoute, FromChip, Walks
    <2>14. EntryWritten' /\ PitRoutedByTable'
      BY <1>1, <1>4, <2>1 DEF RoutingInv, EntryWritten, PitRoutedByTable, Early
    <2> QED
      BY <2>8, <2>13, <2>14 DEF RoutingInv
  <1>5. step' \in {"failed", "find_table", "local_apic_address"}
    BY DEF from_rsdp, find_table, Fail
  <1> QED
    BY <1>2, <1>3, <1>4, <1>5

\* The entry that a walk reads, and what it knows after it.
LEMMA WalkReads ==
    ASSUME RoutingInv, step \in Walks, entry_addr # End, ~BadEntry
    PROVE  \E e \in madt.entries :
               /\ e = EntryAt(entry_addr) /\ e.offset = entry_addr /\ entry_addr \in Nat /\ EntryFields(e)
               /\ Reached(madt, entry_addr + e.length)
               /\ \A kind : Before(madt, kind, entry_addr + e.length) =
                     Before(madt, kind, entry_addr) \cup (IF e.kind = kind THEN {e} ELSE {})
  <1>1. Sound(madt) /\ Reached(madt, entry_addr)
    BY DEF RoutingInv, Walked, FromMadt, Controller, Early, Walks
  <1>2. Size(madt) - entry_addr >= ENTRY_HEADER
    <2>1. End \in Nat /\ entry_addr \in Nat
      BY <1>1, SMT DEF Reached, Sound, End, Size, SDT_HEADER, MADT_BODY
    <2> QED
      BY <2>1, SMT DEF BadEntry, End, Size, ENTRY_HEADER
  <1>3. PICK e \in madt.entries : e.offset = entry_addr
    BY <1>1, <1>2, EntryThere
  <1>4. e = EntryAt(entry_addr)
    BY <1>1, <1>2, <1>3, EntryThere DEF EntryAt
  <1>5. EntryFields(e) /\ e.length >= ENTRY_HEADER /\ e.length <= Size(madt) - entry_addr
    <2>1. EntryFields(e) /\ Size(madt) \in Nat /\ entry_addr \in Nat
      BY <1>1, <1>3, SMT DEF Sound, Readable, Reached, Size, SDT_HEADER, MADT_BODY
    <2>2. ~(e.length < ENTRY_HEADER) /\ ~(e.length > Size(madt) - entry_addr)
      BY <1>4 DEF BadEntry, End, Size
    <2> QED
      BY <2>1, <2>2, SMT DEF EntryFields, ENTRY_HEADER
  <1>6. /\ Reached(madt, entry_addr + e.length)
        /\ \A f \in madt.entries : f.offset < entry_addr + e.length <=> f.offset < entry_addr \/ f = e
    BY <1>1, <1>3, <1>5, NextReached
  <1>7. ASSUME NEW kind
        PROVE  Before(madt, kind, entry_addr + e.length) =
                   Before(madt, kind, entry_addr) \cup (IF e.kind = kind THEN {e} ELSE {})
    BY <1>3, <1>6 DEF Before
  <1>8. entry_addr \in Nat
    BY <1>1, SMT DEF Reached
  <1> QED
    BY <1>3, <1>4, <1>5, <1>6, <1>7, <1>8

\* What stays as it is when a walk goes on in the same step or to the next.
LEMMA WalkKeeps ==
    ASSUME RoutingInv, step \in Walks, UNCHANGED <<machineVars, table, redirection>>,
           step' \in Early \ {"rsdp", "find_table", "mask_old", "write_high", "write_low", "unmask"},
           DOMAIN info' = DOMAIN info
    PROVE  /\ madt' = madt /\ madt' = FirstMadt' /\ Sound(madt) /\ madt = FirstMadt
           /\ Machines' /\ Searching' /\ EntryWritten' /\ PitRoutedByTable'
  <1>1. step \in Controller /\ step \in FromMadt /\ step \in Early \ {"write_high", "write_low", "unmask"}
    BY DEF Walks, FromMadt, Controller, Early
  <1>2. madt' = madt /\ madt = FirstMadt /\ Sound(madt) /\ FirstMadt' = FirstMadt
    BY <1>1, DeclaredSame DEF RoutingInv, Walked, madt, machineVars
  <1>3. redirection \in FirmwareEntry
    BY <1>1 DEF RoutingInv, EntryWritten
  <1>4. Machines'
    BY <1>1 DEF RoutingInv, Machines, machineVars
  <1>5. Searching'
    BY DEF Searching
  <1>6. EntryWritten' /\ PitRoutedByTable'
    BY <1>3 DEF EntryWritten, PitRoutedByTable
  <1> QED
    BY <1>2, <1>4, <1>5, <1>6

LEMMA AddressWalk ==
    ASSUME RoutingInv, effective_local_apic_address
    PROVE  RoutingInv'
  <1>1. step = "local_apic_address" /\ UNCHANGED <<machineVars, table, redirection>> /\ step \in Walks
    BY DEF effective_local_apic_address, Walk, Walks
  <1>2. /\ DOMAIN info = {"address", "io_apic", "route"} /\ info.io_apic = Nothing
        /\ AddressSoFar(madt, entry_addr) /\ Reached(madt, entry_addr)
    BY <1>1 DEF RoutingInv, Machines, Walked, Controller, Early
  <1>3. CASE step' = "failed"
    BY <1>1, <1>3, RoutingRest DEF Controller, Early, Window
  <1>4. CASE entry_addr = End /\ step' # "failed"
    <2>1. step' = "local_apic" /\ UNCHANGED info /\ entry_addr' = 0
      BY <1>4 DEF effective_local_apic_address, Walk, Fail
    <2>2. /\ madt' = madt /\ madt' = FirstMadt' /\ Sound(madt) /\ madt = FirstMadt
          /\ Machines' /\ Searching' /\ EntryWritten' /\ PitRoutedByTable'
      BY <1>1, <2>1, WalkKeeps DEF Early
    <2>3. info.address = DeclaredAddress /\ Tiled(madt.entries, Size(madt))
      BY <1>2, <1>4, <2>2, AddressAtEnd DEF End, Size, Reached
    <2>4. Walked'
      BY <1>1, <1>2, <2>1, <2>2, <2>3, DeclaredSame DEF Walked, FromMadt, FromAddress, FromApic, FromIoApic,
            FromRoute, FromChip, Walks
    <2> QED
      BY <2>2, <2>4 DEF RoutingInv
  <1>5. CASE entry_addr # End /\ step' # "failed"
    <2>1. ~BadEntry
      BY <1>5 DEF effective_local_apic_address, Walk, Fail
    <2>2. PICK e : /\ e \in madt.entries /\ e = EntryAt(entry_addr) /\ e.offset = entry_addr /\ entry_addr \in Nat
                   /\ EntryFields(e) /\ Reached(madt, entry_addr + e.length)
                   /\ \A kind : Before(madt, kind, entry_addr + e.length) =
                         Before(madt, kind, entry_addr) \cup (IF e.kind = kind THEN {e} ELSE {})
      BY <1>1, <1>5, <2>1, WalkReads
    <2>3. /\ step' = step /\ entry_addr' = entry_addr + e.length
          /\ info' = IF e.kind = 5 THEN [info EXCEPT !.address = e.address] ELSE info
      BY <1>1, <1>5, <2>1, <2>2 DEF effective_local_apic_address, Walk, AddressEntry
    <2>4. /\ DOMAIN info' = DOMAIN info /\ info'.io_apic = Nothing
          /\ info'.address = IF e.kind = 5 THEN e.address ELSE info.address
      BY <1>2, <2>3
    <2>5. /\ madt' = madt /\ madt' = FirstMadt' /\ Sound(madt) /\ madt = FirstMadt
          /\ Machines' /\ Searching' /\ EntryWritten' /\ PitRoutedByTable'
      BY <1>1, <2>3, <2>4, WalkKeeps DEF Early
    <2>6. PICK m, n : m = madt /\ n = entry_addr
      OBVIOUS
    <2>7. /\ n \in Nat /\ Before(m, 5, n + e.length) = Before(m, 5, n) \cup (IF e.kind = 5 THEN {e} ELSE {})
          /\ \A f \in Before(m, 5, n) : f.offset \in Nat /\ f.offset <= e.offset
      <3>1. n \in Nat /\ e.offset = n /\ Sound(m)
        BY <2>2, <2>5, <2>6
      <3>2. \A f \in Before(m, 5, n) : f.offset \in Nat /\ f.offset <= e.offset
        BY <3>1, SMT DEF Before, Sound, Readable, EntryFields
      <3> QED
        BY <2>2, <2>6, <3>1, <3>2
    <2>8. e.offset \in Nat
      BY <2>2
    <2>9. AddressSoFar(madt, entry_addr)'
      <3>1. CASE e.kind = 5
        <4>1. e \in Before(m, 5, n + e.length) /\ \A f \in Before(m, 5, n + e.length) : f.offset <= e.offset
          BY <2>7, <2>8, <3>1, SMT
        <4> QED
          BY <2>3, <2>4, <2>5, <2>6, <3>1, <4>1 DEF AddressSoFar
      <3>2. CASE e.kind # 5
        <4>1. Before(m, 5, n + e.length) = Before(m, 5, n)
          BY <2>7, <3>2
        <4> QED
          BY <1>2, <2>3, <2>4, <2>5, <2>6, <3>2, <4>1 DEF AddressSoFar
      <3> QED
        BY <3>1, <3>2
    <2>10. Reached(madt, entry_addr)'
      BY <2>2, <2>3, <2>5
    <2>11. Walked'
      BY <1>1, <2>3, <2>4, <2>5, <2>9, <2>10 DEF Walked, FromMadt, FromAddress, FromApic, FromIoApic,
            FromRoute, FromChip, Walks
    <2> QED
      BY <2>5, <2>11 DEF RoutingInv
  <1> QED
    BY <1>3, <1>4, <1>5

LEMMA LocalApicStep ==
    ASSUME RoutingInv, LocalApic_init
    PROVE  RoutingInv'
  <1>1. /\ step = "local_apic" /\ UNCHANGED <<machineVars, table, entry_addr, info, redirection>>
        /\ step' = "failed" \/ (step' = "io_apics" /\ cpu.address = info.address)
    BY DEF LocalApic_init, Fail
  <1>2. CASE step' = "failed"
    BY <1>1, <1>2, RoutingRest DEF Controller, Early, Window
  <1>3. CASE step' = "io_apics"
    <2>1. /\ madt = FirstMadt /\ Sound(madt) /\ entry_addr = 0 /\ info.io_apic = Nothing
          /\ Tiled(madt.entries, Size(madt)) /\ info.address = DeclaredAddress
          /\ redirection \in FirmwareEntry
      BY <1>1 DEF RoutingInv, Walked, EntryWritten, FromMadt, FromAddress, Walks, Controller, Early
    <2>2. madt' = madt
      BY <1>1 DEF madt, machineVars
    <2>3. Reached(madt, 0) /\ Before(madt, 1, 0) = {}
      BY <2>1, WalkBegins
    <2>4. Reached(madt, entry_addr)' /\ IoApicSoFar(madt, entry_addr)'
      BY <1>1, <2>1, <2>2, <2>3 DEF IoApicSoFar
    <2>5. cpu'.address = DeclaredAddress'
      BY <1>1, <1>3, <2>1, DeclaredSame DEF machineVars
    <2>6. Walked'
      BY <1>1, <1>3, <2>1, <2>2, <2>4, <2>5, DeclaredSame DEF Walked, FromMadt, FromAddress, FromApic, FromIoApic,
            FromRoute, FromChip, Walks
    <2>7. Machines' /\ Searching'
      BY <1>1, <1>3 DEF RoutingInv, Machines, Searching, machineVars, Controller, Early
    <2>8. EntryWritten' /\ PitRoutedByTable'
      BY <1>1, <1>3, <2>1 DEF EntryWritten, PitRoutedByTable
    <2> QED
      BY <2>6, <2>7, <2>8 DEF RoutingInv
  <1> QED
    BY <1>1, <1>2, <1>3

LEMMA IoApicWalk ==
    ASSUME RoutingInv, sole_io_apic
    PROVE  RoutingInv'
  <1>1. step = "io_apics" /\ UNCHANGED <<machineVars, table, redirection>> /\ step \in Walks
    BY DEF sole_io_apic, Walk, Walks
  <1>2. /\ DOMAIN info = {"address", "io_apic", "route"} /\ Sound(madt) /\ madt = FirstMadt
        /\ IoApicSoFar(madt, entry_addr) /\ Reached(madt, entry_addr)
        /\ Tiled(madt.entries, Size(madt)) /\ info.address = DeclaredAddress /\ cpu.address = DeclaredAddress
    BY <1>1 DEF RoutingInv, Machines, Walked, FromMadt, FromAddress, FromApic, Controller, Early
  <1>3. CASE step' = "failed"
    BY <1>1, <1>3, RoutingRest DEF Controller, Early, Window
  <1>4. CASE entry_addr = End /\ step' # "failed"
    <2>1. step' = "route" /\ UNCHANGED info /\ entry_addr' = 0 /\ info.io_apic # Nothing
      BY <1>4 DEF sole_io_apic, Walk, Fail
    <2>2. /\ madt' = madt /\ madt' = FirstMadt'
          /\ Machines' /\ Searching' /\ EntryWritten' /\ PitRoutedByTable'
      BY <1>1, <2>1, WalkKeeps DEF Early
    <2>3. OfKind(1) = {info.io_apic}
      BY <1>2, <1>4, <2>1, AllBefore DEF IoApicSoFar, End, Size
    <2>4. Reached(madt, 0) /\ Before(madt, 2, 0) = {}
      BY <1>2, WalkBegins
    <2>5. Reached(madt, entry_addr)' /\ NoRouteSoFar(madt, entry_addr)'
      BY <2>1, <2>2, <2>4 DEF NoRouteSoFar
    <2>6. cpu'.address = DeclaredAddress' /\ info'.address = DeclaredAddress' /\ OfKind(1)' = {info'.io_apic}
      BY <1>1, <1>2, <2>1, <2>3, DeclaredSame DEF machineVars
    <2>7. Walked'
      BY <1>2, <2>1, <2>2, <2>5, <2>6 DEF Walked, FromMadt, FromAddress, FromApic, FromIoApic, FromRoute, FromChip, Walks
    <2> QED
      BY <2>2, <2>7 DEF RoutingInv
  <1>5. CASE entry_addr # End /\ step' # "failed"
    <2>1. ~BadEntry
      BY <1>5 DEF sole_io_apic, Walk, Fail
    <2>2. PICK e : /\ e \in madt.entries /\ e = EntryAt(entry_addr) /\ e.offset = entry_addr /\ entry_addr \in Nat
                   /\ EntryFields(e) /\ Reached(madt, entry_addr + e.length)
                   /\ \A kind : Before(madt, kind, entry_addr + e.length) =
                         Before(madt, kind, entry_addr) \cup (IF e.kind = kind THEN {e} ELSE {})
      BY <1>1, <1>5, <2>1, WalkReads
    <2>3. /\ step' = step /\ entry_addr' = entry_addr + e.length
          /\ \/ e.kind = 1 /\ info.io_apic = Nothing /\ info' = [info EXCEPT !.io_apic = e]
             \/ e.kind # 1 /\ info' = info
      BY <1>1, <1>5, <2>1, <2>2 DEF sole_io_apic, Walk, IoApicEntry
    <2>4. e # Nothing
      BY <2>2 DEF EntryFields, Nothing
    <2>5. /\ DOMAIN info' = DOMAIN info /\ info'.address = info.address
          /\ \/ e.kind = 1 /\ info.io_apic = Nothing /\ info'.io_apic = e
             \/ e.kind # 1 /\ info'.io_apic = info.io_apic
      BY <1>2, <2>3
    <2>6. /\ madt' = madt /\ madt' = FirstMadt'
          /\ Machines' /\ Searching' /\ EntryWritten' /\ PitRoutedByTable'
      BY <1>1, <2>3, <2>5, WalkKeeps DEF Early
    <2>7. PICK m, n : m = madt /\ n = entry_addr
      OBVIOUS
    <2>8. Before(m, 1, n + e.length) = Before(m, 1, n) \cup (IF e.kind = 1 THEN {e} ELSE {})
      BY <2>2, <2>7
    <2>9. IoApicSoFar(madt, entry_addr)'
      <3>1. CASE e.kind = 1
        <4>1. Before(m, 1, n + e.length) = {e}
          BY <1>2, <2>5, <2>7, <2>8, <3>1 DEF IoApicSoFar
        <4> QED
          BY <2>3, <2>4, <2>5, <2>6, <2>7, <3>1, <4>1 DEF IoApicSoFar
      <3>2. CASE e.kind # 1
        <4>1. Before(m, 1, n + e.length) = Before(m, 1, n)
          BY <2>8, <3>2
        <4> QED
          BY <1>2, <2>3, <2>5, <2>6, <2>7, <3>2, <4>1 DEF IoApicSoFar
      <3> QED
        BY <3>1, <3>2
    <2>10. Reached(madt, entry_addr)'
      BY <2>2, <2>3, <2>6
    <2>11. cpu'.address = DeclaredAddress' /\ info'.address = DeclaredAddress'
      BY <1>1, <1>2, <2>5, DeclaredSame DEF machineVars
    <2>12. Walked'
      BY <1>1, <1>2, <2>3, <2>6, <2>9, <2>10, <2>11 DEF Walked, FromMadt, FromAddress, FromApic, FromIoApic,
            FromRoute, FromChip, Walks
    <2> QED
      BY <2>6, <2>12 DEF RoutingInv
  <1> QED
    BY <1>3, <1>4, <1>5

LEMMA RouteWalk ==
    ASSUME RoutingInv, isa_irq_route
    PROVE  RoutingInv'
  <1>1. step = "route" /\ UNCHANGED <<machineVars, table, redirection>> /\ step \in Walks
    BY DEF isa_irq_route, Walk, Walks
  <1>2. /\ DOMAIN info = {"address", "io_apic", "route"} /\ Sound(madt) /\ madt = FirstMadt
        /\ NoRouteSoFar(madt, entry_addr) /\ Reached(madt, entry_addr)
        /\ Tiled(madt.entries, Size(madt)) /\ info.address = DeclaredAddress /\ cpu.address = DeclaredAddress
        /\ OfKind(1) = {info.io_apic}
    BY <1>1 DEF RoutingInv, Machines, Walked, FromMadt, FromAddress, FromApic, FromIoApic, Controller, Early
  <1>3. CASE step' = "failed"
    BY <1>1, <1>3, RoutingRest DEF Controller, Early, Window
  <1>4. ASSUME step' = "io_apic", entry_addr' = 0, info' = [info EXCEPT !.route = DeclaredRoute],
               DeclaredRoute.gsi \in Nat
        PROVE  RoutingInv'
    <2>1. /\ DOMAIN info' = DOMAIN info /\ info'.address = info.address
          /\ info'.io_apic = info.io_apic /\ info'.route = DeclaredRoute
      BY <1>2, <1>4
    <2>2. /\ madt' = madt /\ madt' = FirstMadt'
          /\ Machines' /\ Searching' /\ EntryWritten' /\ PitRoutedByTable'
      BY <1>1, <1>4, <2>1, WalkKeeps DEF Early
    <2>3. /\ cpu'.address = DeclaredAddress' /\ info'.address = DeclaredAddress'
          /\ OfKind(1)' = {info'.io_apic} /\ info'.route = DeclaredRoute' /\ info'.route.gsi \in Nat
      BY <1>1, <1>2, <1>4, <2>1, DeclaredSame DEF machineVars
    <2>4. Walked'
      BY <1>2, <1>4, <2>2, <2>3 DEF Walked, FromMadt, FromAddress, FromApic, FromIoApic, FromRoute, FromChip, Walks
    <2> QED
      BY <2>2, <2>4 DEF RoutingInv
  <1>5. CASE entry_addr = End
    <2>1. step' = "io_apic" /\ info' = [info EXCEPT !.route = Route(PIT_IRQ, "High", "Edge")] /\ entry_addr' = 0
      BY <1>5 DEF isa_irq_route, Walk, Fail
    <2>2. DeclaredRoute = Route(PIT_IRQ, "High", "Edge")
      BY <1>2, <1>5, RouteAtEnd DEF End, Size
    <2>3. DeclaredRoute.gsi \in Nat
      BY <2>2 DEF Route, PIT_IRQ
    <2> QED
      BY <1>4, <2>1, <2>2, <2>3
  <1>6. CASE entry_addr # End /\ step' # "failed"
    <2>1. ~BadEntry
      BY <1>6 DEF isa_irq_route, Walk, Fail
    <2>2. PICK e : /\ e \in madt.entries /\ e = EntryAt(entry_addr) /\ e.offset = entry_addr /\ entry_addr \in Nat
                   /\ EntryFields(e) /\ Reached(madt, entry_addr + e.length)
                   /\ \A kind : Before(madt, kind, entry_addr + e.length) =
                         Before(madt, kind, entry_addr) \cup (IF e.kind = kind THEN {e} ELSE {})
      BY <1>1, <1>6, <2>1, WalkReads
    <2>3. CASE e.kind = 2 /\ e.bus = 0 /\ e.source = PIT_IRQ
      <3>1. /\ 2 \notin {e.flags % 4, (e.flags \div 4) % 4} /\ step' = "io_apic"
            /\ info' = [info EXCEPT !.route = Route(e.gsi, Polarity[e.flags % 4], Trigger[(e.flags \div 4) % 4])]
            /\ entry_addr' = 0
        BY <1>1, <1>6, <2>1, <2>2, <2>3 DEF isa_irq_route, Walk, RouteEntry, Fail
      <3>2. DeclaredRoute = Route(e.gsi, Polarity[e.flags % 4], Trigger[(e.flags \div 4) % 4])
        BY <1>2, <2>2, <2>3, <3>1, RouteAt
      <3>3. DeclaredRoute.gsi \in Nat
        BY <2>2, <2>3, <3>2 DEF Route, EntryFields
      <3> QED
        BY <1>4, <3>1, <3>2, <3>3
    <2>4. CASE ~(e.kind = 2 /\ e.bus = 0 /\ e.source = PIT_IRQ)
      <3>1. step' = step /\ entry_addr' = entry_addr + e.length /\ info' = info
        BY <1>1, <1>6, <2>1, <2>2, <2>4 DEF isa_irq_route, Walk, RouteEntry
      <3>2. /\ madt' = madt /\ madt' = FirstMadt'
            /\ Machines' /\ Searching' /\ EntryWritten' /\ PitRoutedByTable'
        BY <1>1, <3>1, WalkKeeps DEF Early
      <3>3. PICK m, n : m = madt /\ n = entry_addr
        OBVIOUS
      <3>4. \A f \in Before(m, 2, n + e.length) : ~(f.bus = 0 /\ f.source = PIT_IRQ)
        BY <1>2, <2>2, <2>4, <3>3, SMT DEF NoRouteSoFar
      <3>5. NoRouteSoFar(madt, entry_addr)' /\ Reached(madt, entry_addr)'
        BY <2>2, <3>1, <3>2, <3>3, <3>4 DEF NoRouteSoFar
      <3>6. /\ cpu'.address = DeclaredAddress' /\ info'.address = DeclaredAddress'
            /\ OfKind(1)' = {info'.io_apic}
        BY <1>1, <1>2, <3>1, DeclaredSame DEF machineVars
      <3>7. Walked'
        BY <1>1, <1>2, <3>1, <3>2, <3>5, <3>6 DEF Walked, FromMadt, FromAddress, FromApic, FromIoApic,
              FromRoute, FromChip, Walks
      <3> QED
        BY <3>2, <3>7 DEF RoutingInv
    <2> QED
      BY <2>3, <2>4
  <1> QED
    BY <1>3, <1>5, <1>6

\* From the opened chip on, only the redirection entry changes.
LEMMA ChipKnown ==
    ASSUME RoutingInv, UNCHANGED <<machineVars, table, entry_addr, info>>,
           step \in FromChip, step' \in FromChip, EntryWritten', PitRoutedByTable'
    PROVE  RoutingInv'
  <1>1. step' \notin Walks /\ step \notin Walks /\ step' \notin {"rsdp", "find_table", "local_apic"} /\ step \in Controller
    BY DEF FromChip, FromRoute, FromIoApic, FromApic, FromAddress, FromMadt, Walks
  <1>2. madt' = madt
    BY DEF madt, machineVars
  <1>3. /\ step \in FromMadt /\ step \in FromAddress /\ step \in FromApic /\ step \in FromIoApic /\ step \in FromRoute
    BY DEF FromChip, FromRoute, FromIoApic, FromApic, FromAddress
  <1>4. Walked'
    BY <1>1, <1>2, <1>3, DeclaredSame DEF RoutingInv, Walked, Walks, machineVars
  <1>5. Machines' /\ Searching'
    BY <1>1 DEF RoutingInv, Machines, Searching, machineVars
  <1> QED
    BY <1>4, <1>5 DEF RoutingInv

LEMMA IoApicStep ==
    ASSUME RoutingInv, IoApic_new
    PROVE  RoutingInv'
  <1>1. /\ step = "io_apic" /\ UNCHANGED <<machineVars, table, entry_addr, info, redirection>>
        /\ \/ step' = "failed"
           \/ step' = "mask_old" /\ chip.id = info.io_apic.id /\ HandlesGsi /\ cpu.id <= 255
    BY DEF IoApic_new, Fail
  <1>2. CASE step' = "failed"
    BY <1>1, <1>2, RoutingRest DEF Controller, Early, Window
  <1>3. CASE step' = "mask_old"
    <2>1. /\ madt = FirstMadt /\ Sound(madt) /\ entry_addr = 0
          /\ Tiled(madt.entries, Size(madt)) /\ info.address = DeclaredAddress /\ cpu.address = DeclaredAddress
          /\ OfKind(1) = {info.io_apic} /\ info.route = DeclaredRoute /\ info.route.gsi \in Nat
          /\ redirection \in FirmwareEntry /\ cpu \in LocalApics /\ chip \in IoApics
      BY <1>1 DEF RoutingInv, Machines, Walked, EntryWritten, FromMadt, FromAddress, FromApic, FromIoApic,
                  FromRoute, Walks, Controller, Early
    <2>2. cpu.id \in 0..255 /\ chip.entry_count \in Nat
      BY <1>1, <1>3, <2>1, LocalApicAssumption, IoApicAssumption, SMT
    <2>3. info.io_apic.gsi_base \in Nat
      <3>1. info.io_apic \in OfKind(1)
        BY <2>1
      <3> QED
        BY <2>1, <3>1 DEF OfKind, Sound, Readable, EntryFields
    <2>4. DeclaredRoute.gsi \in Nat
      BY <2>1
    <2>5. DeclaredRoute.gsi - info.io_apic.gsi_base \in 0..(chip.entry_count - 1)
      BY <1>1, <1>3, <2>1, <2>2, <2>3, <2>4, SMT DEF HandlesGsi, Index
    <2>6. madt' = madt
      BY <1>1 DEF madt, machineVars
    <2>7. Walked'
      BY <1>1, <1>3, <2>1, <2>2, <2>5, <2>6, DeclaredSame DEF Walked, FromMadt, FromAddress, FromApic, FromIoApic,
            FromRoute, FromChip, Walks, machineVars
    <2>8. Machines' /\ Searching'
      BY <1>1, <1>3 DEF RoutingInv, Machines, Searching, machineVars, Controller, Early
    <2>9. EntryWritten' /\ PitRoutedByTable'
      BY <1>1, <1>3, <2>1 DEF EntryWritten, PitRoutedByTable
    <2> QED
      BY <2>7, <2>8, <2>9 DEF RoutingInv
  <1> QED
    BY <1>1, <1>2, <1>3

LEMMA EntrySteps ==
    ASSUME RoutingInv, CalibrationInv,
           At("mask_old", mask_old) \/ At("write_high", write_high) \/ At("write_low", write_low) \/ At("unmask", unmask)
    PROVE  RoutingInv'
  <1> USE DEF FromChip, FromRoute, FromIoApic, FromApic, FromAddress, FromMadt, Controller, Early, Window
  <1>1. UNCHANGED <<machineVars, table, entry_addr, info>>
    BY DEF At
  <1>2. /\ step \in {"mask_old", "write_high", "write_low", "unmask"} => step \in FromChip
        /\ step' \in {"write_high", "write_low", "unmask", "start_counter"} => step' \in FromChip
    OBVIOUS
  <1>3. step \in Controller => DOMAIN redirection = {"vector", "destination", "polarity", "trigger", "masked"}
    BY DEF CalibrationInv, CalibrationTypes
  <1>4. CASE At("mask_old", mask_old)
    <2>1. step = "mask_old" /\ step' = "write_high" /\ redirection' = [redirection EXCEPT !.masked = TRUE]
      BY <1>4 DEF At, mask_old
    <2>2. redirection'.masked = TRUE
      BY <1>3, <2>1
    <2>3. EntryWritten' /\ PitRoutedByTable'
      BY <2>1, <2>2 DEF EntryWritten, PitRoutedByTable
    <2> QED
      BY <1>1, <1>2, <2>1, <2>3, ChipKnown
  <1>5. CASE At("write_high", write_high)
    <2>1. step = "write_high" /\ step' = "write_low" /\ redirection' = [redirection EXCEPT !.destination = cpu.id]
      BY <1>5 DEF At, write_high
    <2>2. redirection'.masked = TRUE /\ redirection'.destination = cpu.id
      BY <1>3, <2>1 DEF RoutingInv, EntryWritten
    <2>3. EntryWritten' /\ PitRoutedByTable'
      BY <1>1, <2>1, <2>2 DEF EntryWritten, PitRoutedByTable, machineVars
    <2> QED
      BY <1>1, <1>2, <2>1, <2>3, ChipKnown
  <1>6. CASE At("write_low", write_low)
    <2>1. /\ step = "write_low" /\ step' = "unmask"
          /\ redirection' = [vector |-> "PIT_CALIBRATION", destination |-> redirection.destination,
                              polarity |-> info.route.polarity, trigger |-> info.route.trigger, masked |-> TRUE]
      BY <1>6 DEF At, write_low
    <2>2. redirection.destination = cpu.id
      BY <2>1 DEF RoutingInv, EntryWritten
    <2>3. EntryWritten' /\ PitRoutedByTable'
      BY <1>1, <2>1, <2>2 DEF EntryWritten, PitRoutedByTable, machineVars
    <2> QED
      BY <1>1, <1>2, <2>1, <2>3, ChipKnown
  <1>7. CASE At("unmask", unmask)
    <2>1. step = "unmask" /\ step' = "start_counter" /\ redirection' = [redirection EXCEPT !.masked = FALSE]
      BY <1>7 DEF At, unmask
    <2>2. redirection = [vector |-> "PIT_CALIBRATION", destination |-> cpu.id, masked |-> TRUE,
                         polarity |-> info.route.polarity, trigger |-> info.route.trigger]
      BY <2>1 DEF RoutingInv, EntryWritten
    <2>3. /\ madt = FirstMadt /\ Tiled(madt.entries, Size(madt)) /\ cpu.address = DeclaredAddress
          /\ OfKind(1) = {info.io_apic} /\ info.route = DeclaredRoute
          /\ chip.id = info.io_apic.id /\ cpu.id \in 0..255 /\ Sound(madt)
          /\ DeclaredRoute.gsi - info.io_apic.gsi_base \in 0..(chip.entry_count - 1)
      BY <2>1 DEF RoutingInv, Walked
    <2>4. redirection' = [vector |-> "PIT_CALIBRATION", destination |-> cpu.id, masked |-> FALSE,
                          polarity |-> DeclaredRoute.polarity, trigger |-> DeclaredRoute.trigger]
      BY <2>1, <2>2, <2>3
    <2>5. Size(FirstMadt) = FirstMadt.length - 44
      BY <2>3, SMT DEF Sound, Size, SDT_HEADER, MADT_BODY
    <2>6. PitRoutedByTable'
      BY <1>1, <2>3, <2>4, <2>5, DeclaredSame, SMT DEF PitRoutedByTable, machineVars
    <2>7. EntryWritten'
      BY <2>1 DEF EntryWritten
    <2> QED
      BY <1>1, <1>2, <2>1, <2>6, <2>7, ChipKnown
  <1> QED
    BY <1>4, <1>5, <1>6, <1>7

LEMMA WindowSteps ==
    ASSUME RoutingInv, CalibrationInv,
           \/ At("start_counter", start_calibration_counter)
           \/ At("one_shot", start_pit_one_shot) \/ At("enable_interrupts", enable_interrupts)
           \/ At("poll_flag", poll_flag) \/ At("poll_count", poll_count) \/ At("timeout", timeout)
           \/ At("disable_interrupts", disable_interrupts) \/ At("mask", mask) \/ At("stop_timer", stop_timer)
    PROVE  RoutingInv'
  <1>1. /\ UNCHANGED <<machineVars, table, entry_addr, info>>
        /\ step \in Window /\ step' \in (Window \ {"start_counter"}) \cup {"calibrated", "failed"}
        /\ redirection' = redirection \/ redirection' = [redirection EXCEPT !.masked = TRUE]
    BY DEF At, start_calibration_counter, start_pit_one_shot, enable_interrupts, poll_flag, poll_count, timeout,
           disable_interrupts, mask, stop_timer, Fail, Window
  <1>2. DOMAIN redirection = {"vector", "destination", "polarity", "trigger", "masked"}
    BY <1>1 DEF CalibrationInv, CalibrationTypes, Controller
  <1>3. PitRoutedByTable'
    <2>1. CASE redirection' = redirection
      BY <1>1, <2>1, DeclaredSame, SMT DEF RoutingInv, PitRoutedByTable, machineVars
    <2>2. CASE redirection' = [redirection EXCEPT !.masked = TRUE]
      BY <1>2, <2>2 DEF PitRoutedByTable
    <2> QED
      BY <1>1, <2>1, <2>2
  <1>4. EntryWritten'
    BY <1>1 DEF EntryWritten, Early, Window
  <1>5. step \in FromChip
    BY <1>1 DEF FromChip, FromRoute, FromIoApic, FromApic, FromAddress, FromMadt, Controller, Window
  <1>6. CASE step' \in FromChip
    BY <1>1, <1>3, <1>4, <1>5, <1>6, ChipKnown
  <1>7. CASE step' = "failed"
    <2>1. Machines' /\ Searching' /\ Walked'
      BY <1>7 DEF Machines, Searching, Walked, FromMadt, FromAddress, FromApic, FromIoApic, FromRoute, FromChip,
                  Walks, Controller, Early, Window
    <2> QED
      BY <1>3, <1>4, <2>1 DEF RoutingInv
  <1> QED
    BY <1>1, <1>6, <1>7 DEF FromChip, FromRoute, FromIoApic, FromApic, FromAddress, FromMadt, Controller, Window

LEMMA RoutingStep == RoutingInv /\ CalibrationInv /\ [SystemNext]_sysVars => RoutingInv'
  <1> SUFFICES ASSUME RoutingInv, CalibrationInv, [SystemNext]_sysVars
               PROVE  RoutingInv'
    OBVIOUS
  <1>1. CASE StartUp
    BY <1>1, RoutingSearch, AddressWalk, LocalApicStep, IoApicWalk, RouteWalk, IoApicStep, EntrySteps, WindowSteps
       DEF StartUp, BootPath
  <1>2. CASE Hardware
    BY <1>2, RoutingFrame DEF Hardware, Devices, record_pit_calibration, PitRises, Tick
  <1>3. CASE Handover
    <2>1. redirection' = Nothing /\ step' = "spawn"
      BY <1>3 DEF Handover
    <2> QED
      BY <2>1 DEF RoutingInv, PitRoutedByTable, Machines, Searching, EntryWritten, Walked, FromMadt, FromAddress,
            FromApic, FromIoApic, FromRoute, FromChip, Walks, Controller, Early, Window
  <1>4. CASE step \notin Controller /\ LateInterrupt
    BY <1>4, RoutingFrame DEF LateInterrupt
  <1>5. CASE ControllerAtRest
    BY <1>5, RoutingRest DEF ControllerAtRest
  <1>6. CASE UNCHANGED <<bootVars, machine>>
    BY <1>6, RoutingFrame DEF bootVars
  <1>7. BootAlone
    BY DEF CalibrationInv
  <1> QED
    BY <1>1, <1>2, <1>3, <1>4, <1>5, <1>6, <1>7, SystemCases

\* The PIT's line is only ever open on the loader's own entry or on the complete entry
\* that the tables call for (acpi.rs, io_apic.rs), for tables with any number of entries.
THEOREM PitIsRoutedByTable == SystemSpec => []PitRoutedByTable
  <1>1. RoutingInv => PitRoutedByTable
    BY DEF RoutingInv
  <1> QED
    BY <1>1, CalibrationInit, CalibrationStep, RoutingInit, RoutingStep, PTL DEF SystemSpec
==============================================================================
