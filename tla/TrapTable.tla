----------------------------- MODULE TrapTable ------------------------------
(***************************************************************************)
(* Which handler each vector has when setup_idt of boot/head.asm and       *)
(* trap_init of kernel/traps.c have run.                                   *)
(***************************************************************************)
EXTENDS Naturals

\* Vector 14 and those from 48 keep the gate of setup_idt.
Gate(v) ==
    LET named == <<"divide_error", "debug", "nmi", "int3", "overflow", "bounds",
                   "invalid_op", "device_not_available", "double_fault",
                   "coprocessor_segment_overrun", "invalid_TSS",
                   "segment_not_present", "stack_segment", "general_protection",
                   "ignore_int", "reserved", "coprocessor_error", "alignment_check">>
    IN  IF v = 45 THEN "irq13"
        ELSE IF v = 39 THEN "parallel_interrupt"
        ELSE IF v < 18 THEN named[v + 1]
        ELSE IF v < 48 THEN "reserved"
        ELSE "ignore_int"

\* set_trap_gate and set_system_gate keep IF; setup_idt's gates clear it.
TrapGate(v) == Gate(v) # "ignore_int"
=============================================================================
