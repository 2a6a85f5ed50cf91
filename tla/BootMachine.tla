---------------------------- MODULE BootMachine -----------------------------
(***************************************************************************)
(* What the parts of the start-up share: the control point, the registers  *)
(* and the chips that one part sets and a later one relies on.             *)
(***************************************************************************)
EXTENDS Integers

VARIABLE pc  \* the part that is executed

\* The general register that is passed on, EFLAGS.DF (string instructions go
\* downwards) and EFLAGS.IF.
VARIABLES eax, df, intFlag

\* Address line 20: "off", "asked" for, or "on"; the lines masked in the 8259As,
\* by the vectors of setup.
VARIABLES a20, masked

\* Whose descriptors are loaded: the BIOS's, setup's, head's; and the BIOS's
\* vectors, setup's empty table, or head's.
VARIABLES gdtr, idtr

cpu     == <<eax, df, intFlag, a20, gdtr, idtr, masked>>
machine == <<pc, cpu>>

\* The BIOS jumps to the boot sector with interrupts on, every line open, its own
\* tables, and line 20 as the board has it.
BiosLeaves ==
    /\ pc = "boot"
    /\ eax = 0 /\ df = FALSE
    /\ intFlag = TRUE /\ masked = {}
    /\ gdtr = "bios" /\ idtr = "bios"
    /\ a20 \in {"off", "on"}

MachineTypeOK ==
    /\ df \in BOOLEAN /\ intFlag \in BOOLEAN
    /\ a20 \in {"off", "asked", "on"}
    /\ gdtr \in {"bios", "setup", "head"} /\ idtr \in {"bios", "empty", "idt"}
    /\ masked \subseteq 32..47
=============================================================================
