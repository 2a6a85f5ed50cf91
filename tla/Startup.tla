------------------------------ MODULE Startup -------------------------------
(***************************************************************************)
(* The start-up as a whole: the loader (Boot.tla), the interrupt table     *)
(* (Idt.tla), the test of line 20 and the page tables (Head.tla), and the  *)
(* calls of init/main.c, one after the other on one machine.               *)
(***************************************************************************)
EXTENDS Boot, Idt, Head

CONSTANT SectorWords   \* words of a sector of memory, 128

\* The image has the page tables and the code behind them.
ASSUME SectorLayout ==
    /\ SectorWords \in Nat \ {0}
    /\ \A n \in SystemSectors : (Tables + 1) * Entries + LateWords <= n * SectorWords

VARIABLES memory_end,  \* by the bytes of EXT_MEM_K it is computed from
          screen       \* video_num_columns and video_num_lines

mainVars == <<memory_end, screen>>
vars == <<machine, bootVars, idtVars, headVars, mainVars>>

Init ==
    /\ BootInit
    /\ IdtInit
    /\ low = [w \in Words |-> Other]
    /\ high = Other
    /\ ecx = 0 /\ edi = 0 /\ stack = <<>>
    /\ paging = FALSE
    /\ memory_end = <<>>
    /\ screen = [columns |-> "none", lines |-> "none"]

\* The kernel as _start finds it: the words of the sectors that the loader has
\* moved to address 0, and anything at 0x100000.
Loaded(w) ==
    LET n == w \div SectorWords IN
    IF mem[n] = <<"system", n>> THEN ImageWord(w) ELSE Other

EnterHead ==
    /\ EnterProtected
    /\ low' = [w \in Words |-> Loaded(w)]
    /\ high' \in {Zero, Code}
    /\ UNCHANGED <<ecx, edi, paging, stack, idtVars, mainVars>>

Load  == Loader /\ UNCHANGED <<idtVars, headVars, mainVars>>
Wait  == Poll /\ UNCHANGED <<idtVars, headVars, mainVars>>
Drive == DriveReady /\ UNCHANGED <<idtVars, headVars, mainVars>>
Line  == A20Enabled /\ UNCHANGED <<bootVars, idtVars, mainVars>>

\* A byte of the sector at 0x90000.
At90000(offset) ==
    IF mem[INITSEG] = <<"parameters", 0>> THEN Parameters[offset] ELSE "other"

\* The words at offsets 2, 6 (upper half) and 14 (lower half).
EXT_MEM_K        == <<At90000(2), At90000(3)>>
ORIG_VIDEO_COLS  == At90000(7)
ORIG_VIDEO_LINES == At90000(14)

\* The first statements of main.
Sizing == pc = "main" /\ memory_end = <<>>

SizeMemory ==
    /\ Sizing
    /\ memory_end' = EXT_MEM_K
    /\ UNCHANGED <<machine, bootVars, idtVars, headVars, screen>>

\* main with the call of trap_init commented out, as it is; CallTrapInit is main
\* with it.
SkipTrapInit ==
    /\ pc = "main" /\ ~Sizing
    /\ pc' = "tty_init"
    /\ UNCHANGED <<bootVars, idtVars, headVars, cpu, mainVars>>

\* con_init takes the size of the screen from setup, and ends in set_origin and
\* set_cursor, and these with sti; printk and the endless loop follow.
TtyInit ==
    /\ pc = "tty_init"
    /\ screen' = [columns |-> ORIG_VIDEO_COLS, lines |-> ORIG_VIDEO_LINES]
    /\ intFlag' = TRUE
    /\ pc' = "idle"
    /\ UNCHANGED <<bootVars, idtVars, headVars, eax, df, a20, gdtr, idtr, masked,
                   memory_end>>

Kernel == \/ EnterHead
          \/ ~Sizing /\ Gates /\ UNCHANGED <<bootVars, headVars, mainVars>>
          \/ Pages /\ UNCHANGED <<bootVars, idtVars, mainVars>>
          \/ SizeMemory
          \/ SkipTrapInit
          \/ TtyInit

Next == Load \/ Wait \/ Kernel \/ Drive \/ Line

\* The CPU goes on, the drive answers a command at some time, and line 20 opens
\* at some time after it was asked for.
Spec == Init /\ [][Next]_vars /\ WF_vars(Load) /\ WF_vars(Kernel) /\ WF_vars(Drive) /\ WF_vars(Line)

-----------------------------------------------------------------------------
\* Types of the variables; no store misses the memory meant for it.
TypeOK ==
    /\ MachineTypeOK /\ BootTypeOK /\ IdtTypeOK /\ HeadTypeOK
    /\ Len(memory_end) \in {0, 2}
    /\ DOMAIN screen = {"columns", "lines"}

\* An interrupt that may come finds a handler: the BIOS's while its vectors are
\* still at address 0, and then none until the kernel's own table is loaded,
\* although setup moves the kernel over the vectors and con_init turns
\* interrupts on before anybody has called trap_init (cli and the masks of
\* setup.asm, sti in set_origin, the masks in trap_init).
InterruptsHandled ==
    intFlag => CASE idtr = "bios"  -> mem[0] = <<"bios", 0>>
                 [] idtr = "empty" -> FALSE
                 [] idtr = "idt"   -> \A v \in (32..47) \ (masked \cup {34}) : Leads(v, Gate(v))

\* main sizes the memory by what the BIOS has told setup, and con_init the screen
\* by its width and 25 lines: of the two programs' bytes at 0x90000 each means the
\* same to both, and nothing has been moved over them (setup.asm, main.c,
\* console.c).
ParametersRead ==
    pc = "idle" => /\ memory_end = <<"memory_low", "memory_high">>
                   /\ screen = [columns |-> "width", lines |-> "25"]

\* From the boot sector the machine gets to the loop of main, if the drive
\* answers and line 20 opens.
Boots == <>(pc = "idle")
=============================================================================
