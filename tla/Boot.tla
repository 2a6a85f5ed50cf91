-------------------------------- MODULE Boot --------------------------------
(***************************************************************************)
(* From the disk image to the first instruction of the kernel:             *)
(* tools/makeimg.cpp and writeimg.c build the image, boot/bootSect.asm     *)
(* moves itself and reads setup and the kernel, boot/setup.asm saves what  *)
(* the BIOS knows and moves the kernel to address 0.                       *)
(*                                                                         *)
(* Memory and disk are divided in sectors of 512 bytes.  What a sector     *)
(* holds is a pair <<file, n>>, the n-th sector of a file; instructions    *)
(* that move a sector are one step.                                        *)
(***************************************************************************)
EXTENDS Integers, Sequences, BootMachine

CONSTANTS SegSectors,       \* sectors in 64 KB, 128
          BOOTSEG,          \* 0x7c00
          MemSectors,       \* 640 KB
          SYS_SIZE_SECTOR,  \* 80
          SYS_POSITION,     \* 5
          SetupSectors,     \* length of boot/setup
          SystemSectors,    \* the lengths of tools/system that are built
          Delay             \* bound on the polls of the disk until it is ready

INITSEG  == 9 * SegSectors

\* (Slip: setup is read over the running boot sector.)
SETUPSEGSame == INITSEG

SETUPSEG == INITSEG + 1
SYSSEG   == SegSectors

\* The image has room for setup before the kernel, the kernel as it is built
\* fits into the sectors that are read, the BIOS reads the boot sector above its
\* vectors, and boot sector and setup fit into the segment at 0x90000.
ASSUME BootLayout ==
    /\ {SegSectors, MemSectors, SYS_SIZE_SECTOR, SYS_POSITION, SetupSectors} \subseteq Nat \ {0}
    /\ BOOTSEG \in 1..(SYSSEG - 1)
    /\ SYS_SIZE_SECTOR <= SegSectors
    /\ MemSectors >= 10 * SegSectors
    /\ SetupSectors < SYS_POSITION /\ SetupSectors + 1 < SegSectors
    /\ SystemSectors \subseteq 1..SYS_SIZE_SECTOR
    /\ Delay \in Nat

VARIABLES size,   \* length of the kernel in this image
          mem,    \* conventional memory
          lba,    \* EAX: the sector to read
          to,     \* DS:EBX or ES:DI, the sector written next
          cx,     \* sectors left in the loop
          disk,   \* the drive's status: idle, busy or ready
          polls   \* polls since the last command

bootVars == <<size, mem, lba, to, cx, disk, polls>>

\* makeimg creates a.img with the two loaders; the blank sectors behind them are
\* copied from memory of which only a pointer's length is cleared.
makeimg(n) ==
    IF n = 0 THEN <<"bootSect", 0>>
    ELSE IF n <= SetupSectors THEN <<"setup", n - 1>>
    ELSE <<"blank", 0>>

\* (Slip: the kernel is written one sector early.)
ImageEarly(n) == IF n > SetupSectors THEN <<"system", n - SYS_POSITION + 1>> ELSE makeimg(n)

\* writeimg writes both loaders again and the kernel from sector SYS_POSITION; an
\* earlier kernel may be left behind it, which nobody tells from blank sectors.
Image(n) == IF n \in SYS_POSITION..(SYS_POSITION + size - 1)
            THEN <<"system", n - SYS_POSITION>> ELSE makeimg(n)

\* The BIOS has read the first sector; its vectors are at address 0.
BootInit ==
    /\ BiosLeaves
    /\ size \in SystemSectors
    /\ mem = [a \in 0..(MemSectors - 1) |->
                 IF a = BOOTSEG THEN <<"bootSect", 0>> ELSE <<"bios", 0>>]
    /\ lba = 0 /\ to = 0 /\ cx = 0
    /\ disk = "idle"
    /\ polls = 0

\* rep movsb to 0x9000:0, and jmp INITSEG:go.
MoveBoot ==
    /\ pc = "boot"
    /\ mem' = [mem EXCEPT ![INITSEG] = mem[BOOTSEG]]
    /\ pc' = "go"
    /\ UNCHANGED <<size, lba, to, cx, disk, polls, cpu>>

\* The operands of the first call of read_hard_disk_0.
GoReadSetup ==
    /\ pc = "go"
    /\ pc' = "read_setup"
    /\ lba' = 1 /\ to' = SETUPSEG /\ cx' = 1
    /\ UNCHANGED <<size, mem, disk, polls, cpu>>

GoReadSystem ==
    /\ pc = "read_setup"
    /\ cx = 0
    /\ pc' = "read_system"
    /\ lba' = SYS_POSITION /\ to' = SYSSEG /\ cx' = SYS_SIZE_SECTOR
    /\ UNCHANGED <<size, mem, disk, polls, cpu>>

Reading == pc \in {"read_setup", "read_system"}

\* read_hard_disk_0 up to the read command.
Command ==
    /\ Reading
    /\ cx > 0
    /\ disk = "idle"
    /\ disk' = "busy"
    /\ polls' = 0
    /\ UNCHANGED <<size, mem, pc, lba, to, cx, cpu>>

\* .waits finds the drive busy.
Poll ==
    /\ Reading
    /\ disk = "busy"
    /\ polls < Delay
    /\ polls' = polls + 1
    /\ UNCHANGED <<size, mem, pc, lba, to, cx, disk, cpu>>

DriveReady ==
    /\ disk = "busy"
    /\ disk' = "ready"
    /\ UNCHANGED <<size, mem, pc, lba, to, cx, polls, cpu>>

\* .readw, and the loop that calls: inc eax, loop readcore.
Transfer ==
    /\ Reading
    /\ disk = "ready"
    /\ disk' = "idle"
    /\ mem' = [mem EXCEPT ![to] = Image(lba)]
    /\ to' = to + 1 /\ lba' = lba + 1 /\ cx' = cx - 1
    /\ UNCHANGED <<size, pc, polls, cpu>>

\* (Slip: AX still holds the BIOS's answer when offset 14 is written.)
SetupStoresLines ==
    <<<<2, "memory_low", "memory_high">>, <<8, "ega", "ega">>, <<10, "ega", "ega">>,
      <<12, "ega", "ega">>, <<14, "ega", "ega">>, <<0, "column", "row">>,
      <<4, "bl", "page">>, <<6, "mode", "width">>>>

\* setup's stores to the sector at INITSEG in their order: offset, low and high
\* byte.  What the BIOS answers goes by name; offset 14 gets 0x5019, the choice
\* of 80 columns and 25 lines that is left of the search for a video card.
SetupStores ==
    <<<<2, "memory_low", "memory_high">>, <<8, "ega", "ega">>, <<10, "ega", "ega">>,
      <<12, "ega", "ega">>, <<14, "25", "80">>, <<0, "column", "row">>,
      <<4, "bl", "page">>, <<6, "mode", "width">>>>

\* The store that a byte at 0x90000 is from: the last one to its offset.
StoresTo(offset) == {i \in DOMAIN SetupStores : offset - SetupStores[i][1] \in {0, 1}}
LastStore(offset) ==
    SetupStores[CHOOSE i \in StoresTo(offset) : \A j \in StoresTo(offset) : j <= i]

Parameters ==
    [offset \in 0..15 |->
        IF StoresTo(offset) = {} THEN "bootSect"
        ELSE LastStore(offset)[2 + (offset - LastStore(offset)[1])]]

\* (Slip: cli is left out.)
SaveParametersOpen ==
    /\ pc = "read_system"
    /\ cx = 0
    /\ mem' = [mem EXCEPT ![INITSEG] = <<"parameters", 0>>]
    /\ df' = FALSE
    /\ pc' = "do_move"
    /\ to' = 0
    /\ UNCHANGED <<size, lba, cx, disk, polls, eax, intFlag, a20, gdtr, idtr, masked>>

\* jmp SETUPSEG:0; the BIOS's answers are stored at 0x90000; cli and cld.
SaveParameters ==
    /\ pc = "read_system"
    /\ cx = 0
    /\ mem' = [mem EXCEPT ![INITSEG] = <<"parameters", 0>>]
    /\ intFlag' = FALSE
    /\ df' = FALSE
    /\ pc' = "do_move"
    /\ to' = 0
    /\ UNCHANGED <<size, lba, cx, disk, polls, eax, a20, gdtr, idtr, masked>>

\* (Slip: DI is not advanced.)
MoveSame ==
    /\ pc = "do_move"
    /\ to + SegSectors < INITSEG
    /\ mem' = [mem EXCEPT ![to] = mem[to + SegSectors]]
    /\ UNCHANGED <<size, pc, to, lba, cx, disk, polls, cpu>>

\* rep movsw, a segment after the other until DS is 0x9000.
Move ==
    /\ pc = "do_move"
    /\ to + SegSectors < INITSEG
    /\ mem' = [mem EXCEPT ![to] = mem[to + SegSectors]]
    /\ to' = to + 1
    /\ UNCHANGED <<size, pc, lba, cx, disk, polls, cpu>>

\* lgdt and lidt; the 8259As get their vectors, and all their lines are masked.
LoadTables ==
    /\ pc = "do_move"
    /\ to + SegSectors >= INITSEG
    /\ gdtr' = "setup" /\ idtr' = "empty"
    /\ masked' = 32..47
    /\ pc' = "end_move"
    /\ UNCHANGED <<bootVars, eax, df, intFlag, a20>>

\* Port 0x92 asks for line 20, and lmsw and the far jump enter the kernel.
EnterProtected ==
    /\ pc = "end_move"
    /\ a20' = IF a20 = "off" THEN "asked" ELSE a20
    /\ pc' = "head"
    /\ UNCHANGED <<bootVars, eax, df, intFlag, gdtr, idtr, masked>>

Loader == \/ MoveBoot \/ GoReadSetup \/ GoReadSystem \/ Command \/ Transfer
          \/ SaveParameters \/ Move \/ LoadTables

-----------------------------------------------------------------------------
Content == {<<"bootSect", 0>>, <<"bios", 0>>, <<"blank", 0>>, <<"parameters", 0>>}
           \cup {<<"setup", n>> : n \in 0..(SetupSectors - 1)}
           \cup {<<"system", n>> : n \in 0..(size - 1)}

\* No store of the loader misses conventional memory.
BootTypeOK ==
    /\ DOMAIN mem = 0..(MemSectors - 1)
    /\ \A a \in DOMAIN mem : mem[a] \in Content
    /\ to \in 0..(MemSectors - 1)
    /\ lba \in Nat /\ cx \in 0..SYS_SIZE_SECTOR
    /\ disk \in {"idle", "busy", "ready"}

\* The sector with the instructions that pc stands for.
Executing ==
    CASE pc = "boot" -> <<BOOTSEG, <<"bootSect", 0>>>>
      [] pc \in {"go", "read_setup", "read_system"} -> <<INITSEG, <<"bootSect", 0>>>>
      [] pc \in {"do_move", "end_move"} -> <<SETUPSEG, <<"setup", 0>>>>
      [] OTHER -> <<0, <<"system", 0>>>>

\* The loader never overwrites itself: the bytes that are executed are those
\* that were written for it, whatever has been moved over the rest of memory
\* (the kernel's move starts above the boot sector and covers it, and ends
\* below setup, which executes it).
LoaderIntact == mem[Executing[1]] = Executing[2]

\* The kernel starts with every one of its sectors in its place, with the
\* parameters where main and con_init read them, and with setup's descriptors
\* where the GDTR points.
KernelLoaded ==
    pc = "head" => /\ \A n \in 0..(size - 1) : mem[n] = <<"system", n>>
                   /\ mem[INITSEG] = <<"parameters", 0>>
                   /\ gdtr = "setup" /\ mem[SETUPSEG] = <<"setup", 0>>
=============================================================================
