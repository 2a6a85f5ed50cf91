---------------------------- MODULE StartupProofs ----------------------------
(***************************************************************************)
(* Theorems about Startup.tla, for every memory map, every length of the   *)
(* kernel and of the delays, every size of a table and every place of the  *)
(* handlers.                                                               *)
(*                                                                         *)
(* The inductive invariant says of every phase of the start-up what has    *)
(* been done so far and is still needed.  It has a part for each owner of  *)
(* state: the sectors the loader moves, the chips, the interrupt table,    *)
(* the words of the page tables, and what main has read.                   *)
(***************************************************************************)
EXTENDS Startup, ArithmeticLemmas, SequenceTheorems

LoaderPcs == {"boot", "go", "read_setup", "read_system", "do_move", "end_move"}
PagePcs   == {"after_page_tables", "clear", "directory", "fill", "paging"}
HeadPcs   == {"head", "setup_idt", "test_a20"} \cup PagePcs
MainPcs   == {"main", "load", "trap_init", "tty_init", "idle"}
KernelPcs == HeadPcs \cup MainPcs

-----------------------------------------------------------------------------
(***************************************************************************)
(* The sectors.                                                            *)
(***************************************************************************)
BootSector   == <<"bootSect", 0>>
Vectors      == <<"bios", 0>>
SetupSector  == <<"setup", 0>>
ParamSector  == <<"parameters", 0>>
System(n)    == <<"system", n>>

LoaderTypeOK ==
    /\ size \in SystemSectors
    /\ mem \in [0..(MemSectors - 1) -> Content]
    /\ to \in 0..(MemSectors - 1) /\ lba \in Nat /\ cx \in 0..SYS_SIZE_SECTOR
    /\ disk \in {"idle", "busy", "ready"}
    /\ pc \in LoaderPcs \cup KernelPcs

\* Where the code is that executes, and the vectors as long as they are needed.
CodeInPlace ==
    /\ pc = "boot" => mem[BOOTSEG] = BootSector
    /\ pc \in {"boot", "go", "read_setup", "read_system"} => mem[0] = Vectors
    /\ pc \in {"go", "read_setup", "read_system"} => mem[INITSEG] = BootSector
    /\ pc \in {"read_system", "do_move", "end_move"} \cup KernelPcs =>
          mem[SETUPSEG] = SetupSector
    /\ pc \in {"do_move", "end_move"} \cup KernelPcs => mem[INITSEG] = ParamSector

\* A command is only under way while there are sectors to read.
DiskInUse == disk # "idle" => Reading /\ cx > 0

\* Where a loop of the loader stands, and what it has done.
LoopsAgree ==
    /\ pc = "read_setup" =>
          /\ cx \in 0..1
          /\ to = SETUPSEG + 1 - cx /\ lba = 2 - cx
          /\ cx = 0 => mem[SETUPSEG] = SetupSector
    /\ pc = "read_system" =>
          /\ to = SYSSEG + (SYS_SIZE_SECTOR - cx)
          /\ lba = SYS_POSITION + (SYS_SIZE_SECTOR - cx)
          /\ \A n \in 0..(size - 1) : n < SYS_SIZE_SECTOR - cx => mem[SYSSEG + n] = System(n)
    /\ pc = "do_move" =>
          /\ to <= 8 * SegSectors
          /\ \A n \in 0..(size - 1) :
                /\ n < to => mem[n] = System(n)
                /\ n >= to => mem[SYSSEG + n] = System(n)
    /\ pc \in {"end_move"} \cup KernelPcs =>
          \A n \in 0..(size - 1) : mem[n] = System(n)

LoaderInv == LoaderTypeOK /\ CodeInPlace /\ DiskInUse /\ LoopsAgree

-----------------------------------------------------------------------------
(***************************************************************************)
(* The interrupt table.                                                    *)
(***************************************************************************)
Gates256 == 0..(NrGates - 1)

\* The gates that setup_idt and a call of trap_init make.
Dummy      == [eax |-> KernelCode * Half + Address["ignore_int"], edx |-> 142 * HalfType]
GateOf(c)  == [eax |-> KernelCode * Half + Address[c.handler],
               edx |-> (143 + 32 * c.dpl) * HalfType]

LastFor(i, n) == \A j \in (i + 1)..n : TrapCalls[j].v # TrapCalls[i].v

\* The gate of vector v after n calls: that of the last call for v.
Filled(v, n) ==
    /\ (\A i \in 1..n : TrapCalls[i].v # v) => idt[v] = Dummy
    /\ \A i \in 1..n : TrapCalls[i].v = v /\ LastFor(i, n) => idt[v] = GateOf(TrapCalls[i])

\* Either long of a gate is one of those that vector v may have, also when the
\* other one is older.
Allowed(v) ==
    /\ idt[v].edx \in {142 * HalfType, 143 * HalfType, 239 * HalfType}
    /\ \/ idt[v].eax = Dummy.eax
       \/ \E i \in DOMAIN TrapCalls :
             TrapCalls[i].v = v /\ idt[v].eax = GateOf(TrapCalls[i]).eax

DummiesUpTo ==
    /\ eax = Dummy.eax /\ edx = Dummy.edx
    /\ \A v \in Gates256 : v < k => idt[v] = Dummy
    /\ halfDone => k < NrGates /\ idt[k].eax = Dummy.eax

CallInProgress ==
    /\ k < Len(TrapCalls)
    /\ eax = GateOf(TrapCalls[k + 1]).eax /\ edx = GateOf(TrapCalls[k + 1]).edx
    /\ \A v \in Gates256 : (halfDone /\ v = TrapCalls[k + 1].v) \/ Filled(v, k)
    /\ halfDone => idt[TrapCalls[k + 1].v].eax = eax

TableInv ==
    /\ idt \in [Gates256 -> [eax : Int, edx : Int]]
    /\ halfDone \in BOOLEAN /\ k \in 0..NrGates /\ eax \in Int
    /\ halfDone => pc \in {"setup_idt", "trap_init"}
    /\ pc \in LoaderPcs \cup {"head"} => k = 0
    /\ pc = "setup_idt" => DummiesUpTo
    /\ pc \in {"test_a20", "main"} \cup PagePcs =>
          k = NrGates /\ \A v \in Gates256 : idt[v] = Dummy
    /\ pc \notin LoaderPcs \cup {"head", "setup_idt"} => \A v \in Gates256 : Allowed(v)
    /\ pc = "load" => k <= Len(TrapCalls) /\ \A v \in Gates256 : Filled(v, k)
    /\ pc = "trap_init" => CallInProgress
    /\ pc \in {"tty_init", "idle"} =>
          k = NrGates \/ (k = Len(TrapCalls) /\ \A v \in Gates256 : Filled(v, k))

-----------------------------------------------------------------------------
(***************************************************************************)
(* The chips.                                                              *)
(***************************************************************************)
Lines8259 == 32..47

ChipInv ==
    /\ df \in BOOLEAN
    /\ intFlag = (pc \in {"boot", "go", "read_setup", "read_system", "idle"})
    /\ idtr = IF pc \in LoaderPcs \ {"end_move"} THEN "bios"
              ELSE IF pc \in {"end_move", "head", "setup_idt"} THEN "empty" ELSE "idt"
    /\ gdtr = IF pc \in LoaderPcs \ {"end_move"} THEN "bios"
              ELSE IF pc \in {"end_move", "head"} THEN "setup" ELSE "head"
    /\ a20 \in {"off", "asked", "on"}
    /\ pc \in PagePcs \cup MainPcs => a20 = "on"
    /\ masked \subseteq Lines8259
    /\ pc \in {"end_move"} \cup HeadPcs \cup MainPcs => Lines8259 \ {34, 45} \subseteq masked
    /\ pc \in {"end_move", "main"} \cup HeadPcs => 45 \in masked
    /\ pc \in {"load", "trap_init"} /\ k < BeforeUnmask => 45 \in masked
    /\ pc \in {"tty_init", "idle"} /\ k # Len(TrapCalls) => 45 \in masked

-----------------------------------------------------------------------------
(***************************************************************************)
(* The words of the directory, the tables and the code behind them.        *)
(***************************************************************************)
WordValues == {"code", "number", "page", "other"} \X Nat

\* The word w when the entries of the pages above n have been filled.
FilledWord(w, n) ==
    IF w < Tables THEN Page(w + 1)
    ELSE IF w < Entries THEN Zero
    ELSE IF w >= pg(Tables) THEN Code
    ELSE IF w - Entries > n THEN Page(w - Entries) ELSE Zero

WordsInv ==
    /\ low \in [Words -> WordValues]
    /\ paging = (pc \in MainPcs)
    /\ ecx \in 0..((Tables + 1) * Entries)
    /\ pc = "clear" => ecx = (Tables + 1) * Entries
    /\ pc \in {"head", "setup_idt"} => \A w \in Words : low[w] = ImageWord(w)
    /\ pc \in {"test_a20", "after_page_tables", "clear"} =>
          \A w \in Words \ {0} : low[w] = ImageWord(w)
    /\ pc = "directory" => \A w \in Words : low[w] = IF w < pg(Tables) THEN Zero ELSE Code
    /\ pc = "fill" =>
          /\ df
          /\ eax \in 0..(Tables * Entries - 1) /\ edi = Entries + eax
          /\ \A w \in Words : low[w] = FilledWord(w, eax)
    /\ pc \in {"clear", "directory", "fill", "paging"} => stack = <<"main", "L6", 0, 0, 0>>
    /\ pc \in {"paging"} \cup MainPcs => \A w \in Words : low[w] = FilledWord(w, -1)

-----------------------------------------------------------------------------
(***************************************************************************)
(* What main and con_init have read.                                       *)
(***************************************************************************)
MemoryRead == <<"memory_low", "memory_high">>
ScreenRead == [columns |-> "width", lines |-> "25"]

MainInv ==
    /\ memory_end \in {<<>>, MemoryRead}
    /\ pc \in MainPcs \ {"main"} => memory_end = MemoryRead
    /\ pc \notin MainPcs => memory_end = <<>>
    /\ DOMAIN screen = {"columns", "lines"}
    /\ pc = "idle" => screen = ScreenRead

IInv == LoaderInv /\ TableInv /\ ChipInv /\ WordsInv /\ MainInv
-----------------------------------------------------------------------------
(***************************************************************************)
(* The loader.                                                             *)
(***************************************************************************)
\* The memory map: 0x7c00 below 64 KB, the kernel's buffer above it, and the
\* boot sector and setup above the buffer.
LEMMA MemoryMap ==
    /\ SegSectors \in Nat /\ SegSectors > 2
    /\ SYSSEG = SegSectors /\ INITSEG = 9 * SegSectors /\ SETUPSEG = INITSEG + 1
    /\ BOOTSEG \in Nat /\ 0 < BOOTSEG /\ BOOTSEG < SegSectors
    /\ MemSectors \in Nat /\ SETUPSEG + 1 < MemSectors
    /\ SYS_SIZE_SECTOR \in Nat \ {0} /\ SYS_SIZE_SECTOR <= SegSectors
    /\ SYS_POSITION \in Nat /\ SYS_POSITION > SetupSectors
    /\ SetupSectors \in Nat \ {0}
    /\ SystemSectors \subseteq 1..SYS_SIZE_SECTOR
  <1>1. /\ SegSectors \in Nat /\ MemSectors \in Nat /\ SYS_SIZE_SECTOR \in Nat \ {0}
        /\ SYS_POSITION \in Nat /\ SetupSectors \in Nat \ {0}
    BY BootLayout
  <1>2. /\ SYSSEG = SegSectors /\ INITSEG = 9 * SegSectors /\ SETUPSEG = INITSEG + 1
    BY DEF SYSSEG, INITSEG, SETUPSEG
  <1>3. /\ SetupSectors < SYS_POSITION /\ SetupSectors + 1 < SegSectors
        /\ BOOTSEG \in 1..(SYSSEG - 1)
        /\ SYS_SIZE_SECTOR <= SegSectors /\ MemSectors >= 10 * SegSectors
        /\ SystemSectors \subseteq 1..SYS_SIZE_SECTOR
    BY BootLayout
  <1> QED
    BY <1>1, <1>2, <1>3

\* What is read from the disk.
LEMMA ImageIs ==
    ASSUME size \in SystemSectors, NEW n \in Nat \ {0}
    PROVE  /\ Image(n) \in Content
           /\ n = 1 => Image(n) = SetupSector
           /\ \A d \in 0..(size - 1) : n = SYS_POSITION + d => Image(n) = System(d)
  <1>1. size \in Nat \ {0}
    BY MemoryMap
  <1>2. CASE n \in SYS_POSITION..(SYS_POSITION + size - 1)
    <2>1. Image(n) = <<"system", n - SYS_POSITION>> /\ n - SYS_POSITION \in 0..(size - 1)
      BY <1>1, <1>2, MemoryMap DEF Image
    <2>2. n # 1
      BY <1>2, MemoryMap
    <2> QED
      BY <1>1, <2>1, <2>2, MemoryMap DEF Content, System
  <1>3. CASE n \notin SYS_POSITION..(SYS_POSITION + size - 1)
    <2>1. Image(n) = makeimg(n)
      BY <1>3 DEF Image
    <2>2. CASE n <= SetupSectors
      <3>1. Image(n) = <<"setup", n - 1>> /\ n - 1 \in 0..(SetupSectors - 1)
        BY <2>1, <2>2, MemoryMap DEF makeimg
      <3> QED
        BY <1>1, <1>3, <3>1, MemoryMap DEF Content, SetupSector
    <2>3. CASE ~(n <= SetupSectors)
      <3>1. Image(n) = <<"blank", 0>> /\ n # 1
        BY <2>1, <2>3, MemoryMap DEF makeimg
      <3> QED
        BY <1>1, <1>3, <3>1, MemoryMap DEF Content
    <2> QED
      BY <2>2, <2>3
  <1> QED
    BY <1>2, <1>3

\* Storing a sector at a place of memory.
LEMMA SectorStore ==
    ASSUME mem \in [0..(MemSectors - 1) -> Content], NEW s \in Content,
           NEW a \in 0..(MemSectors - 1), mem' = [mem EXCEPT ![a] = s], size' = size
    PROVE  /\ mem' \in [0..(MemSectors - 1) -> Content']
           /\ mem'[a] = s
           /\ \A b \in 0..(MemSectors - 1) : b # a => mem'[b] = mem[b]
  <1>1. Content' = Content
    BY DEF Content
  <1> QED
    BY <1>1

\* What a step of a part that does not touch the loader's state keeps of it.
LEMMA LoaderKept ==
    ASSUME LoaderInv, UNCHANGED bootVars,
           \/ pc' = pc
           \/ pc \in KernelPcs \cup {"end_move"} /\ pc' \in KernelPcs \cup {"end_move"}
    PROVE  LoaderInv'
  <1>1. /\ size' = size /\ mem' = mem /\ lba' = lba /\ to' = to /\ cx' = cx
        /\ disk' = disk /\ polls' = polls
    BY DEF bootVars
  <1>2. LoaderTypeOK'
    BY <1>1 DEF LoaderInv, LoaderTypeOK, LoaderPcs, Content
  <1>3. CASE pc' = pc
    BY <1>1, <1>2, <1>3 DEF LoaderInv, CodeInPlace, DiskInUse, LoopsAgree, Reading
  <1>4. CASE pc \in KernelPcs \cup {"end_move"} /\ pc' \in KernelPcs \cup {"end_move"}
    <2>1. \A p \in KernelPcs \cup {"end_move"} :
             p \notin {"boot", "go", "read_setup", "read_system", "do_move"}
      BY DEF KernelPcs, HeadPcs, MainPcs, PagePcs
    <2>2. CodeInPlace'
      BY <1>1, <1>4, <2>1 DEF LoaderInv, CodeInPlace
    <2>3. DiskInUse'
      BY <1>1, <1>4, <2>1 DEF LoaderInv, DiskInUse, Reading
    <2>4. LoopsAgree'
      BY <1>1, <1>4, <2>1 DEF LoaderInv, LoopsAgree
    <2> QED
      BY <1>2, <2>2, <2>3, <2>4 DEF LoaderInv
  <1> QED
    BY <1>3, <1>4

\* Which phase is none of the kernel's.
LEMMA LoaderPhases == LoaderPcs \cap KernelPcs = {}
  BY DEF LoaderPcs, KernelPcs, HeadPcs, MainPcs, PagePcs

LEMMA MoveBootKeeps == LoaderInv /\ MoveBoot => LoaderInv'
  <1> SUFFICES ASSUME LoaderInv, MoveBoot PROVE LoaderInv'
    OBVIOUS
  <1>1. /\ pc = "boot" /\ pc' = "go" /\ size' = size /\ lba' = lba /\ to' = to
        /\ cx' = cx /\ disk' = disk
        /\ mem' = [mem EXCEPT ![INITSEG] = mem[BOOTSEG]]
        /\ mem[BOOTSEG] = BootSector /\ mem[0] = Vectors /\ disk = "idle"
        /\ LoaderTypeOK
    BY DEF MoveBoot, LoaderInv, CodeInPlace, DiskInUse, Reading
  <1>2. BootSector \in Content /\ INITSEG \in 0..(MemSectors - 1) /\ INITSEG # 0
        /\ 0 \in 0..(MemSectors - 1)
    BY MemoryMap DEF Content, BootSector
  <1>3. /\ mem' \in [0..(MemSectors - 1) -> Content']
        /\ mem'[INITSEG] = BootSector /\ mem'[0] = Vectors
    BY <1>1, <1>2, SectorStore DEF LoaderTypeOK
  <1>4. LoaderTypeOK'
    BY <1>1, <1>3 DEF LoaderTypeOK, LoaderPcs
  <1> QED
    BY <1>1, <1>3, <1>4, LoaderPhases
    DEF LoaderInv, LoaderPcs, CodeInPlace, DiskInUse, Reading, LoopsAgree

LEMMA GoReadSetupKeeps == LoaderInv /\ GoReadSetup => LoaderInv'
  <1> SUFFICES ASSUME LoaderInv, GoReadSetup PROVE LoaderInv'
    OBVIOUS
  <1>1. /\ pc = "go" /\ pc' = "read_setup" /\ size' = size /\ mem' = mem /\ disk' = disk
        /\ lba' = 1 /\ to' = SETUPSEG /\ cx' = 1 /\ disk = "idle"
        /\ mem[0] = Vectors /\ mem[INITSEG] = BootSector
    BY DEF GoReadSetup, LoaderInv, CodeInPlace, DiskInUse, Reading
  <1>2. LoaderTypeOK'
    <2>1. SETUPSEG \in 0..(MemSectors - 1) /\ 1 \in 0..SYS_SIZE_SECTOR
      BY MemoryMap
    <2> QED
      BY <1>1, <2>1 DEF LoaderInv, LoaderTypeOK, LoaderPcs, Content
  <1>3. LoopsAgree'
    <2>1. /\ cx' \in 0..1 /\ to' = SETUPSEG + 1 - cx' /\ lba' = 2 - cx' /\ cx' # 0
          /\ pc' \notin KernelPcs
      BY <1>1, MemoryMap, LoaderPhases DEF LoaderPcs
    <2> QED
      BY <1>1, <2>1 DEF LoopsAgree
  <1> QED
    BY <1>1, <1>2, <1>3, LoaderPhases DEF LoaderInv, LoaderPcs, CodeInPlace, DiskInUse

LEMMA GoReadSystemKeeps == LoaderInv /\ GoReadSystem => LoaderInv'
  <1> SUFFICES ASSUME LoaderInv, GoReadSystem PROVE LoaderInv'
    OBVIOUS
  <1>1. /\ pc = "read_setup" /\ pc' = "read_system" /\ size' = size /\ mem' = mem
        /\ disk' = disk /\ lba' = SYS_POSITION /\ to' = SYSSEG /\ cx' = SYS_SIZE_SECTOR
        /\ mem[0] = Vectors /\ mem[INITSEG] = BootSector
        /\ mem[SETUPSEG] = SetupSector /\ cx = 0 /\ LoaderTypeOK
    BY DEF GoReadSystem, LoaderInv, CodeInPlace, LoopsAgree
  <1>2. disk = "idle"
    <2>1. ~(cx > 0)
      BY <1>1
    <2> QED
      BY <2>1 DEF LoaderInv, DiskInUse
  <1>3. LoaderTypeOK'
    <2>1. SYSSEG \in 0..(MemSectors - 1) /\ SYS_SIZE_SECTOR \in 0..SYS_SIZE_SECTOR
          /\ SYS_POSITION \in Nat
      BY MemoryMap
    <2> QED
      BY <1>1, <2>1 DEF LoaderTypeOK, LoaderPcs, Content
  <1>4. LoopsAgree'
    <2>1. SYS_SIZE_SECTOR - SYS_SIZE_SECTOR = 0
          /\ SYSSEG + 0 = SYSSEG /\ SYS_POSITION + 0 = SYS_POSITION
      BY MemoryMap
    <2>2. size' \in Nat
      <3>1. size \in 1..SYS_SIZE_SECTOR
        BY <1>1, MemoryMap DEF LoaderTypeOK
      <3> QED
        BY <1>1, <3>1, MemoryMap
    <2>3. \A n \in 0..(size' - 1) : ~(n < 0)
      BY <2>2
    <2> QED
      BY <1>1, <2>1, <2>3, LoaderPhases DEF LoopsAgree, LoaderPcs
  <1> QED
    BY <1>1, <1>2, <1>3, <1>4, LoaderPhases DEF LoaderInv, LoaderPcs, CodeInPlace, DiskInUse

LEMMA CommandKeeps == LoaderInv /\ Command => LoaderInv'
  BY DEF Command, LoaderInv, LoaderTypeOK, CodeInPlace, DiskInUse, Reading, LoopsAgree, Content

LEMMA PollKeeps == LoaderInv /\ Poll => LoaderInv'
  BY DEF Poll, LoaderInv, LoaderTypeOK, CodeInPlace, DiskInUse, Reading, LoopsAgree, Content

LEMMA DriveKeeps == LoaderInv /\ DriveReady => LoaderInv'
  BY DEF DriveReady, LoaderInv, LoaderTypeOK, CodeInPlace, DiskInUse, Reading, LoopsAgree,
         Content
LEMMA TransferKeeps == LoaderInv /\ Transfer => LoaderInv'
  <1> SUFFICES ASSUME LoaderInv, Transfer PROVE LoaderInv'
    OBVIOUS
  <1>1. /\ Reading /\ disk = "ready" /\ disk' = "idle" /\ pc' = pc /\ size' = size
        /\ mem' = [mem EXCEPT ![to] = Image(lba)]
        /\ to' = to + 1 /\ lba' = lba + 1 /\ cx' = cx - 1
        /\ LoaderTypeOK /\ cx > 0
    BY DEF Transfer, LoaderInv, DiskInUse
  <1>2. size \in SystemSectors /\ size \in Nat /\ size <= SYS_SIZE_SECTOR
        /\ cx \in Nat \ {0} /\ cx <= SYS_SIZE_SECTOR /\ cx - 1 \in 0..SYS_SIZE_SECTOR
    BY <1>1, MemoryMap DEF LoaderTypeOK
  <1>3. CASE pc = "read_setup"
    <2>1. cx = 1 /\ to = SETUPSEG /\ lba = 1 /\ mem[0] = Vectors /\ mem[INITSEG] = BootSector
      BY <1>1, <1>2, <1>3, MemoryMap DEF LoaderInv, LoopsAgree, CodeInPlace
    <2>2. Image(1) = SetupSector /\ Image(1) \in Content
      BY <1>2, ImageIs
    <2>3. /\ to \in 0..(MemSectors - 1) /\ to # 0 /\ to # INITSEG /\ to + 1 \in 0..(MemSectors - 1)
          /\ INITSEG \in 0..(MemSectors - 1) /\ 0 \in 0..(MemSectors - 1)
      BY <2>1, MemoryMap
    <2>4. /\ mem' \in [0..(MemSectors - 1) -> Content']
          /\ mem'[SETUPSEG] = SetupSector /\ mem'[0] = Vectors /\ mem'[INITSEG] = BootSector
      BY <1>1, <2>1, <2>2, <2>3, SectorStore DEF LoaderTypeOK
    <2>5. LoaderTypeOK'
      BY <1>1, <1>2, <2>1, <2>3, <2>4 DEF LoaderTypeOK
    <2>6. LoopsAgree'
      <3>1. cx' = 0 /\ to' = SETUPSEG + 1 - cx' /\ lba' = 2 - cx' /\ cx' \in 0..1
            /\ pc' = "read_setup" /\ pc' \notin KernelPcs
        BY <1>1, <1>3, <2>1, MemoryMap, LoaderPhases DEF LoaderPcs
      <3> QED
        BY <2>4, <3>1 DEF LoopsAgree
    <2> QED
      BY <1>1, <1>3, <2>4, <2>5, <2>6, LoaderPhases
      DEF LoaderInv, LoaderPcs, CodeInPlace, DiskInUse
  <1>4. CASE pc = "read_system"
    <2> DEFINE d == SYS_SIZE_SECTOR - cx
    <2>1. /\ to = SYSSEG + d /\ lba = SYS_POSITION + d
          /\ mem[0] = Vectors /\ mem[INITSEG] = BootSector /\ mem[SETUPSEG] = SetupSector
          /\ \A n \in 0..(size - 1) : n < d => mem[SYSSEG + n] = System(n)
      BY <1>4 DEF LoaderInv, LoopsAgree, CodeInPlace
    <2>2. d \in Nat /\ d < SYS_SIZE_SECTOR /\ cx - 1 = SYS_SIZE_SECTOR - (d + 1)
          /\ SYS_SIZE_SECTOR - (cx - 1) = d + 1
      BY <1>2, MemoryMap
    <2> HIDE DEF d
    <2>3. /\ Image(lba) \in Content
          /\ d < size => Image(lba) = System(d)
      <3>1. lba \in Nat \ {0}
        BY <2>1, <2>2, MemoryMap
      <3> QED
        BY <1>2, <2>1, <2>2, <3>1, ImageIs
    <2>4. /\ to \in 0..(MemSectors - 1) /\ to # 0 /\ to # INITSEG /\ to # SETUPSEG
          /\ to + 1 \in 0..(MemSectors - 1) /\ lba + 1 \in Nat
          /\ INITSEG \in 0..(MemSectors - 1) /\ 0 \in 0..(MemSectors - 1)
          /\ SETUPSEG \in 0..(MemSectors - 1)
      BY <2>1, <2>2, MemoryMap
    <2>5. /\ mem' \in [0..(MemSectors - 1) -> Content']
          /\ mem'[to] = Image(lba)
          /\ \A b \in 0..(MemSectors - 1) : b # to => mem'[b] = mem[b]
      BY <1>1, <2>3, <2>4, SectorStore DEF LoaderTypeOK
    <2>6. LoaderTypeOK'
      BY <1>1, <1>2, <2>4, <2>5 DEF LoaderTypeOK
    <2>7. ASSUME NEW n \in 0..(size - 1), n < d + 1
          PROVE  mem'[SYSSEG + n] = System(n)
      <3>1. CASE n = d
        BY <1>2, <2>1, <2>3, <2>5, <3>1
      <3>2. CASE n # d
        <4>1. n < d /\ SYSSEG + n # to /\ SYSSEG + n \in 0..(MemSectors - 1)
          BY <1>2, <2>1, <2>2, <2>7, <3>2, MemoryMap
        <4> QED
          BY <2>1, <2>5, <4>1
      <3> QED
        BY <3>1, <3>2
    <2>8. LoopsAgree'
      <3>1. /\ pc' = "read_system" /\ pc' \notin KernelPcs /\ SYS_SIZE_SECTOR - cx' = d + 1
            /\ to' = SYSSEG + (d + 1) /\ lba' = SYS_POSITION + (d + 1)
        BY <1>1, <1>4, <2>1, <2>2, MemoryMap, LoaderPhases DEF LoaderPcs
      <3> QED
        BY <1>1, <2>7, <3>1 DEF LoopsAgree
    <2> QED
      BY <1>1, <1>4, <2>1, <2>4, <2>5, <2>6, <2>8, LoaderPhases
      DEF LoaderInv, LoaderPcs, CodeInPlace, DiskInUse
  <1> QED
    BY <1>1, <1>3, <1>4 DEF Reading

LEMMA SaveParametersKeeps == LoaderInv /\ SaveParameters => LoaderInv'
  <1> SUFFICES ASSUME LoaderInv, SaveParameters PROVE LoaderInv'
    OBVIOUS
  <1>1. /\ pc = "read_system" /\ pc' = "do_move" /\ cx = 0 /\ size' = size /\ to' = 0
        /\ mem' = [mem EXCEPT ![INITSEG] = ParamSector]
        /\ lba' = lba /\ cx' = cx /\ disk' = disk /\ LoaderTypeOK
        /\ mem[SETUPSEG] = SetupSector
    BY DEF SaveParameters, LoaderInv, CodeInPlace, ParamSector
  <1>2. size \in Nat /\ size <= SYS_SIZE_SECTOR
    <2>1. size \in 1..SYS_SIZE_SECTOR
      BY <1>1, MemoryMap DEF LoaderTypeOK
    <2> QED
      BY <2>1, MemoryMap
  <1>3. /\ INITSEG \in 0..(MemSectors - 1) /\ SETUPSEG \in 0..(MemSectors - 1)
        /\ SETUPSEG # INITSEG /\ 0 \in 0..(MemSectors - 1) /\ ParamSector \in Content
    BY MemoryMap DEF Content, ParamSector
  <1>4. /\ mem' \in [0..(MemSectors - 1) -> Content']
        /\ mem'[INITSEG] = ParamSector
        /\ \A b \in 0..(MemSectors - 1) : b # INITSEG => mem'[b] = mem[b]
    BY <1>1, <1>3, SectorStore DEF LoaderTypeOK
  <1>5. LoaderTypeOK'
    BY <1>1, <1>3, <1>4 DEF LoaderTypeOK, LoaderPcs
  <1>6. disk = "idle"
    <2>1. ~(cx > 0)
      BY <1>1
    <2> QED
      BY <2>1 DEF LoaderInv, DiskInUse
  <1>7. ASSUME NEW n \in 0..(size - 1)
        PROVE  mem'[SYSSEG + n] = System(n) /\ ~(n < 0)
    <2>1. n < SYS_SIZE_SECTOR - cx
      BY <1>1, <1>2, MemoryMap
    <2>2. mem[SYSSEG + n] = System(n)
      BY <1>1, <2>1 DEF LoaderInv, LoopsAgree
    <2>3. SYSSEG + n # INITSEG /\ SYSSEG + n \in 0..(MemSectors - 1)
      BY <1>2, MemoryMap
    <2> QED
      BY <1>2, <1>4, <2>2, <2>3
  <1>8. LoopsAgree'
    <2>1. pc' \notin KernelPcs /\ to' <= 8 * SegSectors
      BY <1>1, LoaderPhases, MemoryMap DEF LoaderPcs
    <2> QED
      BY <1>1, <1>7, <2>1 DEF LoopsAgree
  <1> QED
    BY <1>1, <1>3, <1>4, <1>5, <1>6, <1>8, LoaderPhases
    DEF LoaderInv, LoaderPcs, CodeInPlace, DiskInUse

\* A sector that is moved down leaves its place only when it has a new one: the
\* kernel is not longer than the distance.
LEMMA MoveKeeps == LoaderInv /\ Move => LoaderInv'
  <1> SUFFICES ASSUME LoaderInv, Move PROVE LoaderInv'
    OBVIOUS
  <1>1. /\ pc = "do_move" /\ pc' = pc /\ size' = size /\ to' = to + 1
        /\ to + SegSectors < INITSEG
        /\ mem' = [mem EXCEPT ![to] = mem[to + SegSectors]]
        /\ lba' = lba /\ cx' = cx /\ disk' = disk /\ LoaderTypeOK
        /\ mem[SETUPSEG] = SetupSector /\ mem[INITSEG] = ParamSector
        /\ to \in 0..(MemSectors - 1)
    BY DEF Move, LoaderInv, LoaderTypeOK, CodeInPlace
  <1>2. size \in Nat /\ size <= SYS_SIZE_SECTOR
    <2>1. size \in 1..SYS_SIZE_SECTOR
      BY <1>1, MemoryMap DEF LoaderTypeOK
    <2> QED
      BY <2>1, MemoryMap
  <1>3. /\ to \in Nat /\ to + 1 <= 8 * SegSectors /\ to # INITSEG /\ to # SETUPSEG
        /\ to + 1 \in 0..(MemSectors - 1) /\ to + SegSectors \in 0..(MemSectors - 1)
        /\ INITSEG \in 0..(MemSectors - 1) /\ SETUPSEG \in 0..(MemSectors - 1)
    BY <1>1, MemoryMap
  <1>4. /\ mem' \in [0..(MemSectors - 1) -> Content']
        /\ mem'[to] = mem[to + SegSectors]
        /\ \A b \in 0..(MemSectors - 1) : b # to => mem'[b] = mem[b]
    BY <1>1, <1>3, SectorStore DEF LoaderTypeOK
  <1>5. LoaderTypeOK'
    BY <1>1, <1>3, <1>4 DEF LoaderTypeOK
  <1>6. ASSUME NEW n \in 0..(size - 1)
        PROVE  /\ n < to + 1 => mem'[n] = System(n)
               /\ n >= to + 1 => mem'[SYSSEG + n] = System(n)
    <2>1. /\ n \in Nat /\ n < SegSectors
          /\ n \in 0..(MemSectors - 1) /\ SYSSEG + n \in 0..(MemSectors - 1)
      BY <1>2, MemoryMap
    <2>2. /\ n < to => mem[n] = System(n)
          /\ n >= to => mem[SYSSEG + n] = System(n)
      BY <1>1 DEF LoaderInv, LoopsAgree
    <2>3. CASE n = to
      <3>1. mem'[n] = mem[SYSSEG + n] /\ n >= to /\ ~(n >= to + 1)
        BY <1>3, <1>4, <2>3, MemoryMap
      <3> QED
        BY <2>2, <3>1
    <2>4. CASE n < to
      BY <1>3, <1>4, <2>1, <2>2, <2>4
    <2>5. CASE n > to
      <3>1. SYSSEG + n # to
        BY <1>3, <2>1, <2>5, MemoryMap
      <3> QED
        BY <1>3, <1>4, <2>1, <2>2, <2>5, <3>1
    <2> QED
      BY <1>3, <2>1, <2>3, <2>4, <2>5
  <1>7. LoopsAgree'
    <2>1. pc' \notin KernelPcs /\ pc' = "do_move"
      BY <1>1, LoaderPhases DEF LoaderPcs
    <2> QED
      BY <1>1, <1>3, <1>6, <2>1 DEF LoopsAgree
  <1>8. CodeInPlace'
    <2>1. pc' \notin KernelPcs /\ pc' = "do_move"
      BY <1>1, LoaderPhases DEF LoaderPcs
    <2> QED
      BY <1>1, <1>3, <1>4, <2>1 DEF CodeInPlace
  <1> QED
    BY <1>1, <1>5, <1>7, <1>8 DEF LoaderInv, DiskInUse, Reading

LEMMA LoadTablesKeeps == LoaderInv /\ LoadTables => LoaderInv'
  <1> SUFFICES ASSUME LoaderInv, LoadTables PROVE LoaderInv'
    OBVIOUS
  <1>1. /\ pc = "do_move" /\ pc' = "end_move" /\ size' = size /\ mem' = mem /\ to' = to
        /\ lba' = lba /\ cx' = cx /\ disk' = disk /\ LoaderTypeOK
        /\ to + SegSectors >= INITSEG
    BY DEF LoadTables, bootVars, LoaderInv
  <1>2. ASSUME NEW n \in 0..(size - 1) PROVE n < to
    <2>1. size \in 1..SYS_SIZE_SECTOR /\ to \in 0..(MemSectors - 1)
      BY <1>1, MemoryMap DEF LoaderTypeOK
    <2> QED
      BY <1>1, <2>1, MemoryMap
  <1>3. LoopsAgree'
    BY <1>1, <1>2 DEF LoaderInv, LoopsAgree
  <1>4. LoaderTypeOK'
    BY <1>1 DEF LoaderTypeOK, LoaderPcs, Content
  <1> QED
    BY <1>1, <1>3, <1>4 DEF LoaderInv, CodeInPlace, DiskInUse, Reading
-----------------------------------------------------------------------------
(***************************************************************************)
(* The gates.                                                              *)
(***************************************************************************)
LEMMA DivSmall ==
    ASSUME NEW d \in Nat \ {0}, NEW r \in 0..(d - 1)
    PROVE  r \div d = 0 /\ r % d = r
  <1>1. \A q \in Nat : (q * d + r) \div d = q /\ (q * d + r) % d = r
    BY DivUnique
  <1>2. (0 * d + r) \div d = 0 /\ (0 * d + r) % d = r
    BY <1>1, 0 \in Nat, Zenon
  <1>3. 0 * d + r = r
    OBVIOUS
  <1> QED
    BY <1>2, <1>3

\* The longs of a gate: the address of a handler has an empty upper half, and the
\* byte of the attributes ends where a half ends.
LEMMA GateFields ==
    ASSUME NEW g, NEW h \in Handlers, NEW t \in {142, 143, 239},
           g.eax = KernelCode * Half + Address[h], g.edx = t * HalfType
    PROVE  /\ Offset(g) = Address[h] /\ Selector(g) = KernelCode /\ Attr(g) = t
  <1>1. /\ Half \in Nat \ {0} /\ HalfType \in Nat \ {0} /\ Half = 256 * HalfType
        /\ Address[h] \in 0..(Half - 1) /\ Address[h] \in Nat
    BY IdtLayout
  <1> DEFINE a == Address[h]
             e == t * HalfType
  <1> HIDE DEF a
  <1>2. (KernelCode * Half + a) \div Half = KernelCode /\ (KernelCode * Half + a) % Half = a
    <2>1. KernelCode \in Nat
      BY DEF KernelCode
    <2>2. a \in 0..(Half - 1) /\ Half \in Nat \ {0}
      BY <1>1 DEF a
    <2> QED
      BY <2>1, <2>2, DivUnique
  <1>3. e \in 0..(Half - 1)
    BY <1>1
  <1>10. (t * HalfType + 0) \div HalfType = t
    BY <1>1, DivUnique
  <1>11. t * HalfType + 0 = e
    BY <1>1
  <1>8. g.eax = KernelCode * Half + a /\ g.edx = e
    BY DEF a
  <1> HIDE DEF e
  <1>5. e \div Half = 0 /\ e % Half = e
    <2>1. Half \in Nat \ {0}
      BY <1>1
    <2> QED
      BY <1>3, <2>1, DivSmall
  <1>7. e \div HalfType = t
    BY <1>10, <1>11
  <1>9. Offset(g) = 0 * Half + a
    BY <1>2, <1>5, <1>8 DEF Offset
  <1> QED
    BY <1>1, <1>2, <1>5, <1>7, <1>8, <1>9 DEF Selector, Attr, a

\* What the attributes mean.
LEMMA Attributes ==
    /\ 142 \div 128 = 1 /\ 142 % 32 = 14 /\ (142 \div 32) % 4 = 0
    /\ 143 \div 128 = 1 /\ 143 % 32 = 15 /\ (143 \div 32) % 4 = 0
    /\ 239 \div 128 = 1 /\ 239 % 32 = 15 /\ (239 \div 32) % 4 = 3
  OBVIOUS

\* make_gate_descriptor on what setup_idt gives it, whatever the upper half of
\* EBX holds.
LEMMA DummyMade ==
    ASSUME NEW u \in Nat
    PROVE  make_gate_descriptor(Address["ignore_int"], u * Half + KernelCode, 142 * HalfType)
             = Dummy
  <1>1. "ignore_int" \in Handlers
    <2>1. Gate(48) = "ignore_int"
      BY DEF Gate
    <2> QED
      BY <2>1 DEF Handlers
  <1> DEFINE a == Address["ignore_int"]
             e == 142 * HalfType
  <1>2. /\ Half \in Nat \ {0} /\ HalfType \in Nat \ {0} /\ Half = 256 * HalfType
        /\ a \in 0..(Half - 1)
    BY <1>1, IdtLayout
  <1>3. (u * Half + KernelCode) % Half = KernelCode
    <2>1. KernelCode \in 0..(Half - 1) /\ KernelCode \in Nat
      BY <1>2 DEF KernelCode
    <2>2. Half \in Nat \ {0}
      BY <1>2
    <2> QED
      BY <2>1, <2>2, DivUnique
  <1>4. e \in 0..(Half - 1)
    BY <1>2
  <1> HIDE DEF a, e
  <1>5. a % Half = a /\ a \div Half = 0 /\ e % Half = e
    <2>1. /\ (0 * Half + a) \div Half = 0 /\ (0 * Half + a) % Half = a
          /\ (0 * Half + e) % Half = e
      BY <1>2, <1>4, DivUnique
    <2> QED
      BY <1>2, <1>4, <2>1
  <1>6. /\ KernelCode * Half + (a % Half) = KernelCode * Half + a
        /\ (a \div Half) * Half + (e % Half) = e
    BY <1>2, <1>4, <1>5
  <1>7. make_gate_descriptor(a, u * Half + KernelCode, e) =
          [eax |-> ((u * Half + KernelCode) % Half) * Half + (a % Half),
           edx |-> (a \div Half) * Half + (e % Half)]
    BY DEF make_gate_descriptor
  <1> QED
    BY <1>3, <1>6, <1>7 DEF Dummy, a, e

CallSet == [v : 0..47, handler : Handlers, dpl : {0, 3}]

\* _set_gate on what trap_init gives it.
LEMMA GateMade ==
    ASSUME NEW c \in CallSet
    PROVE  /\ _set_gate(15, c.dpl, Address[c.handler]) = GateOf(c)
           /\ GateOf(c).eax \in Int
           /\ GateOf(c).edx \in {143 * HalfType, 239 * HalfType}
           /\ GateOf(c).edx \in Int
  <1> DEFINE a == Address[c.handler]
             d == c.dpl
  <1>1. /\ Half \in Nat \ {0} /\ HalfType \in Nat \ {0}
        /\ a \in 0..(Half - 1) /\ d \in {0, 3}
    BY IdtLayout DEF CallSet
  <1>2. /\ _set_gate(15, d, a) = [eax |-> KernelCode * Half + (a % Half),
                                  edx |-> (a \div Half) * Half + (128 + 32 * d + 15) * HalfType]
        /\ GateOf(c) = [eax |-> KernelCode * Half + a, edx |-> (143 + 32 * d) * HalfType]
    BY DEF _set_gate, GateOf
  <1> HIDE DEF a, d
  <1>3. a % Half = a /\ a \div Half = 0
    <2>1. (0 * Half + a) \div Half = 0 /\ (0 * Half + a) % Half = a
      BY <1>1, DivUnique
    <2> QED
      BY <1>1, <2>1
  <1>4. 128 + 32 * d + 15 = 143 + 32 * d /\ 143 + 32 * d \in {143, 239}
    BY <1>1
  <1>5. KernelCode * Half + a \in Int
    BY <1>1 DEF KernelCode
  <1>6. /\ (143 + 32 * d) * HalfType \in {143 * HalfType, 239 * HalfType}
        /\ (143 + 32 * d) * HalfType \in Int
        /\ 0 * Half + (143 + 32 * d) * HalfType = (143 + 32 * d) * HalfType
    BY <1>1, <1>4
  <1> QED
    BY <1>2, <1>3, <1>4, <1>5, <1>6 DEF a, d

-----------------------------------------------------------------------------
(***************************************************************************)
(* The calls of trap_init.                                                 *)
(***************************************************************************)
CallAt(i) == IF i <= 14 THEN Call(i - 1, Gate(i - 1), IF i - 1 \in {3, 4, 5} THEN 3 ELSE 0)
             ELSE IF i <= 17 THEN Call(i, Gate(i), 0)
             ELSE IF i <= 47 THEN Call(i, "reserved", 0)
             ELSE IF i = 48 THEN Call(45, "irq13", 0)
             ELSE Call(39, "parallel_interrupt", 0)

\* A function on 1..m is a sequence.
LEMMA Listed ==
    ASSUME NEW S, NEW m \in Nat, NEW s \in [1..m -> S]
    PROVE  s \in Seq(S) /\ Len(s) = m
  <1>1. s \in Seq(S)
    BY SeqDef
  <1> QED
    BY <1>1, LenProperties

LEMMA CallsAre ==
    /\ Len(TrapCalls) = 49 /\ DOMAIN TrapCalls = 1..49
    /\ \A i \in 1..49 : TrapCalls[i] = CallAt(i) /\ TrapCalls[i] \in CallSet
  <1> DEFINE A == [i \in 1..14 |-> Call(i - 1, Gate(i - 1), IF i - 1 \in {3, 4, 5} THEN 3 ELSE 0)]
             B == [i \in 1..3 |-> Call(i + 14, Gate(i + 14), 0)]
             C == [i \in 1..30 |-> Call(i + 17, "reserved", 0)]
             D == <<Call(45, "irq13", 0), Call(39, "parallel_interrupt", 0)>>
  <1>1. /\ "reserved" \in Handlers /\ "irq13" \in Handlers /\ "parallel_interrupt" \in Handlers
        /\ \A v \in 0..48 : Gate(v) \in Handlers
    <2>1. Gate(18) = "reserved" /\ Gate(45) = "irq13" /\ Gate(39) = "parallel_interrupt"
      BY DEF Gate
    <2> QED
      BY <2>1 DEF Handlers
  <1>2. ASSUME NEW v \in 0..47, NEW h \in Handlers, NEW d \in {0, 3}
        PROVE  Call(v, h, d) \in CallSet
    BY DEF Call, CallSet
  <1>3. A \in [1..14 -> CallSet] /\ B \in [1..3 -> CallSet] /\ C \in [1..30 -> CallSet]
        /\ D \in [1..2 -> CallSet]
    <2>1. ASSUME NEW i \in 1..14
          PROVE  Call(i - 1, Gate(i - 1), IF i - 1 \in {3, 4, 5} THEN 3 ELSE 0) \in CallSet
      <3>1. i - 1 \in 0..47 /\ i - 1 \in 0..48 /\ (IF i - 1 \in {3, 4, 5} THEN 3 ELSE 0) \in {0, 3}
        OBVIOUS
      <3> QED
        BY <1>1, <1>2, <3>1
    <2>2. ASSUME NEW i \in 1..3 PROVE Call(i + 14, Gate(i + 14), 0) \in CallSet
      BY <1>1, <1>2
    <2>3. ASSUME NEW i \in 1..30 PROVE Call(i + 17, "reserved", 0) \in CallSet
      BY <1>1, <1>2
    <2>4. Call(45, "irq13", 0) \in CallSet /\ Call(39, "parallel_interrupt", 0) \in CallSet
      BY <1>1, <1>2
    <2> QED
      BY <2>1, <2>2, <2>3, <2>4
  <1>4. /\ TrapCalls = ((A \o B) \o C) \o D
        /\ D[1] = Call(45, "irq13", 0) /\ D[2] = Call(39, "parallel_interrupt", 0)
        /\ Len(D) = 2
    BY DEF TrapCalls
  <1>5. /\ \A i \in 1..14 : A[i] = CallAt(i)
        /\ \A i \in 1..3 : B[i] = CallAt(i + 14)
        /\ \A i \in 1..30 : C[i] = CallAt(i + 17)
        /\ D[1] = CallAt(48) /\ D[2] = CallAt(49)
    BY <1>4 DEF CallAt
  <1> HIDE DEF A, B, C, D
  <1>11. /\ A \in Seq(CallSet) /\ B \in Seq(CallSet) /\ C \in Seq(CallSet) /\ D \in Seq(CallSet)
         /\ Len(A) = 14 /\ Len(B) = 3 /\ Len(C) = 30 /\ Len(D) = 2
    <2>1. 14 \in Nat /\ 3 \in Nat /\ 30 \in Nat /\ 2 \in Nat
      OBVIOUS
    <2>2. A \in Seq(CallSet) /\ Len(A) = 14
      BY <1>3, <2>1, Listed
    <2>3. B \in Seq(CallSet) /\ Len(B) = 3
      BY <1>3, <2>1, Listed
    <2>4. C \in Seq(CallSet) /\ Len(C) = 30
      BY <1>3, <2>1, Listed
    <2>5. D \in Seq(CallSet) /\ Len(D) = 2
      BY <1>3, <2>1, Listed
    <2> QED
      BY <2>2, <2>3, <2>4, <2>5
  <1>6. /\ A \o B \in Seq(CallSet) /\ Len(A \o B) = 17
        /\ \A i \in 1..17 : (A \o B)[i] = IF i <= 14 THEN A[i] ELSE B[i - 14]
    <2>3. A \in Seq(CallSet) /\ B \in Seq(CallSet)
      BY <1>11
    <2>1. /\ A \o B \in Seq(CallSet) /\ Len(A \o B) = Len(A) + Len(B)
          /\ \A i \in 1..(Len(A) + Len(B)) :
                (A \o B)[i] = IF i <= Len(A) THEN A[i] ELSE B[i - Len(A)]
      BY <2>3, ConcatProperties
    <2>2. Len(A) + Len(B) = 17
      BY <1>11
    <2> QED
      BY <1>11, <2>1, <2>2
  <1> DEFINE E == A \o B
  <1>12. E \in Seq(CallSet) /\ Len(E) = 17
    BY <1>6
  <1> HIDE DEF E
  <1>7. /\ E \o C \in Seq(CallSet) /\ Len(E \o C) = 47
        /\ \A i \in 1..47 : (E \o C)[i] = IF i <= 17 THEN E[i] ELSE C[i - 17]
    <2>3. E \in Seq(CallSet) /\ C \in Seq(CallSet)
      BY <1>11, <1>12
    <2>1. /\ E \o C \in Seq(CallSet) /\ Len(E \o C) = Len(E) + Len(C)
          /\ \A i \in 1..(Len(E) + Len(C)) :
                (E \o C)[i] = IF i <= Len(E) THEN E[i] ELSE C[i - Len(E)]
      BY <2>3, ConcatProperties
    <2>2. Len(E) + Len(C) = 47
      BY <1>11, <1>12
    <2> QED
      BY <1>11, <1>12, <2>1, <2>2
  <1> DEFINE F == E \o C
  <1>13. F \in Seq(CallSet) /\ Len(F) = 47
    BY <1>7
  <1> HIDE DEF F
  <1>8. /\ F \o D \in Seq(CallSet) /\ Len(F \o D) = 49
        /\ \A i \in 1..49 : (F \o D)[i] = IF i <= 47 THEN F[i] ELSE D[i - 47]
    <2>3. F \in Seq(CallSet) /\ D \in Seq(CallSet)
      BY <1>11, <1>13
    <2>1. /\ F \o D \in Seq(CallSet) /\ Len(F \o D) = Len(F) + Len(D)
          /\ \A i \in 1..(Len(F) + Len(D)) :
                (F \o D)[i] = IF i <= Len(F) THEN F[i] ELSE D[i - Len(F)]
      BY <2>3, ConcatProperties
    <2>2. Len(F) + Len(D) = 49
      BY <1>11, <1>13
    <2> QED
      BY <1>11, <1>13, <2>1, <2>2
  <1>9. ASSUME NEW i \in 1..49 PROVE (F \o D)[i] = CallAt(i)
    <2>1. CASE i <= 14
      <3>1. i \in 1..14 /\ i <= 17 /\ i <= 47 /\ i \in 1..17 /\ i \in 1..47
        BY <2>1
      <3>2. (F \o D)[i] = F[i] /\ F[i] = E[i] /\ E[i] = A[i] /\ A[i] = CallAt(i)
        BY <1>5, <1>6, <1>7, <1>8, <2>1, <3>1 DEF E, F
      <3> QED
        BY <3>2
    <2>2. CASE i \in 15..17
      <3>1. ~(i <= 14) /\ i <= 17 /\ i <= 47 /\ i \in 1..17 /\ i \in 1..47
            /\ i - 14 \in 1..3 /\ (i - 14) + 14 = i
        BY <2>2
      <3>2. (F \o D)[i] = F[i] /\ F[i] = E[i] /\ E[i] = B[i - 14]
        BY <1>6, <1>7, <1>8, <3>1 DEF E, F
      <3> QED
        BY <1>5, <3>1, <3>2
    <2>3. CASE i \in 18..47
      <3>1. ~(i <= 17) /\ i <= 47 /\ i \in 1..47 /\ i - 17 \in 1..30 /\ (i - 17) + 17 = i
        BY <2>3
      <3>2. (F \o D)[i] = F[i] /\ F[i] = C[i - 17]
        BY <1>7, <1>8, <3>1 DEF F
      <3> QED
        BY <1>5, <3>1, <3>2
    <2>4. CASE i = 48
      <3>1. ~(48 <= 47) /\ 48 - 47 = 1 /\ 48 \in 1..49
        OBVIOUS
      <3>2. (F \o D)[48] = D[1]
        BY <1>8, <3>1
      <3> QED
        BY <1>5, <2>4, <3>2
    <2>5. CASE i = 49
      <3>1. ~(49 <= 47) /\ 49 - 47 = 2 /\ 49 \in 1..49
        OBVIOUS
      <3>2. (F \o D)[49] = D[2]
        BY <1>8, <3>1
      <3> QED
        BY <1>5, <2>5, <3>2
    <2>6. i <= 14 \/ i \in 15..17 \/ i \in 18..47 \/ i = 48 \/ i = 49
      OBVIOUS
    <2> QED
      BY <2>1, <2>2, <2>3, <2>4, <2>5, <2>6
  <1>10. TrapCalls = F \o D
    BY <1>4 DEF E, F
  <1> DEFINE G == F \o D
  <1>14. G \in Seq(CallSet) /\ Len(G) = 49 /\ \A i \in 1..49 : G[i] = CallAt(i)
    BY <1>8, <1>9
  <1> HIDE DEF G
  <1>15. \A i \in 1..Len(G) : G[i] \in CallSet
    BY <1>14, ElementOfSeq
  <1>16. DOMAIN G = 1..49
    BY <1>14, LenProperties
  <1>17. TrapCalls = G
    BY <1>10 DEF G
  <1> QED
    BY <1>14, <1>15, <1>16, <1>17
\* Which vector each call is for.
VectorAt(i) == IF i <= 14 THEN i - 1 ELSE IF i <= 47 THEN i ELSE IF i = 48 THEN 45 ELSE 39

LEMMA CallVector ==
    \A i \in 1..49 : TrapCalls[i].v = VectorAt(i) /\ VectorAt(i) \in Gates256
  <1> SUFFICES ASSUME NEW i \in 1..49
               PROVE  TrapCalls[i].v = VectorAt(i) /\ VectorAt(i) \in Gates256
    OBVIOUS
  <1>1. \A u, h, d : Call(u, h, d).v = u
    BY DEF Call
  <1>2. CallAt(i).v = VectorAt(i)
    BY <1>1 DEF CallAt, VectorAt
  <1>3. VectorAt(i) \in Gates256
    BY DEF VectorAt, Gates256, NrGates
  <1> QED
    BY <1>2, <1>3, CallsAre

\* The last call for a vector gives it the handler of TrapTable.tla: the gates of
\* 39 and 45 are set again after those of all the reserved vectors.
Level(v) == IF v \in {3, 4, 5} THEN 3 ELSE 0

LEMMA LastCall ==
    ASSUME NEW v \in (0..47) \ {14}
    PROVE  \E i \in 1..49 : /\ TrapCalls[i] = Call(v, Gate(v), Level(v))
                            /\ TrapCalls[i].v = v /\ LastFor(i, 49)
  <1>1. CASE v <= 13
    <2>1. /\ v + 1 \in 1..49 /\ (v + 1) - 1 = v /\ v + 1 <= 14
          /\ \A j \in (v + 2)..49 : j \in 1..49 /\ VectorAt(j) # v
          /\ VectorAt(v + 1) = v
      BY <1>1 DEF VectorAt
    <2>2. CallAt(v + 1) = Call(v, Gate(v), Level(v))
      BY <2>1 DEF CallAt, Level
    <2>3. (v + 1) + 1 = v + 2
      OBVIOUS
    <2>4. LastFor(v + 1, 49)
      BY <2>1, <2>3, CallVector DEF LastFor
    <2> QED
      BY <2>1, <2>2, <2>4, CallsAre, CallVector
  <1>2. CASE v \in 15..47 /\ v # 39 /\ v # 45
    <2>1. /\ v \in 1..49 /\ VectorAt(v) = v /\ Level(v) = 0
          /\ \A j \in (v + 1)..49 : j \in 1..49 /\ VectorAt(j) # v
      BY <1>2 DEF VectorAt, Level
    <2>2. CallAt(v) = Call(v, Gate(v), Level(v))
      <3>1. v > 17 => Gate(v) = "reserved"
        BY <1>2 DEF Gate
      <3>2. ~(v <= 14) /\ v <= 47
        BY <1>2
      <3> QED
        BY <2>1, <3>1, <3>2 DEF CallAt
    <2>4. TrapCalls[v].v = v
      BY <2>1, CallVector
    <2>3. LastFor(v, 49)
      <3>1. ASSUME NEW j \in (v + 1)..49 PROVE TrapCalls[j].v # v
        BY <2>1, CallVector
      <3> QED
        BY <2>4, <3>1 DEF LastFor
    <2> QED
      BY <2>1, <2>2, <2>3, <2>4, CallsAre
  <1>3. CASE v = 45
    <2>1. /\ 48 \in 1..49 /\ VectorAt(48) = 45 /\ Level(45) = 0
          /\ \A j \in (48 + 1)..49 : j \in 1..49 /\ VectorAt(j) # 45
      BY DEF VectorAt, Level
    <2>2. CallAt(48) = Call(45, Gate(45), Level(45))
      BY <2>1 DEF CallAt, Gate
    <2>3. LastFor(48, 49)
      BY <2>1, CallVector DEF LastFor
    <2> QED
      BY <1>3, <2>1, <2>2, <2>3, CallsAre, CallVector
  <1>4. CASE v = 39
    <2>1. /\ 49 \in 1..49 /\ VectorAt(49) = 39 /\ Level(39) = 0
          /\ \A j \in (49 + 1)..49 : FALSE
      BY DEF VectorAt, Level
    <2>2. CallAt(49) = Call(39, Gate(39), Level(39))
      BY <2>1 DEF CallAt, Gate
    <2>3. LastFor(49, 49)
      BY <2>1 DEF LastFor
    <2> QED
      BY <1>4, <2>1, <2>2, <2>3, CallsAre, CallVector
  <1> QED
    BY <1>1, <1>2, <1>3, <1>4

LEMMA NoCall ==
    ASSUME NEW v \in Gates256, v \notin (0..47) \ {14}
    PROVE  \A i \in 1..49 : TrapCalls[i].v # v
  <1>1. \A i \in 1..49 : VectorAt(i) # v
    BY DEF VectorAt, Gates256, NrGates
  <1> QED
    BY <1>1, CallVector

\* The table when the last call has returned.
LEMMA FinalGate ==
    ASSUME NEW v \in Gates256, Filled(v, Len(TrapCalls))
    PROVE  idt[v] = IF v \in (0..47) \ {14} THEN GateOf(Call(v, Gate(v), Level(v))) ELSE Dummy
  <1>1. Len(TrapCalls) = 49
    BY CallsAre
  <1>2. CASE v \in (0..47) \ {14}
    BY <1>1, <1>2, LastCall DEF Filled
  <1>3. CASE v \notin (0..47) \ {14}
    BY <1>1, <1>3, NoCall DEF Filled
  <1> QED
    BY <1>2, <1>3
-----------------------------------------------------------------------------
(***************************************************************************)
(* The interrupt table, step by step.                                      *)
(***************************************************************************)
LEMMA FirstLong ==
    ASSUME idt \in [Gates256 -> [eax : Int, edx : Int]], eax \in Int,
           NEW u \in Gates256, StoreFirst(u)
    PROVE  /\ idt' \in [Gates256 -> [eax : Int, edx : Int]]
           /\ idt'[u].eax = eax /\ idt'[u].edx = idt[u].edx
           /\ \A w \in Gates256 : w # u => idt'[w] = idt[w]
           /\ halfDone'
  BY DEF StoreFirst

LEMMA SecondLong ==
    ASSUME idt \in [Gates256 -> [eax : Int, edx : Int]], edx \in Int,
           NEW u \in Gates256, StoreSecond(u)
    PROVE  /\ idt' \in [Gates256 -> [eax : Int, edx : Int]]
           /\ idt'[u] = [eax |-> idt[u].eax, edx |-> edx]
           /\ \A w \in Gates256 : w # u => idt'[w] = idt[w]
           /\ ~halfDone'
  BY DEF StoreSecond

LEMMA DummyLongs == Dummy.eax \in Int /\ Dummy.edx \in Int
  <1>1. Gate(48) = "ignore_int"
    BY DEF Gate
  <1>2. Address["ignore_int"] \in Nat /\ Half \in Nat /\ HalfType \in Nat
    BY <1>1, IdtLayout DEF Handlers
  <1> QED
    BY <1>2 DEF Dummy, KernelCode

\* What a step that leaves the table alone keeps of it.
LEMMA TableKept ==
    ASSUME TableInv, UNCHANGED idtVars, eax' \in Int,
           \/ pc' = pc /\ eax' = eax
           \/ pc \in LoaderPcs \cup {"head"} /\ pc' \in LoaderPcs \cup {"head"}
           \/ pc \in {"test_a20", "main"} \cup PagePcs /\ pc' \in {"test_a20", "main"} \cup PagePcs
    PROVE  TableInv'
  <1>1. idt' = idt /\ k' = k /\ edx' = edx /\ halfDone' = halfDone
    BY DEF idtVars
  <1>2. \A v : Allowed(v) => Allowed(v)'
    BY <1>1 DEF Allowed
  <1>3. \A v, n : Filled(v, n) => (Filled(v, n))'
    BY <1>1 DEF Filled
  <1>4. CASE pc' = pc /\ eax' = eax
    <2>1. DummiesUpTo => DummiesUpTo'
      BY <1>1, <1>4 DEF DummiesUpTo
    <2>2. CallInProgress => CallInProgress'
      BY <1>1, <1>3, <1>4 DEF CallInProgress
    <2> QED
      BY <1>1, <1>2, <1>3, <1>4, <2>1, <2>2 DEF TableInv
  <1>5. CASE pc \in LoaderPcs \cup {"head"} /\ pc' \in LoaderPcs \cup {"head"}
    <2>1. \A p \in LoaderPcs \cup {"head"} :
             p \notin {"setup_idt", "trap_init", "load", "tty_init", "idle", "test_a20", "main"}
                      \cup PagePcs
      BY DEF LoaderPcs, PagePcs
    <2> QED
      BY <1>1, <1>5, <2>1 DEF TableInv
  <1>6. CASE /\ pc \in {"test_a20", "main"} \cup PagePcs
             /\ pc' \in {"test_a20", "main"} \cup PagePcs
    <2>1. \A p \in {"test_a20", "main"} \cup PagePcs :
             p \notin {"setup_idt", "trap_init", "load", "tty_init", "idle", "head"}
                      \cup LoaderPcs
      BY DEF LoaderPcs, PagePcs
    <2> QED
      BY <1>1, <1>2, <1>6, <2>1 DEF TableInv
  <1> QED
    BY <1>4, <1>5, <1>6
LEMMA SetupIdtTable == TableInv /\ SetupIdt => TableInv'
  <1> SUFFICES ASSUME TableInv, SetupIdt PROVE TableInv'
    OBVIOUS
  <1>1. /\ pc = "head" /\ pc' = "setup_idt" /\ idt' = idt /\ k' = k /\ halfDone' = halfDone
        /\ k = 0 /\ ~halfDone /\ idt \in [Gates256 -> [eax : Int, edx : Int]]
    BY DEF SetupIdt, TableInv
  <1>2. PICK u \in Garbage :
           LET d == make_gate_descriptor(Address["ignore_int"],
                                         u * Half + KernelCode, 142 * HalfType)
           IN  eax' = d.eax /\ edx' = d.edx
    BY DEF SetupIdt
  <1>3. eax' = Dummy.eax /\ edx' = Dummy.edx
    <2>1. u \in Nat
      BY IdtLayout
    <2> QED
      BY <1>2, <2>1, DummyMade
  <1>4. 0 \in 0..NrGates /\ \A v \in Gates256 : ~(v < 0)
    BY DEF Gates256, NrGates
  <1>5. DummiesUpTo'
    BY <1>1, <1>3, <1>4 DEF DummiesUpTo
  <1> QED
    BY <1>1, <1>3, <1>4, <1>5, DummyLongs DEF TableInv, LoaderPcs, PagePcs

LEMMA InstallIdtTable == TableInv /\ InstallIdt => TableInv'
  <1> SUFFICES ASSUME TableInv, InstallIdt PROVE TableInv'
    OBVIOUS
  <1>1. /\ pc = "setup_idt" /\ pc' = pc /\ eax' = eax /\ edx' = edx
        /\ k < NrGates /\ k \in 0..NrGates /\ halfDone \in BOOLEAN
        /\ idt \in [Gates256 -> [eax : Int, edx : Int]]
        /\ eax = Dummy.eax /\ edx = Dummy.edx /\ eax \in Int /\ edx \in Int
        /\ \A v \in Gates256 : v < k => idt[v] = Dummy
        /\ halfDone => idt[k].eax = Dummy.eax
    BY DummyLongs DEF InstallIdt, TableInv, DummiesUpTo, cpu
  <1>2. k \in Gates256 /\ k + 1 \in 0..NrGates
    BY <1>1 DEF Gates256, NrGates
  <1>3. CASE ~halfDone
    <2>1. StoreFirst(k) /\ k' = k
      BY <1>3 DEF InstallIdt
    <2>2. /\ idt' \in [Gates256 -> [eax : Int, edx : Int]]
          /\ idt'[k].eax = eax /\ halfDone'
          /\ \A w \in Gates256 : w # k => idt'[w] = idt[w]
      BY <1>1, <1>2, <2>1, FirstLong
    <2>3. \A v \in Gates256 : v < k => idt'[v] = Dummy
      <3>1. \A v \in Gates256 : v < k => v # k
        BY <1>1 DEF Gates256, NrGates
      <3> QED
        BY <1>1, <2>2, <3>1
    <2>4. DummiesUpTo'
      BY <1>1, <2>1, <2>2, <2>3 DEF DummiesUpTo
    <2>5. halfDone' \in BOOLEAN
      BY <2>1 DEF StoreFirst
    <2> QED
      BY <1>1, <2>1, <2>2, <2>4, <2>5 DEF TableInv, LoaderPcs, PagePcs
  <1>4. CASE halfDone
    <2>1. StoreSecond(k) /\ k' = k + 1
      BY <1>4 DEF InstallIdt
    <2>2. /\ idt' \in [Gates256 -> [eax : Int, edx : Int]]
          /\ idt'[k] = [eax |-> idt[k].eax, edx |-> edx] /\ ~halfDone'
          /\ \A w \in Gates256 : w # k => idt'[w] = idt[w]
      BY <1>1, <1>2, <2>1, SecondLong
    <2>3. [eax |-> Dummy.eax, edx |-> Dummy.edx] = Dummy
      BY DEF Dummy
    <2>4. \A v \in Gates256 : v < k + 1 => idt'[v] = Dummy
      <3>1. \A v \in Gates256 : v < k + 1 => v = k \/ (v # k /\ v < k)
        BY <1>1 DEF Gates256, NrGates
      <3>2. idt'[k] = Dummy
        BY <1>1, <1>4, <2>2, <2>3
      <3> QED
        BY <1>1, <2>2, <3>1, <3>2
    <2>5. DummiesUpTo'
      BY <1>1, <2>1, <2>2, <2>4 DEF DummiesUpTo
    <2>6. halfDone' \in BOOLEAN
      BY <2>1 DEF StoreSecond
    <2> QED
      BY <1>1, <1>2, <2>1, <2>2, <2>5, <2>6 DEF TableInv, LoaderPcs, PagePcs
  <1> QED
    BY <1>3, <1>4, <1>1

\* The table of setup_idt is one that lidt may load.
LEMMA DummyAllowed == \A v \in Gates256 : idt[v] = Dummy => Allowed(v)
  BY DEF Allowed, Dummy

LEMMA LidtTable == TableInv /\ Lidt => TableInv'
  <1> SUFFICES ASSUME TableInv, Lidt PROVE TableInv'
    OBVIOUS
  <1>1. /\ pc = "setup_idt" /\ pc' = "test_a20" /\ eax' = 0 /\ k = NrGates
        /\ idt' = idt /\ k' = k /\ halfDone' = halfDone
        /\ idt \in [Gates256 -> [eax : Int, edx : Int]] /\ halfDone \in BOOLEAN
        /\ \A v \in Gates256 : v < k => idt[v] = Dummy
        /\ halfDone => k < NrGates
    BY DEF Lidt, TableInv, DummiesUpTo, idtVars
  <1>2. ~halfDone /\ k \in 0..NrGates /\ \A v \in Gates256 : v < k
    BY <1>1 DEF Gates256, NrGates
  <1>3. \A v \in Gates256 : idt'[v] = Dummy
    BY <1>1, <1>2
  <1>4. \A v \in Gates256 : (Allowed(v))'
    BY <1>3 DEF Allowed, Dummy
  <1> QED
    BY <1>1, <1>2, <1>3, <1>4 DEF TableInv, LoaderPcs, PagePcs

LEMMA CallTrapInitTable == TableInv /\ CallTrapInit => TableInv'
  <1> SUFFICES ASSUME TableInv, CallTrapInit PROVE TableInv'
    OBVIOUS
  <1>1. /\ pc = "main" /\ pc' = "load" /\ k' = 0 /\ idt' = idt /\ halfDone' = halfDone
        /\ eax' = eax /\ eax \in Int
        /\ idt \in [Gates256 -> [eax : Int, edx : Int]] /\ halfDone \in BOOLEAN
        /\ ~halfDone
        /\ \A v \in Gates256 : idt[v] = Dummy
    BY DEF CallTrapInit, TableInv, cpu
  <1>2. 0 \in 0..NrGates /\ 0 <= Len(TrapCalls) /\ \A j \in 1..0 : FALSE
    BY CallsAre DEF NrGates
  <1>3. \A v \in Gates256 : (Allowed(v))'
    BY <1>1 DEF Allowed, Dummy
  <1>4. \A v \in Gates256 : (Filled(v, 0))'
    BY <1>1, <1>2 DEF Filled
  <1> QED
    BY <1>1, <1>2, <1>3, <1>4 DEF TableInv, LoaderPcs, PagePcs, Filled
\* A call leaves the gates of other vectors as they are, and its own is as it made it.
LEMMA NextFilled ==
    ASSUME NEW n \in 0..48, NEW w
    PROVE  /\ TrapCalls[n + 1].v # w /\ Filled(w, n) /\ idt'[w] = idt[w] => (Filled(w, n + 1))'
           /\ TrapCalls[n + 1].v = w /\ idt'[w] = GateOf(TrapCalls[n + 1]) => (Filled(w, n + 1))'
  <1>1. /\ n + 1 \in 1..(n + 1)
        /\ \A i \in 1..n : i \in 1..(n + 1) /\ n + 1 \in (i + 1)..(n + 1)
                           /\ \A j \in (i + 1)..n : j \in (i + 1)..(n + 1)
        /\ \A i \in 1..(n + 1) : i # n + 1 => i \in 1..n
    OBVIOUS
  <1>2. ASSUME TrapCalls[n + 1].v # w, Filled(w, n), idt'[w] = idt[w]
        PROVE  (Filled(w, n + 1))'
    <2>1. (\A i \in 1..(n + 1) : TrapCalls[i].v # w) => idt[w] = Dummy
      BY <1>1, <1>2 DEF Filled
    <2>2. ASSUME NEW i \in 1..(n + 1), TrapCalls[i].v = w, LastFor(i, n + 1)
          PROVE  idt[w] = GateOf(TrapCalls[i])
      <3>1. i \in 1..n /\ LastFor(i, n)
        BY <1>1, <1>2, <2>2 DEF LastFor
      <3> QED
        BY <1>2, <2>2, <3>1 DEF Filled
    <2> QED
      BY <1>2, <2>1, <2>2 DEF Filled
  <1>3. ASSUME TrapCalls[n + 1].v = w, idt'[w] = GateOf(TrapCalls[n + 1])
        PROVE  (Filled(w, n + 1))'
    <2>1. ASSUME NEW i \in 1..(n + 1), TrapCalls[i].v = w, LastFor(i, n + 1)
          PROVE  i = n + 1
      BY <1>1, <1>3, <2>1 DEF LastFor
    <2>2. ~ \A i \in 1..(n + 1) : TrapCalls[i].v # w
      BY <1>1, <1>3
    <2> QED
      BY <1>3, <2>1, <2>2 DEF Filled
  <1> QED
    BY <1>2, <1>3

\* The call that is made when k have been.
LEMMA CurrentCall ==
    ASSUME k \in 0..NrGates, k < Len(TrapCalls)
    PROVE  /\ k \in 0..48 /\ k + 1 \in 1..49 /\ k + 1 \in DOMAIN TrapCalls
           /\ TrapCalls[k + 1] \in CallSet /\ TrapCalls[k + 1].v \in Gates256
           /\ k + 1 \in 0..NrGates /\ k + 1 <= Len(TrapCalls)
  <1>1. k \in 0..48 /\ k + 1 \in 1..49 /\ k + 1 \in 0..NrGates /\ k + 1 <= Len(TrapCalls)
    BY CallsAre DEF NrGates
  <1> QED
    BY <1>1, CallsAre, CallVector

LEMMA LoadGateTable == TableInv /\ LoadGate => TableInv'
  <1> SUFFICES ASSUME TableInv, LoadGate PROVE TableInv'
    OBVIOUS
  <1>1. /\ pc = "load" /\ pc' = "trap_init" /\ k < Len(TrapCalls)
        /\ k \in 0..NrGates /\ k' = k /\ idt' = idt /\ halfDone' = halfDone /\ ~halfDone
        /\ idt \in [Gates256 -> [eax : Int, edx : Int]]
        /\ \A v \in Gates256 : Allowed(v)
        /\ \A v \in Gates256 : Filled(v, k)
    BY DEF LoadGate, TableInv, LoaderPcs, PagePcs
  <1> DEFINE c == TrapCalls[k + 1]
  <1>2. c \in CallSet
    BY <1>1, CurrentCall
  <1>3. eax' = GateOf(c).eax /\ edx' = GateOf(c).edx /\ eax' \in Int
    BY <1>2, GateMade DEF LoadGate
  <1>4. \A v \in Gates256 : (Allowed(v))' /\ (Filled(v, k))'
    BY <1>1 DEF Allowed, Filled
  <1>5. CallInProgress'
    BY <1>1, <1>3, <1>4 DEF CallInProgress
  <1>6. halfDone' \in BOOLEAN
    BY <1>1 DEF TableInv
  <1> QED
    BY <1>1, <1>3, <1>4, <1>5, <1>6 DEF TableInv, LoaderPcs, PagePcs

LEMMA SetGateTable == TableInv /\ SetGate => TableInv'
  <1> SUFFICES ASSUME TableInv, SetGate PROVE TableInv'
    OBVIOUS
  <1> DEFINE c == TrapCalls[k + 1]
             u == c.v
  <1>1. /\ pc = "trap_init" /\ edx' = edx /\ eax' = eax /\ eax \in Int
        /\ k < Len(TrapCalls) /\ k \in 0..NrGates
        /\ idt \in [Gates256 -> [eax : Int, edx : Int]]
        /\ \A v \in Gates256 : Allowed(v)
        /\ eax = GateOf(c).eax /\ edx = GateOf(c).edx
        /\ \A v \in Gates256 : (halfDone /\ v = u) \/ Filled(v, k)
        /\ halfDone => idt[u].eax = eax
    BY DEF SetGate, TableInv, CallInProgress, LoaderPcs, PagePcs, cpu
  <1>2. /\ k \in 0..48 /\ k + 1 \in DOMAIN TrapCalls /\ c \in CallSet /\ u \in Gates256
        /\ k + 1 \in 0..NrGates /\ k + 1 <= Len(TrapCalls)
    BY <1>1, CurrentCall
  <1>3. edx \in Int /\ edx \in {143 * HalfType, 239 * HalfType}
    BY <1>1, <1>2, GateMade
  <1>4. CASE ~halfDone
    <2>1. StoreFirst(u) /\ k' = k /\ pc' = pc
      BY <1>4 DEF SetGate
    <2>2. /\ idt' \in [Gates256 -> [eax : Int, edx : Int]]
          /\ idt'[u].eax = eax /\ idt'[u].edx = idt[u].edx /\ halfDone'
          /\ \A w \in Gates256 : w # u => idt'[w] = idt[w]
      BY <1>1, <1>2, <2>1, FirstLong
    <2>3. ASSUME NEW v \in Gates256 PROVE (Allowed(v))'
      <3>1. CASE v = u
        <4>1. idt[v].edx \in {142 * HalfType, 143 * HalfType, 239 * HalfType}
          BY <1>1 DEF Allowed
        <4>2. idt'[v].edx = idt[v].edx /\ idt'[v].eax = GateOf(c).eax
          BY <1>1, <2>2, <3>1
        <4> QED
          BY <1>2, <3>1, <4>1, <4>2 DEF Allowed
      <3>2. CASE v # u
        BY <1>1, <2>2, <3>2 DEF Allowed
      <3> QED
        BY <3>1, <3>2
    <2>4. ASSUME NEW v \in Gates256, v # u PROVE (Filled(v, k))'
      BY <1>1, <1>4, <2>1, <2>2, <2>4 DEF Filled
    <2>5. CallInProgress'
      BY <1>1, <2>1, <2>2, <2>4 DEF CallInProgress
    <2>6. halfDone' \in BOOLEAN
      BY <2>1 DEF StoreFirst
    <2> QED
      BY <1>1, <2>1, <2>2, <2>3, <2>5, <2>6 DEF TableInv, LoaderPcs, PagePcs
  <1>5. CASE halfDone
    <2>1. StoreSecond(u) /\ k' = k + 1 /\ pc' = "load"
      BY <1>5 DEF SetGate
    <2>2. /\ idt' \in [Gates256 -> [eax : Int, edx : Int]]
          /\ idt'[u] = [eax |-> idt[u].eax, edx |-> edx] /\ ~halfDone'
          /\ \A w \in Gates256 : w # u => idt'[w] = idt[w]
      BY <1>1, <1>2, <1>3, <2>1, SecondLong
    <2>3. idt'[u] = GateOf(c)
      <3>1. GateOf(c) = [eax |-> GateOf(c).eax, edx |-> GateOf(c).edx]
        BY DEF GateOf
      <3> QED
        BY <1>1, <1>5, <2>2, <3>1
    <2>4. ASSUME NEW v \in Gates256 PROVE (Allowed(v))'
      <3>1. CASE v = u
        BY <1>1, <1>2, <1>3, <1>5, <2>2, <3>1 DEF Allowed
      <3>2. CASE v # u
        BY <1>1, <2>2, <3>2 DEF Allowed
      <3> QED
        BY <3>1, <3>2
    <2>7. PICK n \in 0..48 : n = k
      BY <1>2
    <2>8. k' = n + 1 /\ c = TrapCalls[n + 1]
      BY <2>1, <2>7
    <2>5. ASSUME NEW v \in Gates256 PROVE (Filled(v, k))'
      <3>1. (Filled(v, n + 1))'
        <4>1. CASE v = u
          <5>1. TrapCalls[n + 1].v = v /\ idt'[v] = GateOf(TrapCalls[n + 1])
            BY <2>3, <2>8, <4>1
          <5> QED
            BY <5>1, NextFilled
        <4>2. CASE v # u
          <5>1. TrapCalls[n + 1].v # v /\ Filled(v, n) /\ idt'[v] = idt[v]
            BY <1>1, <2>2, <2>7, <2>8, <4>2
          <5> QED
            BY <5>1, NextFilled
        <4> QED
          BY <4>1, <4>2
      <3> QED
        BY <2>8, <3>1 DEF Filled
    <2>6. halfDone' \in BOOLEAN
      BY <2>1 DEF StoreSecond
    <2> QED
      BY <1>1, <1>2, <2>1, <2>2, <2>4, <2>5, <2>6 DEF TableInv, LoaderPcs, PagePcs
  <1> QED
    BY <1>4, <1>5

LEMMA UnmaskTable == TableInv /\ Unmask => TableInv'
  <1> SUFFICES ASSUME TableInv, Unmask PROVE TableInv'
    OBVIOUS
  <1>1. UNCHANGED idtVars /\ pc' = pc /\ eax' = eax /\ eax \in Int
    BY DEF Unmask, TableInv
  <1> QED
    BY <1>1, TableKept

LEMMA TtyPhasesTable ==
    ASSUME TableInv, UNCHANGED idtVars, eax' = eax,
           \/ pc = "load" /\ k = Len(TrapCalls) /\ pc' = "tty_init"
           \/ pc = "main" /\ pc' = "tty_init"
           \/ pc = "tty_init" /\ pc' = "idle"
    PROVE  TableInv'
  <1>1. /\ idt' = idt /\ k' = k /\ halfDone' = halfDone
        /\ pc \in {"load", "main", "tty_init"} /\ pc' \in {"tty_init", "idle"}
    BY DEF idtVars
  <1>2. /\ \A v \in Gates256 : Allowed(v)
        /\ k = NrGates \/ (k = Len(TrapCalls) /\ \A v \in Gates256 : Filled(v, k))
        /\ ~halfDone
    BY <1>1 DEF TableInv, LoaderPcs, PagePcs
  <1>3. \A v \in Gates256 : (Allowed(v))'
    BY <1>1, <1>2 DEF Allowed
  <1>4. \A v, n : Filled(v, n) => (Filled(v, n))'
    BY <1>1 DEF Filled
  <1> QED
    BY <1>1, <1>2, <1>3, <1>4 DEF TableInv, LoaderPcs, PagePcs
-----------------------------------------------------------------------------
(***************************************************************************)
(* The chips, step by step.                                                *)
(***************************************************************************)
\* The phases of each part.
LEMMA Phases ==
    /\ LoaderPcs \ {"end_move"} = {"boot", "go", "read_setup", "read_system", "do_move"}
    /\ MainPcs \ {"main"} = {"load", "trap_init", "tty_init", "idle"}
    /\ PagePcs \cup MainPcs = {"after_page_tables", "clear", "directory", "fill", "paging",
                               "main", "load", "trap_init", "tty_init", "idle"}
    /\ {"end_move"} \cup HeadPcs \cup MainPcs =
          {"end_move", "head", "setup_idt", "test_a20", "after_page_tables", "clear",
           "directory", "fill", "paging", "main", "load", "trap_init", "tty_init", "idle"}
    /\ {"end_move", "main"} \cup HeadPcs =
          {"end_move", "head", "setup_idt", "test_a20", "after_page_tables", "clear",
           "directory", "fill", "paging", "main"}
  BY DEF LoaderPcs, MainPcs, PagePcs, HeadPcs

\* A step that leaves the chips alone and stays on its side of each of them.
LEMMA ChipsKept ==
    ASSUME ChipInv, df' \in BOOLEAN, UNCHANGED <<intFlag, a20, gdtr, idtr, masked, k>>,
           \/ pc' = pc
           \/ /\ pc \in LoaderPcs \ {"do_move", "end_move"}
              /\ pc' \in LoaderPcs \ {"do_move", "end_move"}
           \/ pc = "end_move" /\ pc' = "head"
           \/ pc = "test_a20" /\ pc' = "after_page_tables" /\ a20 = "on"
           \/ pc \in PagePcs /\ pc' \in PagePcs \cup {"main"}
           \/ pc \in {"load", "trap_init"} /\ pc' \in {"load", "trap_init"}
           \/ pc = "load" /\ k = Len(TrapCalls) /\ pc' = "tty_init"
           \/ pc = "main" /\ pc' = "tty_init"
    PROVE  ChipInv'
  <1>1. LoaderPcs \ {"do_move", "end_move"} = {"boot", "go", "read_setup", "read_system"}
    BY DEF LoaderPcs
  <1> QED
    BY <1>1, Phases DEF ChipInv, PagePcs

LEMMA SaveParametersChips ==
    ChipInv /\ SaveParameters /\ UNCHANGED idtVars => ChipInv'
  <1> SUFFICES ASSUME ChipInv, SaveParameters, k' = k PROVE ChipInv'
    BY DEF idtVars
  <1>1. /\ pc = "read_system" /\ pc' = "do_move" /\ ~intFlag' /\ df' = FALSE
        /\ UNCHANGED <<a20, gdtr, idtr, masked>>
        /\ pc' \notin {"boot", "go", "read_setup", "read_system", "idle"}
    BY DEF SaveParameters
  <1>2. intFlag' = FALSE
    BY DEF SaveParameters
  <1>3. intFlag' = (pc' \in {"boot", "go", "read_setup", "read_system", "idle"})
    <2>1. (pc' \in {"boot", "go", "read_setup", "read_system", "idle"}) = FALSE
      BY <1>1
    <2> QED
      BY <1>2, <2>1
  <1>4. idtr' = "bios" /\ gdtr' = "bios"
    BY <1>1, Phases DEF ChipInv
  <1> QED
    BY <1>1, <1>3, <1>4, Phases DEF ChipInv

LEMMA LoadTablesChips ==
    ChipInv /\ LoadTables /\ UNCHANGED idtVars => ChipInv'
  BY Phases DEF ChipInv, LoadTables, idtVars, Lines8259

LEMMA EnterProtectedChips ==
    ChipInv /\ EnterProtected /\ UNCHANGED idtVars => ChipInv'
  BY Phases DEF ChipInv, EnterProtected, idtVars

LEMMA LineChips ==
    ChipInv /\ A20Enabled /\ UNCHANGED idtVars => ChipInv'
  BY Phases DEF ChipInv, A20Enabled, idtVars

LEMMA SetupIdtChips == ChipInv /\ SetupIdt => ChipInv'
  BY Phases DEF ChipInv, SetupIdt

LEMMA LidtChips == ChipInv /\ Lidt => ChipInv'
  BY Phases DEF ChipInv, Lidt, idtVars

LEMMA CallTrapInitChips == ChipInv /\ CallTrapInit => ChipInv'
  BY Phases DEF ChipInv, CallTrapInit, cpu

LEMMA SetGateChips == TableInv /\ ChipInv /\ SetGate => ChipInv'
  <1> SUFFICES ASSUME TableInv, ChipInv, SetGate PROVE ChipInv'
    OBVIOUS
  <1>1. /\ pc = "trap_init" /\ k \in Int
        /\ UNCHANGED <<df, intFlag, a20, gdtr, idtr, masked>>
    BY DEF SetGate, TableInv, cpu, NrGates
  <1>2. CASE k' = k /\ pc' = pc
    BY <1>1, <1>2, ChipsKept DEF ChipInv
  <1>3. CASE k' = k + 1 /\ pc' = "load"
    <2>1. k' < BeforeUnmask => k < BeforeUnmask
      BY <1>1, <1>3 DEF BeforeUnmask
    <2> QED
      BY <1>1, <1>3, <2>1, Phases DEF ChipInv
  <1> QED
    BY <1>2, <1>3 DEF SetGate

LEMMA UnmaskChips == ChipInv /\ Unmask => ChipInv'
  <1> SUFFICES ASSUME ChipInv, Unmask PROVE ChipInv'
    OBVIOUS
  <1>1. /\ pc = "load" /\ k = BeforeUnmask /\ pc' = pc /\ k' = k
        /\ UNCHANGED <<df, intFlag, a20, gdtr, idtr>>
        /\ masked' = masked \ {34} \/ masked' = masked \ {45}
        /\ ~(k' < BeforeUnmask)
    BY DEF Unmask, idtVars, BeforeUnmask
  <1> QED
    BY <1>1, Phases DEF ChipInv

LEMMA TtyInitChips == ChipInv /\ TtyInit => ChipInv'
  BY Phases DEF ChipInv, TtyInit, idtVars
-----------------------------------------------------------------------------
(***************************************************************************)
(* The words of the page tables, step by step.                             *)
(***************************************************************************)
LEMMA TableWords ==
    /\ Entries \in Nat /\ Entries >= 8 /\ Entries % 4 = 0 /\ Tables = 4
    /\ EarlyWords \in Nat /\ 0 < EarlyWords /\ EarlyWords <= Entries
    /\ LateWords \in Nat /\ 0 < LateWords
    /\ pg(Tables) = 5 * Entries /\ (Tables + 1) * Entries = 5 * Entries
    /\ pg(3) = 4 * Entries
    /\ Words = 0..(5 * Entries + LateWords - 1)
  <1>1. /\ Entries \in Nat /\ Entries >= 8 /\ Entries % 4 = 0 /\ EarlyWords \in 1..Entries
        /\ LateWords \in Nat \ {0} /\ Tables = 4
    BY HeadSizes DEF Tables
  <1>2. pg(Tables) = 5 * Entries /\ (Tables + 1) * Entries = 5 * Entries /\ pg(3) = 4 * Entries
    BY <1>1 DEF pg
  <1> QED
    BY <1>1, <1>2 DEF Words

LEMMA Values ==
    /\ Code \in WordValues /\ Other \in WordValues /\ Zero \in WordValues
    /\ \A n \in Nat : Num(n) \in WordValues /\ Page(n) \in WordValues
    /\ \A n \in Nat : Code # Zero /\ Page(n) # Zero /\ Page(n) # Code
  BY DEF Code, Other, Zero, Num, Page, WordValues

\* What a step that leaves the words alone keeps of them.
LEMMA WordsKept ==
    ASSUME WordsInv, UNCHANGED <<low, ecx, paging>>,
           \/ pc' = pc /\ UNCHANGED <<edi, stack>> /\ (pc = "fill" => df' = df /\ eax' = eax)
           \/ pc \in LoaderPcs /\ pc' \in LoaderPcs
           \/ pc \in {"head", "setup_idt"} /\ pc' \in {"setup_idt", "test_a20"}
           \/ pc \in MainPcs /\ pc' \in MainPcs
    PROVE  WordsInv'
  <1>1. /\ LoaderPcs = {"boot", "go", "read_setup", "read_system", "do_move", "end_move"}
        /\ MainPcs = {"main", "load", "trap_init", "tty_init", "idle"}
    BY DEF LoaderPcs, MainPcs
  <1>2. low' = low /\ ecx' = ecx /\ paging' = paging
    OBVIOUS
  <1>3. CASE pc' = pc /\ UNCHANGED <<edi, stack>> /\ (pc = "fill" => df' = df /\ eax' = eax)
    BY <1>2, <1>3 DEF WordsInv
  <1>4. CASE pc \in LoaderPcs /\ pc' \in LoaderPcs
    BY <1>1, <1>2, <1>4 DEF WordsInv
  <1>5. CASE pc \in {"head", "setup_idt"} /\ pc' \in {"setup_idt", "test_a20"}
    BY <1>1, <1>2, <1>5 DEF WordsInv
  <1>6. CASE pc \in MainPcs /\ pc' \in MainPcs
    BY <1>1, <1>2, <1>6 DEF WordsInv
  <1> QED
    BY <1>3, <1>4, <1>5, <1>6

\* A word of the image lies in a sector of the kernel.
LEMMA SectorOf ==
    ASSUME size \in SystemSectors, NEW w \in Words
    PROVE  w \div SectorWords \in 0..(size - 1)
  <1>1. /\ size \in Nat /\ SectorWords \in Nat \ {0} /\ w \in Nat
        /\ w < size * SectorWords
    <2>1. /\ size \in 1..SYS_SIZE_SECTOR /\ SectorWords \in Nat \ {0}
          /\ (Tables + 1) * Entries + LateWords <= size * SectorWords
      BY MemoryMap, SectorLayout
    <2>2. size \in Nat
      BY <2>1, MemoryMap
    <2>3. size * SectorWords \in Nat
      BY <2>1, <2>2
    <2> DEFINE m == size * SectorWords
    <2> HIDE DEF m
    <2>4. m \in Nat /\ 5 * Entries + LateWords <= m
      BY <2>1, <2>3, TableWords DEF m
    <2>5. w \in Nat /\ w < m
      BY <2>4, TableWords
    <2> QED
      BY <2>1, <2>2, <2>5 DEF m
  <1> DEFINE q == w \div SectorWords
  <1>2. q \in Nat /\ q * SectorWords <= w
    BY <1>1, DivTimes
  <1> HIDE DEF q
  <1>3. q < size
    <2>1. SUFFICES ASSUME size <= q PROVE FALSE
      BY <1>1, <1>2
    <2>2. size * SectorWords <= q * SectorWords
      BY <1>1, <1>2, <2>1, MulMono
    <2>3. size * SectorWords \in Int /\ q * SectorWords \in Int
      BY <1>1, <1>2
    <2> QED
      BY <1>1, <1>2, <2>2, <2>3
  <1> QED
    BY <1>1, <1>2, <1>3 DEF q

LEMMA EnterHeadWords == LoaderInv /\ WordsInv /\ EnterHead => WordsInv'
  <1> SUFFICES ASSUME LoaderInv, WordsInv, EnterHead PROVE WordsInv'
    OBVIOUS
  <1>1. /\ pc = "end_move" /\ pc' = "head" /\ low' = [w \in Words |-> Loaded(w)]
        /\ ecx' = ecx /\ paging' = paging /\ ecx \in 0..((Tables + 1) * Entries)
        /\ size \in SystemSectors /\ \A n \in 0..(size - 1) : mem[n] = System(n)
    BY DEF EnterHead, EnterProtected, WordsInv, MainPcs, LoaderInv, LoaderTypeOK, LoopsAgree
  <1>2. ASSUME NEW w \in Words PROVE Loaded(w) = ImageWord(w) /\ ImageWord(w) \in WordValues
    BY <1>1, SectorOf, Values DEF Loaded, System, ImageWord
  <1> QED
    BY <1>1, <1>2 DEF WordsInv, MainPcs

LEMMA TestA20Words == TableInv /\ WordsInv /\ TestA20 => WordsInv'
  <1> SUFFICES ASSUME TableInv, WordsInv, TestA20 PROVE WordsInv'
    OBVIOUS
  <1>1. /\ pc = "test_a20" /\ pc' \in {"test_a20", "after_page_tables"}
        /\ eax' = (eax + 1) % Numbers /\ ecx' = ecx /\ paging' = paging
        /\ low' = low \/ low' = [low EXCEPT ![0] = Num(eax')]
        /\ low \in [Words -> WordValues] /\ ecx \in 0..((Tables + 1) * Entries)
        /\ \A w \in Words \ {0} : low[w] = ImageWord(w)
    BY DEF TestA20, WordsInv, MainPcs
  <1>2. eax' \in Nat
    <2>1. eax \in Int /\ Numbers \in Nat \ {0}
      BY HeadSizes DEF TableInv
    <2> QED
      BY <1>1, <2>1
  <1>3. /\ low' \in [Words -> WordValues]
        /\ \A w \in Words \ {0} : low'[w] = ImageWord(w)
    BY <1>1, <1>2, Values
  <1> QED
    BY <1>1, <1>3 DEF WordsInv, MainPcs

LEMMA AfterPageTablesWords == WordsInv /\ AfterPageTables => WordsInv'
  <1>1. (Tables + 1) * Entries \in 0..((Tables + 1) * Entries)
    BY TableWords
  <1> QED
    BY <1>1 DEF WordsInv, AfterPageTables, MainPcs

LEMMA ClearWords == WordsInv /\ Clear => WordsInv'
  <1> SUFFICES ASSUME WordsInv, Clear PROVE WordsInv'
    OBVIOUS
  <1>1. /\ pc = "clear" /\ pc' = "directory" /\ ecx = 5 * Entries /\ ecx' = 0
        /\ low' = [w \in Words |-> IF w < ecx \div 4 THEN Zero ELSE low[w]]
        /\ \A w \in Words \ {0} : low[w] = ImageWord(w)
        /\ paging' = paging /\ stack' = stack
        /\ stack = <<"main", "L6", 0, 0, 0>>
    BY TableWords DEF Clear, WordsInv, MainPcs
  <1>2. Entries <= ecx \div 4 /\ ecx \div 4 <= 5 * Entries /\ ecx \div 4 \in Nat
    BY <1>1, TableWords
  <1> DEFINE q == ecx \div 4
  <1> HIDE DEF q
  <1>3. ASSUME NEW w \in Words
        PROVE  low'[w] = IF w < pg(Tables) THEN Zero ELSE Code
    <2>1. low'[w] = IF w < q THEN Zero ELSE low[w]
      BY <1>1 DEF q
    <2>2. w \in Nat /\ q \in Nat /\ Entries <= q /\ q <= 5 * Entries
      BY <1>2, TableWords DEF q
    <2>3. CASE w < q
      BY <2>1, <2>2, <2>3, TableWords
    <2>4. CASE ~(w < q)
      <3>1. w \in Words \ {0} /\ ~(w < EarlyWords)
        BY <2>2, <2>4, TableWords
      <3> QED
        BY <1>1, <2>1, <2>2, <2>4, <3>1, TableWords DEF ImageWord
    <2> QED
      BY <2>3, <2>4
  <1>4. low' \in [Words -> WordValues]
    <2>1. DOMAIN low' = Words /\ low' = [w \in Words |-> low'[w]]
      BY <1>1
    <2> QED
      BY <1>3, <2>1, Values
  <1>5. 0 \in 0..((Tables + 1) * Entries)
    BY TableWords
  <1> QED
    BY <1>1, <1>3, <1>4, <1>5 DEF WordsInv, MainPcs
LEMMA DirectoryWords == WordsInv /\ Directory => WordsInv'
  <1> SUFFICES ASSUME WordsInv, Directory PROVE WordsInv'
    OBVIOUS
  <1> DEFINE e == 4 * Entries - 1
  <1>1. /\ pc = "directory" /\ pc' = "fill" /\ df' = TRUE /\ ecx' = ecx /\ stack' = stack
        /\ paging' = paging
        /\ low' = [w \in Words |-> IF w < Tables THEN Page(w + 1) ELSE low[w]]
        /\ \A w \in Words : low[w] = IF w < pg(Tables) THEN Zero ELSE Code
    BY DEF Directory, WordsInv
  <1>2. /\ eax' = e /\ edi' = Entries + e /\ e \in 0..(Tables * Entries - 1)
        /\ e \in Nat
    BY TableWords DEF Directory
  <1>3. ASSUME NEW w \in Words PROVE low'[w] = FilledWord(w, e) /\ low'[w] \in WordValues
    <2>1. w \in Nat /\ low'[w] = IF w < 4 THEN Page(w + 1)
                                 ELSE IF w < 5 * Entries THEN Zero ELSE Code
      BY <1>1, TableWords
    <2>2. ~(w >= 5 * Entries) => ~(w - Entries > e)
      BY <2>1, TableWords
    <2>3. w < 4 => w < 5 * Entries
      BY <2>1, TableWords
    <2>4. w < Entries => w < 5 * Entries
      BY <2>1, TableWords
    <2>5. w + 1 \in Nat
      BY <2>1
    <2>6. low'[w] = FilledWord(w, e)
      <3> HIDE DEF e
      <3>1. FilledWord(w, e) = IF w < 4 THEN Page(w + 1)
                               ELSE IF w < Entries THEN Zero
                               ELSE IF w >= 5 * Entries THEN Code
                               ELSE IF w - Entries > e THEN Page(w - Entries) ELSE Zero
        BY TableWords DEF FilledWord
      <3>2. w >= 5 * Entries <=> ~(w < 5 * Entries)
        BY <2>1, TableWords
      <3> QED
        BY <2>1, <2>2, <2>3, <2>4, <3>1, <3>2
    <2> QED
      BY <2>1, <2>5, <2>6, Values
  <1> HIDE DEF e
  <1>4. low' \in [Words -> WordValues]
    BY <1>1, <1>3
  <1>5. (\A w \in Words : low[w] = FilledWord(w, eax))'
    BY <1>2, <1>3 DEF FilledWord
  <1> QED
    BY <1>1, <1>2, <1>4, <1>5 DEF WordsInv, MainPcs

LEMMA FillWords == WordsInv /\ Fill => WordsInv'
  <1> SUFFICES ASSUME WordsInv, Fill PROVE WordsInv'
    OBVIOUS
  <1>1. /\ pc = "fill" /\ df /\ df' = df /\ ecx' = ecx /\ stack' = stack /\ paging' = paging
        /\ low' = [low EXCEPT ![edi] = Page(eax)]
        /\ low \in [Words -> WordValues]
        /\ eax \in 0..(Tables * Entries - 1) /\ edi = Entries + eax
        /\ \A w \in Words : low[w] = FilledWord(w, eax)
        /\ eax' = eax - 1 /\ edi' = edi + (-1)
        /\ pc' = IF eax - 1 >= 0 THEN "fill" ELSE "paging"
    BY DEF Fill, WordsInv
  <1>2. /\ eax \in Nat /\ eax < 4 * Entries /\ edi \in Words /\ edi \in Nat
        /\ edi' = Entries + (eax - 1)
    BY <1>1, TableWords
  <1>3. ASSUME NEW w \in Words PROVE low'[w] = FilledWord(w, eax - 1)
    <2>1. w \in Nat
      BY TableWords
    <2>2. CASE w = edi
      <3>1. /\ ~(w < 4) /\ ~(w < Entries) /\ ~(w >= 5 * Entries) /\ w - Entries = eax
            /\ w - Entries > eax - 1
        BY <1>1, <1>2, <2>2, TableWords
      <3>2. low'[w] = Page(eax)
        BY <1>1, <1>2, <2>2
      <3> QED
        BY <3>1, <3>2, TableWords DEF FilledWord
    <2>3. CASE w # edi
      <3>1. w - Entries > eax <=> w - Entries > eax - 1
        BY <1>1, <1>2, <2>1, <2>3, TableWords
      <3>2. low'[w] = FilledWord(w, eax)
        BY <1>1, <1>2, <2>3
      <3> QED
        BY <3>1, <3>2 DEF FilledWord
    <2> QED
      BY <2>2, <2>3
  <1>4. low' \in [Words -> WordValues]
    BY <1>1, <1>2, Values
  <1>5. CASE eax - 1 >= 0
    <2>1. eax' \in 0..(Tables * Entries - 1)
      BY <1>1, <1>2, <1>5, TableWords
    <2>2. (\A w \in Words : low[w] = FilledWord(w, eax))'
      BY <1>1, <1>3 DEF FilledWord
    <2> QED
      BY <1>1, <1>2, <1>4, <1>5, <2>1, <2>2 DEF WordsInv, MainPcs
  <1>6. CASE ~(eax - 1 >= 0)
    <2>1. eax - 1 = -1
      BY <1>2, <1>6
    <2>2. (\A w \in Words : low[w] = FilledWord(w, -1))'
      BY <1>3, <2>1 DEF FilledWord
    <2> QED
      BY <1>1, <1>4, <1>6, <2>2 DEF WordsInv, MainPcs
  <1> QED
    BY <1>5, <1>6

LEMMA EnablePagingWords == WordsInv /\ EnablePaging => WordsInv' /\ pc' = "main"
  <1> SUFFICES ASSUME WordsInv, EnablePaging PROVE WordsInv' /\ pc' = "main"
    OBVIOUS
  <1>1. /\ pc = "paging" /\ paging' = TRUE /\ low' = low /\ ecx' = ecx
        /\ stack = <<"main", "L6", 0, 0, 0>> /\ pc' = stack[1]
    BY DEF EnablePaging, WordsInv
  <1>2. pc' = "main"
    BY <1>1
  <1>3. (paging = (pc \in MainPcs))'
    <2>1. pc' \in MainPcs
      BY <1>2 DEF MainPcs
    <2> QED
      BY <1>1, <2>1
  <1> QED
    BY <1>1, <1>2, <1>3 DEF WordsInv, MainPcs
-----------------------------------------------------------------------------
(***************************************************************************)
(* What main reads.                                                        *)
(***************************************************************************)
\* The bytes that setup leaves for the kernel, of those it reads.
LEMMA BytesRead ==
    /\ Parameters[2] = "memory_low" /\ Parameters[3] = "memory_high"
    /\ Parameters[7] = "width" /\ Parameters[14] = "25"
  <1>1. /\ StoresTo(2) = {1} /\ StoresTo(3) = {1} /\ StoresTo(7) = {8} /\ StoresTo(14) = {5}
    BY DEF StoresTo, SetupStores
  <1>2. /\ LastStore(2) = <<2, "memory_low", "memory_high">>
        /\ LastStore(3) = <<2, "memory_low", "memory_high">>
        /\ LastStore(7) = <<6, "mode", "width">>
        /\ LastStore(14) = <<14, "25", "80">>
    <2>1. ASSUME NEW n \in Int PROVE (CHOOSE i \in {n} : \A j \in {n} : j <= i) = n
      OBVIOUS
    <2> QED
      BY <1>1, <2>1 DEF LastStore, SetupStores
  <1> QED
    BY <1>1, <1>2 DEF Parameters
LEMMA SectorOfParameters == LoaderInv /\ pc \in KernelPcs => mem[INITSEG] = ParamSector
  BY DEF LoaderInv, CodeInPlace

LEMMA SizeMemoryMain == LoaderInv /\ MainInv /\ SizeMemory => MainInv'
  <1> SUFFICES ASSUME LoaderInv, MainInv, SizeMemory PROVE MainInv'
    OBVIOUS
  <1>1. pc = "main" /\ pc' = pc /\ screen' = screen /\ memory_end' = EXT_MEM_K
    BY DEF SizeMemory, Sizing, machine
  <1>2. mem[INITSEG] = <<"parameters", 0>>
    BY <1>1, SectorOfParameters DEF KernelPcs, MainPcs, ParamSector
  <1>3. memory_end' = MemoryRead
    BY <1>1, <1>2, BytesRead DEF EXT_MEM_K, At90000, MemoryRead
  <1> QED
    BY <1>1, <1>3 DEF MainInv, MainPcs

LEMMA TtyInitMain == LoaderInv /\ MainInv /\ TtyInit => MainInv'
  <1> SUFFICES ASSUME LoaderInv, MainInv, TtyInit PROVE MainInv'
    OBVIOUS
  <1>1. /\ pc = "tty_init" /\ pc' = "idle" /\ memory_end' = memory_end
        /\ screen' = [columns |-> ORIG_VIDEO_COLS, lines |-> ORIG_VIDEO_LINES]
    BY DEF TtyInit
  <1>2. mem[INITSEG] = <<"parameters", 0>>
    BY <1>1, SectorOfParameters DEF KernelPcs, MainPcs, ParamSector
  <1>3. screen' = ScreenRead
    BY <1>1, <1>2, BytesRead DEF ORIG_VIDEO_COLS, ORIG_VIDEO_LINES, At90000, ScreenRead
  <1>4. DOMAIN screen' = {"columns", "lines"}
    BY <1>3 DEF ScreenRead
  <1> QED
    BY <1>1, <1>3, <1>4 DEF MainInv, MainPcs

LEMMA MainKept ==
    ASSUME MainInv, UNCHANGED mainVars,
           \/ pc' = pc
           \/ pc \notin MainPcs /\ pc' \notin MainPcs \ {"main"}
           \/ pc \in MainPcs /\ ~Sizing /\ pc' \in MainPcs \ {"idle"}
    PROVE  MainInv'
  <1>1. memory_end' = memory_end /\ screen' = screen
    BY DEF mainVars
  <1>2. MainPcs = {"main", "load", "trap_init", "tty_init", "idle"}
    BY DEF MainPcs
  <1> QED
    BY <1>1, <1>2 DEF MainInv, Sizing
-----------------------------------------------------------------------------
(***************************************************************************)
(* The invariant.                                                          *)
(***************************************************************************)
LEMMA InitGood == Init => IInv
  <1> SUFFICES ASSUME Init PROVE IInv
    OBVIOUS
  <1>1. /\ pc = "boot" /\ size \in SystemSectors /\ lba = 0 /\ to = 0 /\ cx = 0
        /\ disk = "idle" /\ eax = 0 /\ df = FALSE /\ intFlag = TRUE /\ a20 \in {"off", "on"}
        /\ gdtr = "bios" /\ idtr = "bios" /\ masked = {}
        /\ mem = [a \in 0..(MemSectors - 1) |->
                     IF a = BOOTSEG THEN <<"bootSect", 0>> ELSE <<"bios", 0>>]
        /\ idt = [v \in 0..(NrGates - 1) |-> [eax |-> 0, edx |-> 0]]
        /\ k = 0 /\ halfDone = FALSE
        /\ low = [w \in Words |-> Other] /\ ecx = 0 /\ paging = FALSE
        /\ memory_end = <<>> /\ screen = [columns |-> "none", lines |-> "none"]
    BY DEF Init, BootInit, BiosLeaves, IdtInit
  <1>2. LoaderInv
    <2>1. /\ BOOTSEG \in 0..(MemSectors - 1) /\ 0 \in 0..(MemSectors - 1) /\ BOOTSEG # 0
          /\ 0 \in 0..SYS_SIZE_SECTOR
      BY MemoryMap
    <2>2. mem \in [0..(MemSectors - 1) -> Content]
      BY <1>1 DEF Content
    <2>3. mem[BOOTSEG] = BootSector /\ mem[0] = Vectors
      BY <1>1, <2>1 DEF BootSector, Vectors
    <2>4. LoaderTypeOK
      BY <1>1, <2>1, <2>2 DEF LoaderTypeOK, LoaderPcs
    <2> QED
      BY <1>1, <2>3, <2>4, LoaderPhases
      DEF LoaderInv, LoaderPcs, CodeInPlace, DiskInUse, LoopsAgree
  <1>3. TableInv
    <2>1. idt \in [Gates256 -> [eax : Int, edx : Int]]
      BY <1>1 DEF Gates256
    <2>2. 0 \in 0..NrGates
      BY DEF NrGates
    <2>3. halfDone \in BOOLEAN /\ ~halfDone /\ eax \in Int
      <3>1. halfDone = FALSE
        BY <1>1
      <3>2. halfDone \in BOOLEAN /\ ~halfDone
        BY <3>1, Zenon
      <3> QED
        BY <1>1, <3>2
    <2>4. /\ pc \in LoaderPcs
          /\ pc \notin {"setup_idt", "test_a20", "main", "load", "trap_init", "tty_init", "idle"}
                       \cup PagePcs
      BY <1>1 DEF LoaderPcs, PagePcs
    <2> QED
      BY <1>1, <2>1, <2>2, <2>3, <2>4 DEF TableInv
  <1>4. ChipInv
    <2>1. intFlag = (pc \in {"boot", "go", "read_setup", "read_system", "idle"})
      BY <1>1
    <2> QED
      BY <1>1, <2>1, Phases DEF ChipInv
  <1>5. WordsInv
    <2>1. low \in [Words -> WordValues] /\ 0 \in 0..((Tables + 1) * Entries)
      BY <1>1, Values, TableWords
    <2>2. (pc \in MainPcs) = FALSE
      BY <1>1 DEF MainPcs
    <2> QED
      BY <1>1, <2>1, <2>2 DEF WordsInv, MainPcs
  <1>6. MainInv
    BY <1>1 DEF MainInv, MainPcs
  <1> QED
    BY <1>2, <1>3, <1>4, <1>5, <1>6 DEF IInv
LEMMA LoadGood == IInv /\ Load => IInv'
  <1> SUFFICES ASSUME IInv, Load PROVE IInv'
    OBVIOUS
  <1>1. LoaderInv /\ TableInv /\ ChipInv /\ WordsInv /\ MainInv
    BY DEF IInv
  <1>2. Loader /\ UNCHANGED idtVars /\ UNCHANGED headVars /\ UNCHANGED mainVars
    BY DEF Load
  <1>3. k' = k /\ low' = low /\ ecx' = ecx /\ edi' = edi /\ paging' = paging /\ stack' = stack
    BY <1>2 DEF idtVars, headVars
  <1>4. LoaderInv'
    BY <1>1, <1>2, MoveBootKeeps, GoReadSetupKeeps, GoReadSystemKeeps, CommandKeeps,
       TransferKeeps, SaveParametersKeeps, MoveKeeps, LoadTablesKeeps DEF Loader
  <1>5. pc \in LoaderPcs /\ pc' \in LoaderPcs /\ eax' = eax
    BY <1>2
    DEF Loader, MoveBoot, GoReadSetup, GoReadSystem, Command, Transfer, SaveParameters, Move,
        LoadTables, Reading, LoaderPcs, cpu
  <1>6. TableInv'
    BY <1>1, <1>2, <1>5, TableKept DEF TableInv
  <1>7. ChipInv'
    <2>1. CASE SaveParameters
      BY <1>1, <1>2, <2>1, SaveParametersChips
    <2>2. CASE LoadTables
      BY <1>1, <1>2, <2>2, LoadTablesChips
    <2>3. CASE ~SaveParameters /\ ~LoadTables
      <3>1. /\ UNCHANGED <<df, intFlag, a20, gdtr, idtr, masked>>
            /\ \/ pc' = pc
               \/ /\ pc \in LoaderPcs \ {"do_move", "end_move"}
                  /\ pc' \in LoaderPcs \ {"do_move", "end_move"}
        BY <1>2, <2>3
        DEF Loader, MoveBoot, GoReadSetup, GoReadSystem, Command, Transfer, Move, Reading,
            LoaderPcs, cpu
      <3>2. df' \in BOOLEAN
        BY <1>1, <3>1 DEF ChipInv
      <3> QED
        BY <1>1, <1>3, <3>1, <3>2, ChipsKept
    <2> QED
      BY <2>1, <2>2, <2>3
  <1>8. WordsInv'
    BY <1>1, <1>3, <1>5, WordsKept
  <1>9. MainInv'
    BY <1>1, <1>2, <1>5, MainKept DEF LoaderPcs, MainPcs
  <1> QED
    BY <1>4, <1>6, <1>7, <1>8, <1>9 DEF IInv

\* What a step keeps that leaves the control point, the registers and all but the
\* loader's state alone.
LEMMA OthersKept ==
    ASSUME IInv, UNCHANGED <<pc, cpu>>, UNCHANGED idtVars, UNCHANGED headVars, UNCHANGED mainVars
    PROVE  TableInv' /\ ChipInv' /\ WordsInv' /\ MainInv'
  <1>1. LoaderInv /\ TableInv /\ ChipInv /\ WordsInv /\ MainInv
    BY DEF IInv
  <1>2. /\ pc' = pc /\ eax' = eax /\ df' = df
        /\ UNCHANGED <<intFlag, a20, gdtr, idtr, masked, k>>
        /\ UNCHANGED <<low, ecx, paging, edi, stack>>
    BY DEF cpu, idtVars, headVars
  <1>3. eax' \in Int /\ df' \in BOOLEAN
    BY <1>1, <1>2 DEF TableInv, ChipInv
  <1>4. TableInv'
    BY <1>1, <1>2, <1>3, TableKept
  <1>5. ChipInv'
    BY <1>1, <1>2, <1>3, ChipsKept
  <1>6. WordsInv'
    BY <1>1, <1>2, WordsKept
  <1>7. MainInv'
    BY <1>1, <1>2, MainKept
  <1> QED
    BY <1>4, <1>5, <1>6, <1>7

LEMMA WaitGood == IInv /\ Wait => IInv'
  <1> SUFFICES ASSUME IInv, Wait PROVE IInv'
    OBVIOUS
  <1>1. LoaderInv'
    BY PollKeeps DEF IInv, Wait
  <1>2. UNCHANGED <<pc, cpu>>
    BY DEF Wait, Poll
  <1> QED
    BY <1>1, <1>2, OthersKept DEF Wait, IInv

LEMMA DriveGood == IInv /\ Drive => IInv'
  <1> SUFFICES ASSUME IInv, Drive PROVE IInv'
    OBVIOUS
  <1>1. LoaderInv'
    BY DriveKeeps DEF IInv, Drive
  <1>2. UNCHANGED <<pc, cpu>>
    BY DEF Drive, DriveReady
  <1> QED
    BY <1>1, <1>2, OthersKept DEF Drive, IInv

LEMMA LineGood == IInv /\ Line => IInv'
  <1> SUFFICES ASSUME IInv, Line PROVE IInv'
    OBVIOUS
  <1>1. LoaderInv /\ TableInv /\ ChipInv /\ WordsInv /\ MainInv
    BY DEF IInv
  <1>2. /\ A20Enabled /\ UNCHANGED bootVars /\ UNCHANGED idtVars /\ UNCHANGED mainVars
        /\ pc' = pc /\ eax' = eax /\ df' = df
        /\ UNCHANGED <<low, ecx, paging, edi, stack>>
    BY DEF Line, A20Enabled, headVars
  <1>3. LoaderInv'
    BY <1>1, <1>2, LoaderKept
  <1>4. TableInv'
    BY <1>1, <1>2, TableKept DEF TableInv
  <1>5. ChipInv'
    BY <1>1, <1>2, LineChips
  <1>6. WordsInv'
    BY <1>1, <1>2, WordsKept
  <1>7. MainInv'
    BY <1>1, <1>2, MainKept
  <1> QED
    BY <1>3, <1>4, <1>5, <1>6, <1>7 DEF IInv
\* The steps of head and main that leave the loader's state alone.
LEMMA KernelPhases ==
    /\ KernelPcs = {"head", "setup_idt", "test_a20", "after_page_tables", "clear", "directory",
                    "fill", "paging", "main", "load", "trap_init", "tty_init", "idle"}
    /\ LoaderPcs = {"boot", "go", "read_setup", "read_system", "do_move", "end_move"}
  BY DEF KernelPcs, HeadPcs, MainPcs, PagePcs, LoaderPcs

LEMMA EnterHeadGood == IInv /\ EnterHead => IInv'
  <1> SUFFICES ASSUME IInv, EnterHead PROVE IInv'
    OBVIOUS
  <1>1. LoaderInv /\ TableInv /\ ChipInv /\ WordsInv /\ MainInv
    BY DEF IInv
  <1>2. /\ EnterProtected /\ UNCHANGED bootVars /\ UNCHANGED idtVars /\ UNCHANGED mainVars
        /\ pc = "end_move" /\ pc' = "head" /\ eax' = eax
    BY DEF EnterHead, EnterProtected
  <1>3. LoaderInv'
    BY <1>1, <1>2, LoaderKept, KernelPhases
  <1>4. TableInv'
    <2>1. pc \in LoaderPcs \cup {"head"} /\ pc' \in LoaderPcs \cup {"head"}
      BY <1>2, KernelPhases
    <2>2. eax' \in Int
      BY <1>1, <1>2 DEF TableInv
    <2> QED
      BY <1>1, <1>2, <2>1, <2>2, TableKept
  <1>5. ChipInv'
    BY <1>1, <1>2, EnterProtectedChips
  <1>6. WordsInv'
    BY <1>1, EnterHeadWords
  <1>7. MainInv'
    BY <1>1, <1>2, MainKept DEF MainPcs
  <1> QED
    BY <1>3, <1>4, <1>5, <1>6, <1>7 DEF IInv

LEMMA GatesGood ==
    IInv /\ ~Sizing /\ Gates /\ UNCHANGED <<bootVars, headVars, mainVars>> => IInv'
  <1> SUFFICES ASSUME IInv, ~Sizing, Gates, UNCHANGED <<bootVars, headVars, mainVars>>
               PROVE  IInv'
    OBVIOUS
  <1>1. LoaderInv /\ TableInv /\ ChipInv /\ WordsInv /\ MainInv
    BY DEF IInv
  <1>2. /\ pc \in KernelPcs /\ pc' \in KernelPcs /\ df' = df
        /\ \/ pc = "head" /\ pc' = "setup_idt"
           \/ pc = "setup_idt" /\ pc' \in {"setup_idt", "test_a20"}
           \/ pc = "main" /\ pc' = "load"
           \/ pc \in {"load", "trap_init"} /\ pc' \in {"load", "trap_init", "tty_init"}
    BY KernelPhases
    DEF Gates, SetupIdt, InstallIdt, Lidt, CallTrapInit, LoadGate, SetGate, Unmask,
        TrapInitReturns, cpu
  <1>3. UNCHANGED <<low, ecx, edi, paging, stack>>
    BY DEF headVars
  <1>4. LoaderInv'
    BY <1>1, <1>2, LoaderKept
  <1>5. TableInv'
    <2>1. CASE TrapInitReturns
      BY <1>1, <2>1, TtyPhasesTable DEF TrapInitReturns, cpu
    <2> QED
      BY <1>1, <2>1, SetupIdtTable, InstallIdtTable, LidtTable, CallTrapInitTable,
         LoadGateTable, SetGateTable, UnmaskTable DEF Gates
  <1>6. ChipInv'
    <2>1. CASE InstallIdt
      <3>1. pc = "setup_idt" /\ pc' = pc /\ UNCHANGED <<df, intFlag, a20, gdtr, idtr, masked>>
        BY <2>1 DEF InstallIdt, cpu
      <3> QED
        BY <1>1, <3>1, Phases DEF ChipInv
    <2>2. CASE LoadGate
      <3>1. /\ pc = "load" /\ pc' = "trap_init"
            /\ UNCHANGED <<df, intFlag, a20, gdtr, idtr, masked, k>>
        BY <2>2 DEF LoadGate
      <3> QED
        BY <1>1, <3>1, ChipsKept DEF ChipInv
    <2>3. CASE TrapInitReturns
      <3>1. /\ pc = "load" /\ pc' = "tty_init" /\ k = Len(TrapCalls)
            /\ UNCHANGED <<df, intFlag, a20, gdtr, idtr, masked, k>>
        BY <2>3 DEF TrapInitReturns, cpu, idtVars
      <3> QED
        BY <1>1, <3>1, ChipsKept DEF ChipInv
    <2> QED
      BY <1>1, <2>1, <2>2, <2>3, SetupIdtChips, LidtChips, CallTrapInitChips, SetGateChips,
         UnmaskChips DEF Gates
  <1>7. WordsInv'
    <2>1. CASE pc \in {"head", "setup_idt"} /\ pc' \in {"setup_idt", "test_a20"}
      BY <1>1, <1>3, <2>1, WordsKept
    <2>2. CASE pc \in MainPcs /\ pc' \in MainPcs
      BY <1>1, <1>3, <2>2, WordsKept
    <2> QED
      BY <1>2, <2>1, <2>2 DEF MainPcs
  <1>8. MainInv'
    BY <1>1, <1>2, MainKept DEF MainPcs
  <1> QED
    BY <1>4, <1>5, <1>6, <1>7, <1>8 DEF IInv

LEMMA PagesGood ==
    IInv /\ Pages /\ UNCHANGED <<bootVars, idtVars, mainVars>> => IInv'
  <1> SUFFICES ASSUME IInv, Pages, UNCHANGED <<bootVars, idtVars, mainVars>> PROVE IInv'
    OBVIOUS
  <1>1. LoaderInv /\ TableInv /\ ChipInv /\ WordsInv /\ MainInv
    BY DEF IInv
  <1>2. UNCHANGED bootVars /\ UNCHANGED idtVars /\ UNCHANGED mainVars /\ k' = k
    BY DEF idtVars
  <1>3. WordsInv'
    BY <1>1, TestA20Words, AfterPageTablesWords, ClearWords, DirectoryWords, FillWords,
       EnablePagingWords DEF Pages
  <1>4. /\ pc \in {"test_a20"} \cup PagePcs /\ pc' \in {"test_a20", "main"} \cup PagePcs
        /\ pc \in PagePcs => pc' \in PagePcs \cup {"main"}
        /\ pc = "test_a20" => pc' \in {"test_a20", "after_page_tables"}
    BY <1>1, EnablePagingWords
    DEF Pages, TestA20, AfterPageTables, Clear, Directory, Fill, EnablePaging, PagePcs
  <1>5. df' \in BOOLEAN /\ UNCHANGED <<intFlag, a20, gdtr, idtr, masked>>
    BY <1>1
    DEF Pages, TestA20, AfterPageTables, Clear, Directory, Fill, EnablePaging, ChipInv, cpu
  <1>6. eax' \in Int
    <2>1. CASE TestA20
      <3>1. eax \in Int /\ Numbers \in Nat \ {0} /\ eax' = (eax + 1) % Numbers
        BY <1>1, <2>1, HeadSizes DEF TableInv, TestA20
      <3> QED
        BY <3>1
    <2>2. CASE AfterPageTables
      BY <1>1, <2>2 DEF AfterPageTables, cpu, TableInv
    <2>3. CASE Clear \/ EnablePaging
      BY <2>3 DEF Clear, EnablePaging
    <2>4. CASE Directory
      BY <2>4, TableWords DEF Directory
    <2>5. CASE Fill
      BY <1>1, <2>5 DEF Fill, TableInv
    <2> QED
      BY <2>1, <2>2, <2>3, <2>4, <2>5 DEF Pages
  <1>7. LoaderInv'
    BY <1>1, <1>2, <1>4, LoaderKept DEF KernelPcs, HeadPcs, MainPcs
  <1>8. TableInv'
    BY <1>1, <1>2, <1>4, <1>6, TableKept
  <1>9. ChipInv'
    <2>1. CASE pc = "test_a20" /\ pc' = "after_page_tables"
      <3>1. TestA20
        BY <2>1 DEF Pages, AfterPageTables, Clear, Directory, Fill, EnablePaging
      <3>2. low'[0] # Num(eax')
        BY <2>1, <3>1 DEF TestA20
      <3>3. a20 = "on"
        <4>1. ASSUME a20 # "on" PROVE FALSE
          <5>1. low' = [low EXCEPT ![0] = Num(eax')]
            BY <3>1, <4>1 DEF TestA20
          <5>2. 0 \in Words /\ DOMAIN low = Words
            BY <1>1, TableWords DEF WordsInv
          <5> QED
            BY <3>2, <5>1, <5>2
        <4> QED
          BY <4>1
      <3> QED
        BY <1>1, <1>2, <1>5, <2>1, <3>3, ChipsKept
    <2>2. CASE pc' = pc \/ (pc \in PagePcs /\ pc' \in PagePcs \cup {"main"})
      BY <1>1, <1>2, <1>5, <2>2, ChipsKept
    <2> QED
      BY <1>4, <2>1, <2>2
  <1>10. MainInv'
    BY <1>1, <1>2, <1>4, MainKept DEF MainPcs, PagePcs
  <1> QED
    BY <1>3, <1>7, <1>8, <1>9, <1>10 DEF IInv
LEMMA SizeMemoryGood == IInv /\ SizeMemory => IInv'
  <1> SUFFICES ASSUME IInv, SizeMemory PROVE IInv'
    OBVIOUS
  <1>1. LoaderInv /\ TableInv /\ ChipInv /\ WordsInv /\ MainInv
    BY DEF IInv
  <1>2. /\ UNCHANGED bootVars /\ UNCHANGED idtVars /\ pc' = pc /\ eax' = eax /\ df' = df
        /\ UNCHANGED <<intFlag, a20, gdtr, idtr, masked, k>>
        /\ UNCHANGED <<low, ecx, edi, paging, stack>>
    BY DEF SizeMemory, machine, cpu, headVars, idtVars
  <1>3. LoaderInv'
    BY <1>1, <1>2, LoaderKept
  <1>4. TableInv'
    BY <1>1, <1>2, TableKept DEF TableInv
  <1>5. ChipInv'
    BY <1>1, <1>2, ChipsKept DEF ChipInv
  <1>6. WordsInv'
    BY <1>1, <1>2, WordsKept
  <1>7. MainInv'
    BY <1>1, SizeMemoryMain
  <1> QED
    BY <1>3, <1>4, <1>5, <1>6, <1>7 DEF IInv

LEMMA SkipTrapInitGood == IInv /\ SkipTrapInit => IInv'
  <1> SUFFICES ASSUME IInv, SkipTrapInit PROVE IInv'
    OBVIOUS
  <1>1. LoaderInv /\ TableInv /\ ChipInv /\ WordsInv /\ MainInv
    BY DEF IInv
  <1>2. /\ UNCHANGED bootVars /\ UNCHANGED idtVars /\ UNCHANGED mainVars
        /\ pc = "main" /\ pc' = "tty_init" /\ ~Sizing /\ eax' = eax /\ df' = df
        /\ UNCHANGED <<intFlag, a20, gdtr, idtr, masked, k>>
        /\ UNCHANGED <<low, ecx, edi, paging, stack>>
    BY DEF SkipTrapInit, cpu, headVars, idtVars
  <1>3. LoaderInv'
    BY <1>1, <1>2, LoaderKept, KernelPhases
  <1>4. TableInv'
    BY <1>1, <1>2, TtyPhasesTable
  <1>5. ChipInv'
    BY <1>1, <1>2, ChipsKept DEF ChipInv
  <1>6. WordsInv'
    BY <1>1, <1>2, WordsKept DEF MainPcs
  <1>7. MainInv'
    BY <1>1, <1>2, MainKept DEF MainPcs
  <1> QED
    BY <1>3, <1>4, <1>5, <1>6, <1>7 DEF IInv

LEMMA TtyInitGood == IInv /\ TtyInit => IInv'
  <1> SUFFICES ASSUME IInv, TtyInit PROVE IInv'
    OBVIOUS
  <1>1. LoaderInv /\ TableInv /\ ChipInv /\ WordsInv /\ MainInv
    BY DEF IInv
  <1>2. /\ UNCHANGED bootVars /\ UNCHANGED idtVars
        /\ pc = "tty_init" /\ pc' = "idle" /\ eax' = eax
        /\ UNCHANGED <<low, ecx, edi, paging, stack>>
    BY DEF TtyInit, headVars
  <1>3. LoaderInv'
    BY <1>1, <1>2, LoaderKept, KernelPhases
  <1>4. TableInv'
    BY <1>1, <1>2, TtyPhasesTable
  <1>5. ChipInv'
    BY <1>1, TtyInitChips
  <1>6. WordsInv'
    BY <1>1, <1>2, WordsKept DEF MainPcs
  <1>7. MainInv'
    BY <1>1, TtyInitMain
  <1> QED
    BY <1>3, <1>4, <1>5, <1>6, <1>7 DEF IInv

LEMMA StepGood == IInv /\ [Next]_vars => IInv'
  <1>1. ASSUME IInv, UNCHANGED vars PROVE IInv'
    <2>1. /\ UNCHANGED <<pc, cpu>> /\ UNCHANGED bootVars /\ UNCHANGED idtVars
          /\ UNCHANGED headVars /\ UNCHANGED mainVars /\ pc' = pc
      BY <1>1 DEF vars, machine
    <2>2. LoaderInv'
      BY <1>1, <2>1, LoaderKept DEF IInv
    <2> QED
      BY <1>1, <2>1, <2>2, OthersKept DEF IInv
  <1>2. IInv /\ Kernel => IInv'
    BY EnterHeadGood, GatesGood, PagesGood, SizeMemoryGood, SkipTrapInitGood, TtyInitGood
    DEF Kernel
  <1> QED
    BY <1>1, <1>2, LoadGood, WaitGood, DriveGood, LineGood DEF Next

\* The invariant holds from the boot sector to the loop of main.
THEOREM StartInvariant == Spec => []IInv
  <1> QED
    BY InitGood, StepGood, PTL DEF Spec

-----------------------------------------------------------------------------
(***************************************************************************)
(* What it says of the start-up.                                           *)
(***************************************************************************)
\* Type correctness: among others, the loader stores within conventional memory
\* and _start within the directory and the four tables (bootSect.asm, setup.asm,
\* head.asm).
THEOREM StartTypeCorrect == Spec => []TypeOK
  <1>1. IInv => TypeOK
    <2> SUFFICES ASSUME IInv PROVE TypeOK
      OBVIOUS
    <2>1. LoaderInv /\ TableInv /\ ChipInv /\ WordsInv /\ MainInv
      BY DEF IInv
    <2>2. BootTypeOK
      BY <2>1 DEF LoaderInv, LoaderTypeOK, BootTypeOK
    <2>3. IdtTypeOK
      <3>1. idt \in [Gates256 -> [eax : Int, edx : Int]] /\ halfDone \in BOOLEAN /\ k \in 0..NrGates
        BY <2>1 DEF TableInv
      <3> QED
        BY <3>1 DEF IdtTypeOK, Gates256
    <2>4. HeadTypeOK
      <3>1. low \in [Words -> WordValues] /\ ecx \in 0..((Tables + 1) * Entries)
        BY <2>1 DEF WordsInv
      <3>2. \A w \in Words : low[w][1] \in {"code", "number", "page", "other"} /\ low[w][2] \in Nat
        BY <3>1 DEF WordValues
      <3>3. pc = "fill" => edi \in Words
        BY <2>1, TableWords DEF WordsInv
      <3>4. paging \in BOOLEAN
        <4>1. (pc \in MainPcs) \in BOOLEAN
          OBVIOUS
        <4>2. paging = (pc \in MainPcs)
          BY <2>1 DEF WordsInv
        <4> QED
          BY <4>1, <4>2, Zenon
      <3> QED
        BY <3>1, <3>2, <3>3, <3>4 DEF HeadTypeOK
    <2>5. /\ df \in BOOLEAN /\ a20 \in {"off", "asked", "on"}
          /\ gdtr \in {"bios", "setup", "head"} /\ idtr \in {"bios", "empty", "idt"}
          /\ masked \subseteq 32..47
      BY <2>1 DEF ChipInv, Lines8259
    <2>6. intFlag \in BOOLEAN
      <3>1. intFlag = (pc \in {"boot", "go", "read_setup", "read_system", "idle"})
        BY <2>1 DEF ChipInv
      <3>2. (pc \in {"boot", "go", "read_setup", "read_system", "idle"}) \in BOOLEAN
        OBVIOUS
      <3> QED
        BY <3>1, <3>2, Zenon
    <2>7. Len(memory_end) \in {0, 2} /\ DOMAIN screen = {"columns", "lines"}
      BY <2>1 DEF MainInv, MemoryRead
    <2> QED
      BY <2>2, <2>3, <2>4, <2>5, <2>6, <2>7 DEF TypeOK, MachineTypeOK
  <1> QED
    BY <1>1, StartInvariant, PTL

\* The instructions that are executed are those that were written for it,
\* whatever has been moved over memory (bootSect.asm, setup.asm, head.asm).
THEOREM LoaderStaysIntact == Spec => []LoaderIntact
  <1>1. IInv => LoaderIntact
    <2> SUFFICES ASSUME LoaderInv PROVE LoaderIntact
      BY DEF IInv
    <2>1. pc \in LoaderPcs \cup KernelPcs
      BY DEF LoaderInv, LoaderTypeOK
    <2>2. CASE pc = "boot"
      BY <2>2 DEF LoaderInv, CodeInPlace, LoaderIntact, Executing, BootSector
    <2>3. CASE pc \in {"go", "read_setup", "read_system"}
      BY <2>3 DEF LoaderInv, CodeInPlace, LoaderIntact, Executing, BootSector
    <2>4. CASE pc \in {"do_move", "end_move"}
      BY <2>4 DEF LoaderInv, CodeInPlace, LoaderIntact, Executing, SetupSector
    <2>5. CASE pc \in KernelPcs
      <3>1. mem[0] = <<"system", 0>>
        <4>1. size \in 1..SYS_SIZE_SECTOR
          BY MemoryMap DEF LoaderInv, LoaderTypeOK
        <4>2. 0 \in 0..(size - 1)
          BY <4>1, MemoryMap
        <4> QED
          BY <2>5, <4>2 DEF LoaderInv, LoopsAgree, System
      <3>2. pc \notin {"boot", "go", "read_setup", "read_system", "do_move", "end_move"}
        BY <2>5, KernelPhases
      <3>3. Executing = <<0, <<"system", 0>>>>
        BY <3>2 DEF Executing
      <3> QED
        BY <3>1, <3>3 DEF LoaderIntact
    <2> QED
      BY <2>1, <2>2, <2>3, <2>4, <2>5, KernelPhases
  <1> QED
    BY <1>1, StartInvariant, PTL

\* Every sector of the kernel is in its place when _start begins, and so are the
\* parameters and setup's descriptors (setup.asm's do_move and end_move).
THEOREM KernelIsLoaded == Spec => []KernelLoaded
  <1>1. IInv => KernelLoaded
    <2> SUFFICES ASSUME LoaderInv, ChipInv, pc = "head"
                 PROVE  /\ \A n \in 0..(size - 1) : mem[n] = <<"system", n>>
                        /\ mem[INITSEG] = <<"parameters", 0>>
                        /\ gdtr = "setup" /\ mem[SETUPSEG] = <<"setup", 0>>
      BY DEF IInv, KernelLoaded
    <2>1. pc \in KernelPcs
      BY KernelPhases
    <2>2. /\ \A n \in 0..(size - 1) : mem[n] = <<"system", n>>
          /\ mem[INITSEG] = <<"parameters", 0>> /\ mem[SETUPSEG] = <<"setup", 0>>
      BY <2>1 DEF LoaderInv, CodeInPlace, LoopsAgree, System, ParamSector, SetupSector
    <2>3. gdtr = "setup"
      BY Phases DEF ChipInv
    <2> QED
      BY <2>2, <2>3
  <1> QED
    BY <1>1, StartInvariant, PTL
\* What the CPU makes of a gate that one of the two routines has made, also of one
\* whose longs are from different calls.
LEMMA WholeGate ==
    ASSUME NEW v \in Gates256, NEW h \in Handlers, NEW t \in {142, 143, 239},
           idt[v].eax = KernelCode * Half + Address[h], idt[v].edx = t * HalfType
    PROVE  /\ Leads(v, h)
           /\ GateType(idt[v]) = IF t = 142 THEN 14 ELSE 15
           /\ Dpl(idt[v]) = IF t = 239 THEN 3 ELSE 0
  <1>1. Offset(idt[v]) = Address[h] /\ Selector(idt[v]) = KernelCode /\ Attr(idt[v]) = t
    BY GateFields
  <1>2. /\ t \div 128 = 1 /\ t % 32 = (IF t = 142 THEN 14 ELSE 15)
        /\ (t \div 32) % 4 = (IF t = 239 THEN 3 ELSE 0)
    BY Attributes
  <1>3. Present(idt[v]) /\ GateType(idt[v]) = (IF t = 142 THEN 14 ELSE 15)
        /\ Dpl(idt[v]) = (IF t = 239 THEN 3 ELSE 0)
    BY <1>1, <1>2 DEF Present, GateType, Dpl
  <1> QED
    BY <1>1, <1>3 DEF Leads

LEMMA DummyHandler == "ignore_int" \in Handlers
  <1>1. Gate(48) = "ignore_int"
    BY DEF Gate
  <1> QED
    BY <1>1 DEF Handlers

LEMMA AllowedIsWhole ==
    ASSUME NEW v \in Gates256, Allowed(v)
    PROVE  \/ Leads(v, "ignore_int")
           \/ \E i \in DOMAIN TrapCalls : TrapCalls[i].v = v /\ Leads(v, TrapCalls[i].handler)
  <1>1. PICK t \in {142, 143, 239} : idt[v].edx = t * HalfType
    BY DEF Allowed
  <1>2. CASE idt[v].eax = Dummy.eax
    <2>1. idt[v].eax = KernelCode * Half + Address["ignore_int"]
      BY <1>2 DEF Dummy
    <2> QED
      BY <1>1, <2>1, DummyHandler, WholeGate
  <1>3. ASSUME NEW i \in DOMAIN TrapCalls, TrapCalls[i].v = v,
               idt[v].eax = GateOf(TrapCalls[i]).eax
        PROVE  Leads(v, TrapCalls[i].handler)
    <2>1. idt[v].eax = KernelCode * Half + Address[TrapCalls[i].handler]
      BY <1>3 DEF GateOf
    <2>2. TrapCalls[i].handler \in Handlers
      BY <1>3, CallsAre DEF CallSet
    <2> QED
      BY <1>1, <2>1, <2>2, WholeGate
  <1> QED
    BY <1>2, <1>3 DEF Allowed

\* From lidt on every vector has a whole gate, between any two instructions
\* (setup_idt of head.asm, _set_gate of system.h, trap_init of traps.c).
THEOREM GatesAreWhole == Spec => []GatesWhole
  <1>1. IInv => GatesWhole
    <2> SUFFICES ASSUME LoaderInv, TableInv, ChipInv, idtr = "idt", NEW v \in DOMAIN idt
                 PROVE  \/ Leads(v, "ignore_int")
                        \/ \E i \in DOMAIN TrapCalls :
                              TrapCalls[i].v = v /\ Leads(v, TrapCalls[i].handler)
      BY DEF IInv, GatesWhole
    <2>1. v \in Gates256
      BY DEF TableInv
    <2>2. pc \notin LoaderPcs \cup {"head", "setup_idt"}
      BY KernelPhases, Phases DEF ChipInv
    <2>3. Allowed(v)
      BY <2>1, <2>2 DEF TableInv
    <2> QED
      BY <2>1, <2>3, AllowedIsWhole
  <1> QED
    BY <1>1, StartInvariant, PTL

\* The gate that a vector has after the last call.
LEMMA CompleteGate ==
    ASSUME NEW v \in Gates256, Filled(v, Len(TrapCalls))
    PROVE  /\ Leads(v, Gate(v))
           /\ GateType(idt[v]) = IF TrapGate(v) THEN 15 ELSE 14
           /\ Dpl(idt[v]) = IF v \in {3, 4, 5} THEN 3 ELSE 0
  <1>1. Gate(v) \in Handlers
    <2>1. CASE v \in 0..48
      BY <2>1 DEF Handlers
    <2>2. CASE v \notin 0..48
      <3>1. Gate(v) = "ignore_int"
        BY <2>2 DEF Gate, Gates256, NrGates
      <3> QED
        BY <3>1, DummyHandler
    <2> QED
      BY <2>1, <2>2
  <1>2. CASE v \in (0..47) \ {14}
    <2>1. idt[v] = GateOf(Call(v, Gate(v), Level(v)))
      BY <1>2, FinalGate
    <2>2. TrapGate(v)
      <3>1. CASE v < 18
        <4>1. CASE v \in {0, 1, 2, 3, 4, 5}
          BY <4>1 DEF TrapGate, Gate
        <4>2. CASE v \in {6, 7, 8, 9, 10, 11}
          BY <4>2 DEF TrapGate, Gate
        <4>3. CASE v \in {12, 13, 15, 16, 17}
          BY <4>3 DEF TrapGate, Gate
        <4> QED
          BY <1>2, <3>1, <4>1, <4>2, <4>3
      <3>2. CASE ~(v < 18)
        BY <1>2, <3>2 DEF TrapGate, Gate
      <3> QED
        BY <3>1, <3>2
    <2>3. CASE v \in {3, 4, 5}
      <3>1. /\ idt[v].eax = KernelCode * Half + Address[Gate(v)]
            /\ idt[v].edx = 239 * HalfType
        BY <2>1, <2>3 DEF GateOf, Call, Level
      <3>2. /\ Leads(v, Gate(v)) /\ GateType(idt[v]) = (IF 239 = 142 THEN 14 ELSE 15)
            /\ Dpl(idt[v]) = (IF 239 = 239 THEN 3 ELSE 0)
        BY <1>1, <3>1, WholeGate
      <3> QED
        BY <2>2, <2>3, <3>2
    <2>4. CASE v \notin {3, 4, 5}
      <3>1. /\ idt[v].eax = KernelCode * Half + Address[Gate(v)]
            /\ idt[v].edx = 143 * HalfType
        BY <2>1, <2>4 DEF GateOf, Call, Level
      <3>2. /\ Leads(v, Gate(v)) /\ GateType(idt[v]) = (IF 143 = 142 THEN 14 ELSE 15)
            /\ Dpl(idt[v]) = (IF 143 = 239 THEN 3 ELSE 0)
        BY <1>1, <3>1, WholeGate
      <3> QED
        BY <2>2, <2>4, <3>2
    <2> QED
      BY <2>3, <2>4
  <1>3. CASE v \notin (0..47) \ {14}
    <2>1. Gate(v) = "ignore_int" /\ v \notin {3, 4, 5}
      BY <1>3 DEF Gate, Gates256
    <2>2. /\ idt[v].eax = KernelCode * Half + Address["ignore_int"]
          /\ idt[v].edx = 142 * HalfType
      <3>1. idt[v] = Dummy
        BY <1>3, FinalGate
      <3> QED
        BY <3>1 DEF Dummy
    <2>3. /\ Leads(v, "ignore_int") /\ GateType(idt[v]) = (IF 142 = 142 THEN 14 ELSE 15)
          /\ Dpl(idt[v]) = (IF 142 = 239 THEN 3 ELSE 0)
      BY <2>2, DummyHandler, WholeGate
    <2> QED
      BY <2>1, <2>3 DEF TrapGate
  <1> QED
    BY <1>2, <1>3

\* When trap_init returns, each vector has the handler of TrapTable.tla with the
\* type and the level that the kernel means it to have (traps.c).
THEOREM TableIsComplete == Spec => []TableComplete
  <1>1. IInv => TableComplete
    <2> SUFFICES ASSUME TableInv, pc = "tty_init", k = Len(TrapCalls), NEW v \in DOMAIN idt
                 PROVE  /\ Leads(v, Gate(v))
                        /\ GateType(idt[v]) = IF TrapGate(v) THEN 15 ELSE 14
                        /\ Dpl(idt[v]) = IF v \in {3, 4, 5} THEN 3 ELSE 0
      BY DEF IInv, TableComplete
    <2>1. v \in Gates256
      BY DEF TableInv
    <2>2. Len(TrapCalls) # NrGates
      BY CallsAre DEF NrGates
    <2>3. Filled(v, Len(TrapCalls))
      BY <2>1, <2>2 DEF TableInv
    <2> QED
      BY <2>1, <2>3, CompleteGate
  <1> QED
    BY <1>1, StartInvariant, PTL

\* An interrupt that may come finds a handler (cli and the masks of setup.asm,
\* the sti of set_origin, the masks of trap_init).
THEOREM InterruptsAreHandled == Spec => []InterruptsHandled
  <1>1. IInv => InterruptsHandled
    <2> SUFFICES ASSUME LoaderInv, TableInv, ChipInv, intFlag PROVE InterruptsHandled
      BY DEF IInv, InterruptsHandled
    <2>1. pc \in {"boot", "go", "read_setup", "read_system", "idle"}
      BY DEF ChipInv
    <2>2. CASE pc # "idle"
      <3>1. idtr = "bios"
        BY <2>1, <2>2, Phases DEF ChipInv
      <3>2. mem[0] = <<"bios", 0>>
        BY <2>1, <2>2 DEF LoaderInv, CodeInPlace, Vectors
      <3> QED
        BY <3>1, <3>2 DEF InterruptsHandled
    <2>3. CASE pc = "idle"
      <3>1. idtr = "idt"
        BY <2>3, Phases DEF ChipInv
      <3>2. Lines8259 \ {34, 45} \subseteq masked
        BY <2>3, Phases DEF ChipInv
      <3>3. ASSUME NEW v \in (32..47) \ (masked \cup {34}) PROVE Leads(v, Gate(v))
        <4>1. v = 45
          BY <3>2, <3>3 DEF Lines8259
        <4>2. v \in Gates256
          BY <4>1 DEF Gates256, NrGates
        <4>3. k = Len(TrapCalls)
          BY <2>3, <3>3, <4>1 DEF ChipInv
        <4>4. Filled(v, Len(TrapCalls))
          <5>1. Len(TrapCalls) # NrGates
            BY CallsAre DEF NrGates
          <5> QED
            BY <2>3, <4>2, <4>3, <5>1 DEF TableInv
        <4> QED
          BY <4>2, <4>4, CompleteGate
      <3> QED
        BY <3>1, <3>3 DEF InterruptsHandled
    <2> QED
      BY <2>2, <2>3
  <1> QED
    BY <1>1, StartInvariant, PTL
\* The kernel leaves the loop at test_a20 only when line 20 is open (head.asm).
THEOREM LineIsTested == Spec => []A20Tested
  <1>1. IInv => A20Tested
    BY Phases DEF IInv, ChipInv, A20Tested
  <1> QED
    BY <1>1, StartInvariant, PTL

\* _start runs the code that the image has, and clears and fills only the words
\* under the directory and the tables (head.asm).
THEOREM HeadStaysIntact == Spec => []HeadIntact
  <1>1. IInv => HeadIntact
    <2> SUFFICES ASSUME LoaderInv, ChipInv, WordsInv PROVE HeadIntact
      BY DEF IInv
    <2>1. ASSUME pc \in {"setup_idt", "test_a20"}, NEW w \in 1..(EarlyWords - 1)
          PROVE  low[w] = Code
      <3>1. w \in Words \ {0} /\ w < EarlyWords
        BY <2>1, TableWords
      <3>2. low[w] = ImageWord(w)
        BY <2>1, <3>1 DEF WordsInv
      <3> QED
        BY <3>1, <3>2 DEF ImageWord
    <2>2. ASSUME idtr = "idt", NEW w \in Words, w >= pg(Tables) PROVE low[w] = Code
      <3>1. pc \notin LoaderPcs \cup {"head", "setup_idt"}
        BY <2>2, KernelPhases, Phases DEF ChipInv
      <3>2. /\ w \in Nat /\ w # 0 /\ ~(w < Tables) /\ ~(w < Entries) /\ ~(w < pg(Tables))
        BY <2>2, TableWords
      <3>3. pc \in {"test_a20", "after_page_tables", "clear"} => low[w] = ImageWord(w)
        BY <3>2 DEF WordsInv
      <3>4. pc = "directory" => low[w] = Code
        BY <3>2 DEF WordsInv
      <3>5. pc = "fill" => low[w] = FilledWord(w, eax)
        BY DEF WordsInv
      <3>6. pc \in {"paging"} \cup MainPcs => low[w] = FilledWord(w, -1)
        BY DEF WordsInv
      <3>7. ImageWord(w) = Code /\ FilledWord(w, eax) = Code /\ FilledWord(w, -1) = Code
        BY <2>2, <3>2 DEF ImageWord, FilledWord
      <3>8. \/ pc \in {"test_a20", "after_page_tables", "clear", "directory", "fill"}
            \/ pc \in {"paging"} \cup MainPcs
        BY <3>1 DEF LoaderInv, LoaderTypeOK, KernelPcs, HeadPcs, PagePcs
      <3> QED
        BY <3>3, <3>4, <3>5, <3>6, <3>7, <3>8
    <2> QED
      BY <2>1, <2>2 DEF HeadIntact
  <1> QED
    BY <1>1, StartInvariant, PTL

\* With paging on the four tables map their 16 MB one to one, and the directory
\* has no other entries (setup_paging of head.asm).
THEOREM TablesMapIdentity == Spec => []IdentityMapped
  <1>1. IInv => IdentityMapped
    <2> SUFFICES ASSUME WordsInv, paging
                 PROVE  /\ \A p \in 0..(Tables * Entries - 1) : Mapped(p) = Page(p)
                        /\ \A d \in Tables..(Entries - 1) : low[d] = Zero
      BY DEF IInv, IdentityMapped
    <2>1. \A w \in Words : low[w] = FilledWord(w, -1)
      BY DEF WordsInv
    <2>2. ASSUME NEW p \in 0..(Tables * Entries - 1) PROVE Mapped(p) = Page(p)
      <3> DEFINE q == p \div Entries
                 r == p % Entries
      <3>1. /\ p \in Nat /\ Entries \in Nat \ {0} /\ p < 4 * Entries
        BY TableWords
      <3>2. q \in Nat /\ r \in 0..(Entries - 1) /\ p = q * Entries + r
        BY <3>1, DivMod
      <3> HIDE DEF q, r
      <3>3. q < 4
        <4>1. SUFFICES ASSUME 4 <= q PROVE FALSE
          BY <3>2
        <4>2. 4 * Entries <= q * Entries
          BY <3>1, <3>2, <4>1, MulMono
        <4>3. q * Entries \in Nat
          BY <3>1, <3>2, MulNat
        <4> DEFINE m == q * Entries
        <4> HIDE DEF m
        <4>4. m \in Nat /\ p = m + r /\ 4 * Entries <= m
          BY <3>2, <4>2, <4>3 DEF m
        <4> QED
          BY <3>1, <3>2, <4>4
      <3>4. q \in Words /\ q < Tables
        BY <3>2, <3>3, TableWords
      <3>5. low[q] = Page(q + 1)
        BY <2>1, <3>4 DEF FilledWord
      <3>6. (q + 1) * Entries + r = Entries + p
        BY <3>1, <3>2, MulNext, MulNat
      <3> DEFINE w == Entries + p
      <3>7. Mapped(p) = low[w]
        BY <3>5, <3>6 DEF Mapped, Page, q, r
      <3>8. /\ w \in Words /\ ~(w < Tables) /\ ~(w < Entries) /\ ~(w >= pg(Tables))
            /\ w - Entries = p /\ p > -1
        BY <3>1, TableWords
      <3> HIDE DEF w
      <3>9. FilledWord(w, -1) = Page(w - Entries)
        BY <3>8 DEF FilledWord
      <3> QED
        BY <2>1, <3>7, <3>8, <3>9
    <2>3. ASSUME NEW d \in Tables..(Entries - 1) PROVE low[d] = Zero
      <3>1. d \in Words /\ ~(d < Tables) /\ d < Entries
        BY TableWords
      <3> QED
        BY <2>1, <3>1 DEF FilledWord
    <2> QED
      BY <2>2, <2>3
  <1> QED
    BY <1>1, StartInvariant, PTL

\* main and con_init read what setup has stored for them, and nothing has been
\* moved over it (setup.asm, main.c, console.c).
THEOREM ParametersAreRead == Spec => []ParametersRead
  <1>1. IInv => ParametersRead
    BY DEF IInv, MainInv, ParametersRead, MainPcs, MemoryRead, ScreenRead
  <1> QED
    BY <1>1, StartInvariant, PTL
=============================================================================
