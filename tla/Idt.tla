-------------------------------- MODULE Idt ---------------------------------
(***************************************************************************)
(* The interrupt descriptor table: setup_idt and make_gate_descriptor of   *)
(* boot/head.asm fill it, trap_init of kernel/traps.c writes the gates of  *)
(* the exceptions with the _set_gate of include/asm/system.h.              *)
(*                                                                         *)
(* A gate is two longs, and each is stored by an instruction of its own:   *)
(* an NMI, or any exception of the code itself, may come between them.     *)
(***************************************************************************)
EXTENDS Integers, Sequences, TrapTable, BootMachine

CONSTANTS Half,       \* 2^16: a long is two halves
          HalfType,   \* 2^8: the type is in the upper byte of the low half
          Address,    \* where the linker has put each handler
          Garbage     \* upper halves EBX may have

Handlers == {Gate(v) : v \in 0..48}

\* A half has the type in its upper eight bits.  The kernel's code ends below
\* 64 KB (system.lds, SYS_SIZE_SECTOR).
ASSUME IdtLayout == /\ HalfType \in Nat \ {0} /\ Half = 256 * HalfType
                    /\ Address \in [Handlers -> 0..(Half - 1)]
                    /\ Garbage \subseteq Nat

NrGates == 256

VARIABLES idt,      \* head.asm's table
          k,        \* how many gates the routine has written
          edx,      \* with EAX, the gate being written
          halfDone  \* the first long has been stored

idtVars == <<idt, k, edx, halfDone>>

KernelCode == 8

\* (Slip: the selector is not moved to the upper half.)
make_gate_descriptorUnshifted(addr, ebx, cx) ==
    [eax |-> ebx + (addr % Half), edx |-> (addr \div Half) * Half + (cx % Half)]

\* make_gate_descriptor: EDX:EAX from the address in EAX, the selector in BX
\* and the attributes in CX.
make_gate_descriptor(addr, ebx, cx) ==
    [eax |-> (ebx % Half) * Half + (addr % Half),
     edx |-> (addr \div Half) * Half + (cx % Half)]

\* The upper half of EDX is that of the address, the lower one P, DPL and type.
_set_gate(type, dpl, addr) ==
    [eax |-> KernelCode * Half + (addr % Half),
     edx |-> (addr \div Half) * Half
             + (128 + 32 * dpl + type) * HalfType]

\* What the CPU makes of a gate.
Offset(g)   == (g.edx \div Half) * Half + (g.eax % Half)
Selector(g) == g.eax \div Half
Attr(g)     == (g.edx % Half) \div HalfType
Present(g)  == Attr(g) \div 128 = 1
Dpl(g)      == (Attr(g) \div 32) % 4
GateType(g) == Attr(g) % 32

-----------------------------------------------------------------------------
Call(v, handler, dpl) == [v |-> v, handler |-> handler, dpl |-> dpl]

\* (Slip: the gates of 18..47 are set last.)
TrapCallsReservedLast ==
    [i \in 1..14 |-> Call(i - 1, Gate(i - 1), IF i - 1 \in {3, 4, 5} THEN 3 ELSE 0)]
    \o [i \in 1..3 |-> Call(i + 14, Gate(i + 14), 0)]
    \o <<Call(45, "irq13", 0), Call(39, "parallel_interrupt", 0)>>
    \o [i \in 1..30 |-> Call(i + 17, "reserved", 0)]

\* The calls of trap_init, in their order.
TrapCalls ==
    [i \in 1..14 |-> Call(i - 1, Gate(i - 1), IF i - 1 \in {3, 4, 5} THEN 3 ELSE 0)]
    \o [i \in 1..3 |-> Call(i + 14, Gate(i + 14), 0)]
    \o [i \in 1..30 |-> Call(i + 17, "reserved", 0)]
    \o <<Call(45, "irq13", 0), Call(39, "parallel_interrupt", 0)>>

\* How many of them precede the writes to the ports 0x21 and 0xA1.
BeforeUnmask == 48

IdtInit ==
    /\ idt = [v \in 0..(NrGates - 1) |-> [eax |-> 0, edx |-> 0]]
    /\ k = 0
    /\ edx = 0
    /\ halfDone = FALSE

\* _start loads head's descriptors, and setup_idt makes the gate of ignore_int.
SetupIdt ==
    /\ pc = "head"
    /\ gdtr' = "head"
    /\ \E garbage \in Garbage :
         LET d == make_gate_descriptor(Address["ignore_int"],
                                       garbage * Half + KernelCode, 142 * HalfType)
         IN  eax' = d.eax /\ edx' = d.edx
    /\ pc' = "setup_idt"
    /\ UNCHANGED <<idt, k, halfDone, df, intFlag, a20, idtr, masked>>

\* mov [edi], eax; mov [edi+4], edx.
StoreFirst(v)  == idt' = [idt EXCEPT ![v].eax = eax] /\ halfDone' = TRUE
StoreSecond(v) == idt' = [idt EXCEPT ![v].edx = edx] /\ halfDone' = FALSE

\* (Slip: one gate too many.)
InstallIdtOneMore ==
    /\ pc = "setup_idt"
    /\ k <= NrGates
    /\ \/ ~halfDone /\ idt' = [idt EXCEPT ![k % NrGates].eax = eax]
          /\ halfDone' = TRUE /\ UNCHANGED k
       \/ halfDone /\ idt' = [idt EXCEPT ![k % NrGates].edx = edx]
          /\ halfDone' = FALSE /\ k' = k + 1
    /\ UNCHANGED <<pc, edx, cpu>>

\* One half of an iteration of .install_idt.
InstallIdt ==
    /\ pc = "setup_idt"
    /\ k < NrGates
    /\ \/ ~halfDone /\ StoreFirst(k) /\ UNCHANGED k
       \/ halfDone /\ StoreSecond(k) /\ k' = k + 1
    /\ UNCHANGED <<pc, edx, cpu>>

\* lidt, and xor eax, eax before the test of line 20.
Lidt ==
    /\ pc = "setup_idt"
    /\ k = NrGates
    /\ idtr' = "idt"
    /\ eax' = 0
    /\ pc' = "test_a20"
    /\ UNCHANGED <<idtVars, df, intFlag, a20, gdtr, masked>>

CallTrapInit ==
    /\ pc = "main"
    /\ pc' = "load"
    /\ k' = 0
    /\ UNCHANGED <<idt, edx, halfDone, cpu>>

\* The operands of _set_gate.
LoadGate ==
    /\ pc = "load"
    /\ k < Len(TrapCalls)
    /\ k = BeforeUnmask => {34, 45} \cap masked = {}
    /\ LET c == TrapCalls[k + 1]
           d == _set_gate(15, c.dpl, Address[c.handler])
       IN  eax' = d.eax /\ edx' = d.edx
    /\ pc' = "trap_init"
    /\ UNCHANGED <<idt, k, halfDone, df, intFlag, a20, gdtr, idtr, masked>>

SetGate ==
    /\ pc = "trap_init"
    /\ \/ ~halfDone /\ StoreFirst(TrapCalls[k + 1].v) /\ UNCHANGED <<k, pc>>
       \/ halfDone /\ StoreSecond(TrapCalls[k + 1].v) /\ k' = k + 1 /\ pc' = "load"
    /\ UNCHANGED <<edx, cpu>>

\* Port 0x21 and port 0xA1: lines 2, the slave's, and 13.
Unmask ==
    /\ pc = "load"
    /\ k = BeforeUnmask
    /\ IF 34 \in masked THEN masked' = masked \ {34}
       ELSE 45 \in masked /\ masked' = masked \ {45}
    /\ UNCHANGED <<idtVars, pc, eax, df, intFlag, a20, gdtr, idtr>>

TrapInitReturns ==
    /\ pc = "load"
    /\ k = Len(TrapCalls)
    /\ pc' = "tty_init"
    /\ UNCHANGED <<idtVars, cpu>>

Gates == \/ SetupIdt \/ InstallIdt \/ Lidt \/ CallTrapInit \/ LoadGate \/ SetGate
         \/ Unmask \/ TrapInitReturns

-----------------------------------------------------------------------------
IdtTypeOK ==
    /\ DOMAIN idt = 0..(NrGates - 1)
    /\ \A v \in DOMAIN idt : idt[v].eax \in Int /\ idt[v].edx \in Int
    /\ halfDone \in BOOLEAN
    /\ k \in 0..NrGates

Leads(v, handler) ==
    LET g == idt[v] IN
    /\ Offset(g) = Address[handler]
    /\ Selector(g) = KernelCode
    /\ Present(g)
    /\ GateType(g) \in {14, 15}

\* From lidt on an interrupt or exception finds, between any two instructions
\* and so also between the two stores of a gate, a whole gate: one that leads
\* to the dummy handler, to a handler that trap_init gives this vector, and
\* nowhere else.
GatesWhole ==
    idtr = "idt" => \A v \in DOMAIN idt :
        \/ Leads(v, "ignore_int")
        \/ \E i \in DOMAIN TrapCalls :
              TrapCalls[i].v = v /\ Leads(v, TrapCalls[i].handler)

\* When trap_init returns each vector has the handler of TrapTable.tla, on
\* which the model of the interrupt entries is built, as a gate of its kind,
\* and only int3, into and bound may be raised by a program.
TableComplete ==
    pc = "tty_init" /\ k = Len(TrapCalls) => \A v \in DOMAIN idt :
        /\ Leads(v, Gate(v))
        /\ GateType(idt[v]) = IF TrapGate(v) THEN 15 ELSE 14
        /\ Dpl(idt[v]) = IF v \in {3, 4, 5} THEN 3 ELSE 0

=============================================================================
