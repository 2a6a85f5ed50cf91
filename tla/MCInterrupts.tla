---------------------------- MODULE MCInterrupts ----------------------------
EXTENDS Interrupts

\* Every vector that trap_init sets, one that it leaves, and int 0x80.
AllVectors == (0..18) \cup {39, 45, 128}

\* NMI, the spurious interrupt of the master chip and the coprocessor's.
ChipIrqs == {2, 39, 45}

\* Those of them whose handlers return.
ReturningIrqs == {2, 39}

\* Both ends of the table, the routines of sys_call.asm, the two calls that sys.h
\* declares in another order, and a number that even the address refuses.
SomeCalls == {0, 2, 11, 72, 73, 86, 200}

\* At full length, the table of sys.c has each function at its number.
ASSUME TableInOrder == \A f \in DOMAIN __NR : FunctionOf(__NR[f]) = f

\* The last number of the table and the first one behind it.
EdgeCalls == {86, 87}
=============================================================================
