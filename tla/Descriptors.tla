---------------------------- MODULE Descriptors -----------------------------
(***************************************************************************)
(* Segment descriptors: the macros of linux/sched.h and asm/system.h that  *)
(* read and write them byte by byte, on the tables of boot/head.asm and of *)
(* INIT_TASK, in any order.  A kernel with tasks would use them on its GDT *)
(* and on the LDT of a task; nothing expands them yet.                     *)
(*                                                                         *)
(* Half a byte has Nibble values, 16 in the code; addresses, limits and    *)
(* pages scale with it, selectors and the size of a TSS do not.            *)
(***************************************************************************)
EXTENDS Integers

CONSTANTS Nibble,     \* 16
          Tasks,      \* the numbers of tasks, below NR_TASKS
          Addresses   \* the bases and the sizes that are set

NR_TASKS == 64

Byte == Nibble * Nibble
Half == Byte * Byte          \* a word of two bytes
Long == Half * Half
Page == Nibble * Nibble * Nibble

ASSUME SizesAssumption == /\ Nibble \in {4, 16}
                          /\ Tasks \subseteq 0..(NR_TASKS - 1)
                          /\ Addresses \subseteq 0..(Long - 1)

-----------------------------------------------------------------------------
(* Selectors: each task has two entries of the GDT.                        *)

FIRST_TSS_ENTRY == 4
FIRST_LDT_ENTRY == FIRST_TSS_ENTRY + 1

_TSS(n) == n * 16 + FIRST_TSS_ENTRY * 8
_LDT(n) == n * 16 + FIRST_LDT_ENTRY * 8

\* The task whose TSS the selector tr names.
str(tr) == (tr - FIRST_TSS_ENTRY * 8) \div 16

Gdt(selector) == <<"gdt", selector \div 8>>
Ldt(i) == <<"ldt", i>>

KernelEntries == {Gdt(8), Gdt(16)}
TaskEntries   == {Gdt(_TSS(n)) : n \in Tasks} \cup {Gdt(_LDT(n)) : n \in Tasks}
LdtEntries    == {Ldt(1), Ldt(2)}
Entries       == KernelEntries \cup TaskEntries \cup LdtEntries

-----------------------------------------------------------------------------
(***************************************************************************)
(* A descriptor, byte by byte: lim0 and lim1 are the bytes 0 and 1, base0  *)
(* to base2 the bytes 2 to 4, type is byte 5, lim2 is byte 6 with the      *)
(* flags in its upper half, base3 is byte 7.                               *)
(***************************************************************************)
Descriptor(limit, flags, type) ==
    [lim0 |-> limit % Byte, lim1 |-> (limit \div Byte) % Byte,
     base0 |-> 0, base1 |-> 0, base2 |-> 0, type |-> type,
     lim2 |-> flags * Nibble + limit \div Half, base3 |-> 0]

\* What the CPU reads.
Base(d)     == d.base0 + Byte * d.base1 + Half * d.base2 + Half * Byte * d.base3
Limit(d)    == d.lim0 + Byte * d.lim1 + Half * (d.lim2 % Nibble)
Granular(d) == d.lim2 \div Nibble >= Nibble \div 2

\* lsl scales the limit of a granular segment; incl makes it a size, in a long.
get_limit(d) ==
    ((IF Granular(d) THEN Limit(d) * Page + (Page - 1) ELSE Limit(d)) + 1) % Long

_get_base(d) == Base(d)

_set_base(d, base) ==
    [d EXCEPT !.base0 = base % Byte, !.base1 = (base \div Byte) % Byte,
              !.base2 = (base \div Half) % Byte, !.base3 = base \div (Half * Byte)]

\* (Slip: byte 6 is stored without the flags it had.)
_set_limitPlain(d, limit) ==
    [d EXCEPT !.lim0 = limit % Byte, !.lim1 = (limit \div Byte) % Byte,
              !.lim2 = limit \div Half]

\* andb and orb keep the upper half of byte 6.
_set_limit(d, limit) ==
    [d EXCEPT !.lim0 = limit % Byte, !.lim1 = (limit \div Byte) % Byte,
              !.lim2 = (@ - (@ % Nibble)) + limit \div Half]

\* (limit - 1) >> 12 of an unsigned long, which 0 makes the greatest.
set_limit(d, limit) == _set_limit(d, ((limit - 1) % Long) \div Page)

PAGE_ALIGN(n) == LET m == (n + Page - 1) % Long IN m - (m % Page)

\* The limit of 104 is a byte less than the TSS; flags and limit share byte 6.
_set_tssldt_desc(d, addr, type) ==
    [_set_base(d, addr) EXCEPT !.lim0 = 104 % Byte, !.lim1 = 104 \div Byte,
                               !.type = type, !.lim2 = 0]

-----------------------------------------------------------------------------
VARIABLES table,   \* the descriptors
          meant    \* history: what the macros were last asked for

vars == <<table, meant>>

Segment(base, size, type) == [base |-> base, size |-> size, type |-> type]

Decoded(d) == Segment(_get_base(d), get_limit(d), d.type)

Flat      == Nibble * Half - 1      \* 4 GB in pages
FlagsGD   == Nibble \div 2 + Nibble \div 4
InitLimit == 159                    \* 0x9f: "Base=0, limit=0x9ffff (=640kB)"

Init ==
    /\ table = [e \in Entries |->
                  CASE e = Gdt(8)  -> Descriptor(Flat, FlagsGD, "code")
                    [] e = Gdt(16) -> Descriptor(Flat, FlagsGD, "data")
                    [] e = Ldt(1)  -> Descriptor(InitLimit, FlagsGD, "code")
                    [] e = Ldt(2)  -> Descriptor(InitLimit, FlagsGD, "data")
                    [] OTHER       -> Descriptor(0, 0, "none")]
    /\ meant = [e \in Entries |->
                  CASE e = Gdt(8)  -> Segment(0, 0, "code")
                    [] e = Gdt(16) -> Segment(0, 0, "data")
                    [] e = Ldt(1)  -> Segment(0, 160 * Page, "code")
                    [] e = Ldt(2)  -> Segment(0, 160 * Page, "data")
                    [] OTHER       -> Segment(0, 1, "none")]

SetDesc(selector, type, addr) ==
    LET e == Gdt(selector) IN
    /\ table' = [table EXCEPT ![e] = _set_tssldt_desc(@, addr, type)]
    /\ meant' = [meant EXCEPT ![e] = Segment(addr, 105, type)]

SetTss(n, addr) == SetDesc(_TSS(n), "tss", addr)
SetLdt(n, addr) == SetDesc(_LDT(n), "ldt", addr)

SetBase(e, base) ==
    /\ table' = [table EXCEPT ![e] = _set_base(@, base)]
    /\ meant' = [meant EXCEPT ![e].base = base]

SetLimit(e, limit) ==
    /\ table' = [table EXCEPT ![e] = set_limit(@, limit)]
    /\ meant' = [meant EXCEPT ![e].size = PAGE_ALIGN(limit)]

Next == \E a \in Addresses :
            \/ \E n \in Tasks : SetTss(n, a) \/ SetLdt(n, a)
            \/ \E e \in LdtEntries : SetBase(e, a) \/ SetLimit(e, a)

Spec == Init /\ [][Next]_vars

-----------------------------------------------------------------------------
Bytes == 0..(Byte - 1)

Types == {"code", "data", "tss", "ldt", "none"}

\* Every byte of a descriptor is one.
TypeOK ==
    /\ table \in [Entries -> [lim0 : Bytes, lim1 : Bytes, base0 : Bytes, base1 : Bytes,
                              base2 : Bytes, type : Types, lim2 : Bytes, base3 : Bytes]]
    /\ meant \in [Entries -> [base : 0..(Long - 1), size : 0..(Long - 1), type : Types]]

\* Whatever the macros were used for before, the CPU finds every segment where
\* it was put last and with the size that was asked for, in whole pages for the
\* segments of a task, a limit of 0 and the last page of memory included; none
\* of them spoils the flags that the limit's scale depends on, or another entry
\* (the bytes that base, limit and flags share; the selectors of the tasks).
SegmentsAsSet == \A e \in Entries : Decoded(table[e]) = meant[e]
=============================================================================
