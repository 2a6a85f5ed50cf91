-------------------------------- MODULE Head --------------------------------
(***************************************************************************)
(* boot/head.asm from its first instruction to main: the test of address   *)
(* line 20 and the page tables.  (setup_gdt and setup_idt, which come      *)
(* before them, are in Idt.tla.)                                           *)
(*                                                                         *)
(* low is the memory from address 0 on, in words of four bytes: the page   *)
(* directory, under which lies the code of _start, the four page tables,   *)
(* and behind them the rest of the kernel.  A word is <<kind, number>>:    *)
(* code of the image, a number, a page-table entry with the flags          *)
(* "present, writable, user" (+7), or something else.                      *)
(***************************************************************************)
EXTENDS Integers, Sequences, BootMachine

CONSTANTS Entries,    \* entries of a table: 1024
          EarlyWords, \* words of _start, setup_idt and make_gate_descriptor
          LateWords,  \* words behind the tables: the code from ignore_int on
          Numbers     \* the numbers of EAX, 2^32

ASSUME HeadSizes == /\ Entries \in Nat /\ Entries >= 8 /\ Entries % 4 = 0
                    /\ EarlyWords \in 1..Entries
                    /\ LateWords \in Nat \ {0}
                    /\ Numbers \in Nat \ {0, 1}

Tables == 4

VARIABLES low,    \* the words of the directory, the tables and the code behind
          high,   \* the word at 0x100000, where no line 20 leads elsewhere
          ecx, edi,
          paging, \* CR0.PG
          stack

headVars == <<low, high, ecx, edi, paging, stack>>

Words   == 0..((Tables + 1) * Entries + LateWords - 1)
Code    == <<"code", 0>>
Other   == <<"other", 0>>
Num(n)  == <<"number", n>>
Zero    == Num(0)
Page(n) == <<"page", n>>     \* n * 4096 + 7

\* The table that a directory entry pg<n> + 7 points at: pg0 is the page after
\* the directory.
pg(n) == (n + 1) * Entries

\* The words of the kernel's image: code, and zeros where the tables will be.
ImageWord(w) == IF w < EarlyWords \/ w >= pg(Tables) THEN Code ELSE Zero

\* The chipset lets line 20 through some time after setup asked for it.
A20Enabled ==
    /\ a20 = "asked"
    /\ a20' = "on"
    /\ UNCHANGED <<headVars, pc, eax, df, intFlag, gdtr, idtr, masked>>

\* (Slip: the numbers are written to 0x000000.)
TestA20Low ==
    /\ pc = "test_a20"
    /\ eax' = (eax + 1) % Numbers
    /\ low' = [low EXCEPT ![0] = Num(eax')]
    /\ pc' = IF high = Num(eax') THEN "test_a20" ELSE "after_page_tables"
    /\ UNCHANGED <<high, ecx, edi, paging, stack, df, intFlag, a20, gdtr, idtr, masked>>

\* inc eax; mov [0x100000], eax; cmp [0x000000], eax; je test_a20.  Without
\* line 20 both addresses are address 0.
TestA20 ==
    /\ pc = "test_a20"
    /\ eax' = (eax + 1) % Numbers
    /\ IF a20 = "on" THEN high' = Num(eax') /\ UNCHANGED low
                     ELSE low' = [low EXCEPT ![0] = Num(eax')] /\ UNCHANGED high
    /\ pc' = IF low'[0] = Num(eax') THEN "test_a20" ELSE "after_page_tables"
    /\ UNCHANGED <<ecx, edi, paging, stack, df, intFlag, a20, gdtr, idtr, masked>>

\* The arguments of main, its return address L6 and main itself, for the ret of
\* setup_paging.
AfterPageTables ==
    /\ pc = "after_page_tables"
    /\ stack' = <<"main", "L6", 0, 0, 0>>
    /\ pc' = "clear"
    /\ edi' = 0
    /\ ecx' = (Tables + 1) * Entries
    /\ UNCHANGED <<low, high, paging, cpu>>

\* cld; rep stosb: ECX bytes, a quarter of the five pages.
Clear ==
    /\ pc = "clear"
    /\ df' = FALSE
    /\ low' = [w \in Words |-> IF w < ecx \div 4 THEN Zero ELSE low[w]]
    /\ ecx' = 0 /\ eax' = 0 /\ edi' = ecx
    /\ pc' = "directory"
    /\ UNCHANGED <<high, paging, stack, intFlag, a20, gdtr, idtr, masked>>

\* (Slip: the fill starts behind the last table.)
DirectoryPast ==
    /\ pc = "directory"
    /\ low' = [w \in Words |-> IF w < Tables THEN Page(w + 1) ELSE low[w]]
    /\ edi' = pg(3) + Entries
    /\ eax' = Tables * Entries - 1
    /\ df' = TRUE
    /\ pc' = "fill"
    /\ UNCHANGED <<high, ecx, paging, stack, intFlag, a20, gdtr, idtr, masked>>

\* The four directory entries; EDI and EAX for the last entry of pg3; std.
Directory ==
    /\ pc = "directory"
    /\ low' = [w \in Words |-> IF w < Tables THEN Page(w + 1) ELSE low[w]]
    /\ edi' = pg(3) + Entries - 1
    /\ eax' = Tables * Entries - 1
    /\ df' = TRUE
    /\ pc' = "fill"
    /\ UNCHANGED <<high, ecx, paging, stack, intFlag, a20, gdtr, idtr, masked>>

\* (Slip: the loop ends one entry early, with jg.)
FillButLast ==
    /\ pc = "fill"
    /\ low' = [low EXCEPT ![edi] = Page(eax)]
    /\ edi' = edi + IF df THEN -1 ELSE 1
    /\ eax' = eax - 1
    /\ pc' = IF eax > 1 THEN "fill" ELSE "paging"
    /\ UNCHANGED <<high, ecx, paging, stack, df, intFlag, a20, gdtr, idtr, masked>>

\* stosd downwards; sub eax, 0x1000; jge.  eax counts pages here.
Fill ==
    /\ pc = "fill"
    /\ low' = [low EXCEPT ![edi] = Page(eax)]
    /\ edi' = edi + IF df THEN -1 ELSE 1
    /\ eax' = eax - 1
    /\ pc' = IF eax - 1 >= 0 THEN "fill" ELSE "paging"
    /\ UNCHANGED <<high, ecx, paging, stack, df, intFlag, a20, gdtr, idtr, masked>>

\* CR3, CR0.PG and ret.
EnablePaging ==
    /\ pc = "paging"
    /\ paging' = TRUE
    /\ eax' = 0
    /\ pc' = stack[1]
    /\ stack' = Tail(stack)
    /\ UNCHANGED <<low, high, ecx, edi, df, intFlag, a20, gdtr, idtr, masked>>

Pages == \/ TestA20 \/ AfterPageTables \/ Clear \/ Directory \/ Fill \/ EnablePaging

-----------------------------------------------------------------------------
\* No store leaves the directory and the tables.
HeadTypeOK ==
    /\ DOMAIN low = Words
    /\ \A w \in Words : low[w][1] \in {"code", "number", "page", "other"} /\ low[w][2] \in Nat
    /\ paging \in BOOLEAN
    /\ ecx \in 0..((Tables + 1) * Entries)
    /\ pc = "fill" => edi \in Words

\* The kernel goes on only when addresses above 1 MB are really there, however
\* long the line takes and whatever is at address 0 and at 0x100000.
A20Tested == pc \in {"after_page_tables", "clear", "directory", "fill", "paging"} => a20 = "on"

\* The kernel never overwrites code it has still to run: while _start is
\* executing, the words under the page directory are code (but for the first,
\* which the test of line 20 may hit), and the code that builds the tables lies
\* behind them to the end.
HeadIntact ==
    /\ pc \in {"setup_idt", "test_a20"} => \A w \in 1..(EarlyWords - 1) : low[w] = Code
    /\ idtr = "idt" => \A w \in Words : w >= pg(Tables) => low[w] = Code

\* The page of linear memory that entry e of the tables maps: through the
\* directory, as the CPU does.
Mapped(p) ==
    LET dir == low[p \div Entries] IN
    IF dir[1] # "page" THEN Other ELSE low[dir[2] * Entries + (p % Entries)]

\* With paging on, the 16 MB that the four tables cover are mapped one to one,
\* the code that is executing and the video memory among them, and no address
\* beyond them is mapped: nothing of the code that lay under the directory is
\* left to be taken for an entry.
IdentityMapped ==
    paging => /\ \A p \in 0..(Tables * Entries - 1) : Mapped(p) = Page(p)
              /\ \A d \in Tables..(Entries - 1) : low[d] = Zero
=============================================================================
