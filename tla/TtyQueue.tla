------------------------------ MODULE TtyQueue ------------------------------
(***************************************************************************)
(* struct tty_queue of include/linux/tty.h and the macros that work on it. *)
(*                                                                         *)
(* A queue is a record of the two indices and the buffer.  head is where   *)
(* the next character is put, tail where the next one is got; both are     *)
(* advanced with "& (TTY_BUF_SIZE-1)".  For a power of two that mask is    *)
(* the remainder, on the unsigned 32-bit differences of LEFT and CHARS     *)
(* too, because TTY_BUF_SIZE divides 2^32.  The fields data and proc_list  *)
(* are never used by the code and are left out.                            *)
(***************************************************************************)
EXTENDS Integers

CONSTANT TTY_BUF_SIZE   \* 1024 in the code

\* A queue of one place would be full and empty at once.
ASSUME BufSizeIsPowerOfTwo == /\ TTY_BUF_SIZE \in Nat \ {0, 1}
                              /\ \E k \in 1..20 : TTY_BUF_SIZE = 2^k

Slots == 0..(TTY_BUF_SIZE - 1)

\* Every queue whose buffer holds elements of C.
QueueOf(C) == [head : Slots, tail : Slots, buf : [Slots -> C]]

\* con_queues[i] = (struct tty_queue) {0,0,0,0,""}: every byte of buf is NUL.
EmptyQueue(nul) == [head |-> 0, tail |-> 0, buf |-> [i \in Slots |-> nul]]

\* (Slips: the mask is missing; LEFT does not keep one place free, so that an
\* empty queue has none; head and tail are swapped.)
INCUnmasked(i)  == i + 1
LEFTAll(q)      == (q.tail - q.head) % TTY_BUF_SIZE
CHARSSwapped(q) == (q.tail - q.head) % TTY_BUF_SIZE

INC(i)   == (i + 1) % TTY_BUF_SIZE
EMPTY(q) == q.head = q.tail
LEFT(q)  == (q.tail - q.head - 1) % TTY_BUF_SIZE
FULL(q)  == LEFT(q) = 0
CHARS(q) == (q.head - q.tail) % TTY_BUF_SIZE

\* (Slip: the index is advanced before the character is stored.)
PUTCHAfter(c, q) == [head |-> INC(q.head), tail |-> q.tail,
                     buf  |-> [q.buf EXCEPT ![INC(q.head)] = c]]

PUTCH(c, q) == [head |-> INC(q.head), tail |-> q.tail,
                buf  |-> [q.buf EXCEPT ![q.head] = c]]

\* GETCH(queue,c) reads the character at tail and advances tail.
NextChar(q) == q.buf[q.tail]
GETCH(q)    == [q EXCEPT !.tail = INC(@)]

-----------------------------------------------------------------------------
\* The characters GETCH would return one after the other, oldest first.
Contents(q) ==
    [i \in 1..CHARS(q) |-> q.buf[(q.tail + i - 1) % TTY_BUF_SIZE]]
=============================================================================
