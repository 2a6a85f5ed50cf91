-------------------------------- MODULE Tty --------------------------------
(***************************************************************************)
(* The terminal layer kernel/chr_drv/tty_io.c over the screen driver:      *)
(* tty_write fills a console's write queue and has con_write empty it,     *)
(* printk hands its text to console_print.                                 *)
(*                                                                         *)
(* The kernel has one thread of control, so at most one call is in         *)
(* progress; a step is one iteration of one of its loops.  channel is at   *)
(* least 1: no caller in the code passes 0, for which tty_write would read *)
(* the entry before con_table.                                             *)
(***************************************************************************)
EXTENDS Console, TtyQueue, Sequences, SequencesExt

CONSTANTS Channels,      \* the channel numbers tty_write is called with
          UserBuffers,   \* the buffers it is called with, nr = Len(buf)
          Messages       \* the texts printk has formatted

\* tty_write itself writes a CR before each LF.
ASSUME CallInputs == /\ Channels \subseteq Nat \ {0}
                     /\ "CR" \in Codes
                     /\ UserBuffers \subseteq Seq(Codes)
                     /\ Messages \subseteq Seq(Codes)

VARIABLES write_q,   \* con_table[c].write_q for the consoles tty_init opens
          pc,        \* where the call in progress is
          call,      \* its arguments and locals
          accepted,  \* history: what this call has put in the queue
          shown      \* history: what con_write has taken out for this call

ttyVars == <<conVars, write_q, pc, call, accepted, shown>>

EIO == 5

\* Queue elements: the codes that are written and what tty_init clears buf with.
QueueCodes == Codes \cup {"NUL"}

NoCall == [con |-> fg_console, buf |-> <<>>, b |-> 0, chars |-> 0, ret |-> 0]

\* The state after tty_init (its printk messages are among Messages).
TtyInit ==
    /\ ConInit
    /\ write_q = [c \in Consoles |-> EmptyQueue("NUL")]
    /\ pc = "idle"
    /\ call = NoCall
    /\ accepted = <<>>
    /\ shown = <<>>

\* tty_write(channel, buf, nr) up to its loop.  con_table has MAX_CONSOLES
\* entries; those beyond NR_CONSOLES have no queues.
TtyWrite(channel, buf) ==
    LET c == channel - 1 IN
    /\ pc = "idle"
    /\ accepted' = <<>>
    /\ shown' = <<>>
    /\ \/ /\ channel > MAX_CONSOLES \/ c \notin Consoles
          /\ call' = [NoCall EXCEPT !.buf = buf, !.ret = -EIO]
          /\ UNCHANGED pc
       \/ /\ channel <= MAX_CONSOLES /\ c \in Consoles
          /\ call' = [NoCall EXCEPT !.con = c, !.buf = buf]
          /\ pc' = "tty_write"
    /\ UNCHANGED <<conVars, write_q>>

\* nr characters of buf are left.
nr == Len(call.buf) - call.b

\* What tty_write puts in the queue for a character: CR LF for LF.
Put(ch) == IF ch = "LF" THEN <<"CR", "LF">> ELSE <<ch>>

PutAll(q, ch) == IF ch = "LF" THEN PUTCH("LF", PUTCH("CR", q)) ELSE PUTCH(ch, q)

\* One iteration of "while (nr > 0 && !FULL(tty->write_q))".
Fill ==
    LET q  == write_q[call.con]
        ch == call.buf[call.b + 1]
    IN  /\ pc = "tty_write"
        /\ nr > 0
        /\ ~FULL(q)
        /\ write_q' = [write_q EXCEPT ![call.con] = PutAll(q, ch)]
        /\ call' = [call EXCEPT !.b = @ + 1]
        /\ accepted' = accepted \o Put(ch)
        /\ UNCHANGED <<conVars, pc, shown>>

\* tty->write(tty): con_write reads the number of characters once.
CallConWrite ==
    LET q == write_q[call.con] IN
    /\ pc = "tty_write"
    /\ nr = 0 \/ FULL(q)
    /\ pc' = "con_write"
    /\ call' = [call EXCEPT !.chars = CHARS(q)]
    /\ BeginWrite(call.con)
    /\ UNCHANGED <<write_q, accepted, shown>>

\* One iteration of con_write's "while (nr--)".
Drain ==
    LET q == write_q[call.con] IN
    /\ pc = "con_write"
    /\ call.chars > 0
    /\ write_q' = [write_q EXCEPT ![call.con] = GETCH(q)]
    /\ call' = [call EXCEPT !.chars = @ - 1]
    /\ shown' = Append(shown, NextChar(q))
    /\ WriteChar(call.con, NextChar(q))
    /\ UNCHANGED <<pc, accepted>>

\* (Slip: tty_write reports the whole buffer.)
WriteReturnsAll ==
    /\ pc = "con_write"
    /\ call.chars = 0
    /\ SetCursor
    /\ call' = [call EXCEPT !.ret = Len(call.buf)]
    /\ pc' = "idle"
    /\ UNCHANGED <<write_q, accepted, shown>>

\* con_write sets the cursor and tty_write returns b - buf.
WriteReturns ==
    /\ pc = "con_write"
    /\ call.chars = 0
    /\ SetCursor
    /\ call' = [call EXCEPT !.ret = call.b]
    /\ pc' = "idle"
    /\ UNCHANGED <<write_q, accepted, shown>>

\* printk, panic: console_print of a formatted message.
Printk(msg) ==
    /\ pc = "idle"
    /\ BeginPrint
    /\ pc' = "console_print"
    /\ call' = [NoCall EXCEPT !.buf = msg]
    /\ accepted' = <<>>
    /\ shown' = <<>>
    /\ UNCHANGED write_q

\* (Slip: the pointer is not advanced.)
PrintSame ==
    /\ pc = "console_print"
    /\ nr > 0
    /\ PrintChar(call.buf[call.b + 1])
    /\ UNCHANGED <<write_q, pc, call, accepted, shown>>

PrintNext ==
    /\ pc = "console_print"
    /\ nr > 0
    /\ PrintChar(call.buf[call.b + 1])
    /\ call' = [call EXCEPT !.b = @ + 1]
    /\ UNCHANGED <<write_q, pc, accepted, shown>>

PrintReturns ==
    /\ pc = "console_print"
    /\ nr = 0
    /\ SetCursor
    /\ pc' = "idle"
    /\ call' = [call EXCEPT !.ret = call.b]
    /\ UNCHANGED <<write_q, accepted, shown>>

Step == \/ Fill
        \/ CallConWrite
        \/ Drain
        \/ WriteReturns
        \/ PrintNext
        \/ PrintReturns

TtyNext == \/ \E channel \in Channels, buf \in UserBuffers : TtyWrite(channel, buf)
           \/ \E msg \in Messages : Printk(msg)
           \/ Step

\* The processor keeps executing the call in progress.
TtySpec == TtyInit /\ [][TtyNext]_ttyVars /\ WF_ttyVars(Step)

-----------------------------------------------------------------------------
CallRecord == [con : Consoles, buf : Seq(Codes), b : Nat, chars : 0..TTY_BUF_SIZE,
               ret : Int]

\* Types of the terminal layer's variables.
TtyTypeOK ==
    /\ write_q \in [Consoles -> QueueOf(QueueCodes)]
    /\ pc \in {"idle", "tty_write", "con_write", "console_print"}
    /\ call \in CallRecord
    /\ accepted \in Seq(QueueCodes)
    /\ shown \in Seq(QueueCodes)

\* The characters tty_write owes the screen for a buffer.
Expand(s) == FlattenSeq([i \in DOMAIN s |-> Put(s[i])])

\* Between calls every write queue is empty: con_write took out everything
\* tty_write had put in, so a call never finds the queue full at its start.
QueuesDrained ==
    pc \notin {"tty_write", "con_write"} => \A c \in Consoles : EMPTY(write_q[c])

\* What the queue keeps of the characters put in it: a line feed that finds one
\* place left fills all TTY_BUF_SIZE places with its two, and the queue counts as
\* empty again; so it keeps what came after a multiple of TTY_BUF_SIZE.
Kept(s) == SubSeq(s, Len(s) - (Len(s) % TTY_BUF_SIZE) + 1, Len(s))

\* When tty_write has returned n >= 0, con_write has processed, in order, what
\* the queue kept of the expansion of the first n characters, and if n is short
\* of the buffer the queue had been filled.
WriteReport ==
    (pc = "idle" /\ call.ret >= 0 /\ accepted # <<>>) =>
        /\ accepted = Expand(SubSeq(call.buf, 1, call.ret))
        /\ shown = Kept(accepted)
        /\ call.ret < Len(call.buf) => Len(shown) = TTY_BUF_SIZE - 1

\* While a call is in progress the queue holds exactly what it kept and has not
\* shown yet, oldest first: no character is lost, repeated or out of order,
\* wherever in the ring the call began.
FifoOrder ==
    pc \in {"tty_write", "con_write"} =>
        shown \o Contents(write_q[call.con]) = Kept(accepted)

\* What tty_init's output flags promise, "change outgoing NL to CRNL": each
\* line feed that tty_write accepts reaches the screen as CR LF, and everything
\* else as it is.
NLShownAsCRNL ==
    (pc = "idle" /\ call.ret >= 0 /\ accepted # <<>>) =>
        shown = Expand(SubSeq(call.buf, 1, call.ret))

\* Every call returns: tty_write's loop ends on a full queue or an empty
\* buffer, con_write's on its count, console_print's at the end of the text.
CallsReturn == (pc # "idle") ~> (pc = "idle")

\* A call on an open console with a non-empty buffer makes progress, so a
\* caller that retries with the rest of its buffer finishes.
WriteProgress ==
    [][ (pc = "con_write" /\ pc' = "idle" /\ call.buf # <<>>) => call'.ret > 0 ]_ttyVars
=============================================================================
