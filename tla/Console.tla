------------------------------ MODULE Console ------------------------------
(***************************************************************************)
(* The screen driver kernel/chr_drv/console.c: the per-console state       *)
(* vc_cons, the video memory it draws in and the CRT controller it         *)
(* programs.                                                               *)
(*                                                                         *)
(* Units.  A character cell is one 16-bit word of video memory.  Addresses *)
(* here count cells where the code counts bytes, so video_size_row is      *)
(* Columns and "x<<1" is x.  Every address the code forms is an even       *)
(* number of bytes from video_mem_base: con_init divides 8192 bytes into   *)
(* two windows of 4096.                                                    *)
(*                                                                         *)
(* The attribute byte is 0x07 throughout, so a cell is its character, and  *)
(* video_erase_char (0x0720) is the cell of a space, Blank.  video_type is *)
(* always VIDEO_TYPE_EGAC (line 291).                                      *)
(*                                                                         *)
(* One step is one iteration of the loop of con_write or console_print, or *)
(* the set_cursor after it: the kernel has a single thread of control and  *)
(* no interrupt handler draws.                                             *)
(***************************************************************************)
EXTENDS VideoLayout

CONSTANTS Columns,         \* video_num_columns (= video_size_row in cells)
          Lines,           \* video_num_lines
          video_mem_base,  \* first cell of video memory
          VideoCells,      \* video_mem_term - video_mem_base, in cells
          MAX_CONSOLES,    \* entries of vc_cons and con_table
          RegRadix,        \* values of one CRT controller register: 256
          Glyphs,          \* the character codes 32..126
          Blank,           \* the space
          Codes,           \* the character codes that are written
          Junk,            \* a cell the firmware drew
          BiosScreen       \* video memory as the firmware left it

Cells == Glyphs \cup {"VT", "CTL", Junk}
Addr  == video_mem_base .. (video_mem_base + VideoCells - 1)

ASSUME ScreenSize ==
    /\ Columns \in Nat \ {0}
    /\ Lines \in Nat \ {0}
    /\ video_mem_base \in Nat
    /\ VideoCells \in Nat
    /\ Lines * Columns <= VideoCells     \* at least one screen fits

ASSUME ConsoleLimit == MAX_CONSOLES \in Nat \ {0}

\* Text modes have an even number of columns: scrup copies double words,
\* "lines * columns >> 1" of them.
ASSUME EvenColumns == Columns % 2 = 0

ASSUME Registers == RegRadix \in Nat \ {0} /\ VideoCells < RegRadix * RegRadix

\* Character codes other than the glyphs: LF is 10, VT stands for 11 and 12,
\* CR is 13, CTL for every other code.
ASSUME Characters == /\ Blank \in Glyphs
                     /\ Glyphs \cap {"LF", "VT", "CR", "CTL"} = {}
                     /\ Codes \subseteq Glyphs \cup {"LF", "VT", "CR", "CTL"}
                     /\ BiosScreen \in [Addr -> Cells]

VARIABLES cons,     \* vc_cons: cons[c] for the consoles con_init sets up
          vram,     \* video memory
          crtc,     \* the CRT controller's start and cursor address registers
          busy      \* the output call in progress, if any

conVars == <<cons, vram, crtc, busy>>

NR_CONSOLES == NrConsoles(VideoCells, Lines, Columns, MAX_CONSOLES)
Consoles    == 0..(NR_CONSOLES - 1)
window      == WindowSize(VideoCells, NR_CONSOLES)

video_mem_start(c) == WindowStart(video_mem_base, window, c)
video_mem_end(c)   == WindowEnd(video_mem_base, window, c)

\* Nothing assigns fg_console after its initialisation.
fg_console == 0

Idle == [op |-> "idle", con |-> fg_console]

\* (Slip: the low byte written without its mask.)
RegUnmasked(a) == [hi |-> ((a - video_mem_base) \div RegRadix) % RegRadix,
                   lo |-> a - video_mem_base]

\* The two registers that hold an address, high byte and low byte.
Reg(a) == [hi |-> ((a - video_mem_base) \div RegRadix) % RegRadix,
           lo |-> (a - video_mem_base) % RegRadix]

-----------------------------------------------------------------------------
(***************************************************************************)
(* The helpers work on m = [k, mem, start]: the record of the console, the *)
(* video memory and the start address registers.                           *)
(***************************************************************************)
Machine(c) == [k |-> cons[c], mem |-> vram, start |-> crtc.start]

\* gotoxy: ignored when the position is off the screen.
gotoxy(k, newX, newY) ==
    IF newX > Columns \/ newY >= Lines THEN k
    ELSE [k EXCEPT !.x = newX, !.y = newY,
                   !.pos = k.origin + newY * Columns + newX]

\* (Slip: the foreground test is missing.)
set_originAlways(c, m) == [m EXCEPT !.start = Reg(m.k.origin)]

set_origin(c, m) ==
    IF c # fg_console THEN m ELSE [m EXCEPT !.start = Reg(m.k.origin)]

Moved(n) == 2 * (n \div 2)

\* (Slips: erasing video_size_row words, the bytes of a row; erasing none.)
EraseRowBytes(mem, dst, src, n) ==
    [a \in Addr |->
        IF a \in dst .. (dst + Moved(n) - 1) THEN mem[a - dst + src]
        ELSE IF a \in (dst + Moved(n)) .. (dst + Moved(n) + 2 * Columns - 1) THEN Blank
        ELSE mem[a]]
CopyOnly(mem, dst, src, n) ==
    [a \in Addr |->
        IF a \in dst .. (dst + Moved(n) - 1) THEN mem[a - dst + src] ELSE mem[a]]

\* "rep movsl" of n/2 double words from src down to dst, then "rep stosw" of
\* one line of blanks right after them.  dst <= src, so no source cell is
\* overwritten before it is copied.
CopyAndErase(mem, dst, src, n) ==
    [a \in Addr |->
        IF a \in dst .. (dst + Moved(n) - 1) THEN mem[a - dst + src]
        ELSE IF a \in (dst + Moved(n)) .. (dst + Moved(n) + Columns - 1) THEN Blank
        ELSE mem[a]]

\* "rep stosw" of one line of blanks.
EraseLine(mem, dst) == CopyAndErase(mem, dst, dst, 0)

\* The screen moves by d cells, and the cursor with it.
Shifted(k, d) == [k EXCEPT !.origin = @ + d, !.scr_end = @ + d, !.pos = @ + d]

\* (Slip: the end of the window is not noticed.)
ScrollOn(c, m) ==
    LET k == Shifted(m.k, Columns)
    IN  [m EXCEPT !.k = k, !.mem = EraseLine(@, k.scr_end - Columns)]

\* The whole screen scrolls: move the origin down one line, or, when the
\* screen would leave the window, copy it back to the window's start.
ScrollScreen(c, m) ==
    LET k == Shifted(m.k, Columns)
        s == video_mem_start(c)
    IN  IF k.scr_end > video_mem_end(c)
        THEN [m EXCEPT !.k   = Shifted(k, s - k.origin),
                       !.mem = CopyAndErase(@, s, k.origin, (Lines - 1) * Columns)]
        ELSE [m EXCEPT !.k   = k,
                       !.mem = EraseLine(@, k.scr_end - Columns)]

\* Only the lines from top to bottom scroll, by copying.
ScrollRegion(m) ==
    [m EXCEPT !.mem = CopyAndErase(@, m.k.origin + Columns * m.k.top,
                                   m.k.origin + Columns * (m.k.top + 1),
                                   (m.k.bottom - m.k.top - 1) * Columns)]

scrup(c, m) ==
    IF m.k.bottom <= m.k.top THEN m
    ELSE IF m.k.top = 0 /\ m.k.bottom = Lines
    THEN set_origin(c, ScrollScreen(c, m))
    ELSE ScrollRegion(m)

lf(c, m) ==
    IF m.k.y + 1 < m.k.bottom
    THEN [m EXCEPT !.k.y = @ + 1, !.k.pos = @ + Columns]
    ELSE scrup(c, m)

\* (Slip: only the column is reset.)
crKeepsPos(m) == [m EXCEPT !.k.x = 0]

cr(m) == [m EXCEPT !.k.pos = @ - m.k.x, !.k.x = 0]

\* Before a character is drawn: past the last column the cursor first goes
\* to the start of the next line.
Wrap(c, m) ==
    IF m.k.x >= Columns
    THEN lf(c, [m EXCEPT !.k.x = @ - Columns, !.k.pos = @ - Columns])
    ELSE m

\* (Slip: the erase character is stored, which AX holds after a scroll.)
StoreErase(m, ch) == [m EXCEPT !.mem[m.k.pos] = Blank, !.k.pos = @ + 1, !.k.x = @ + 1]

Store(m, ch) == [m EXCEPT !.mem[m.k.pos] = ch, !.k.pos = @ + 1, !.k.x = @ + 1]

Glyph(c, m, ch) == Store(Wrap(c, m), ch)

-----------------------------------------------------------------------------
(***************************************************************************)
(* con_init.  The first console is set up and gotoxy(0,0) is done on it;   *)
(* each further one is a copy of it with its own window.  update_screen    *)
(* programs both register pairs for the foreground console.                *)
(***************************************************************************)
NewConsole(c) ==
    gotoxy([origin  |-> video_mem_start(c),
            scr_end |-> video_mem_start(c) + Lines * Columns,
            pos     |-> video_mem_start(c),
            x |-> 0, y |-> 0, top |-> 0, bottom |-> Lines], 0, 0)

ConInit ==
    /\ cons = [c \in Consoles |-> NewConsole(c)]
    /\ vram = BiosScreen
    /\ crtc = [start  |-> Reg(cons[fg_console].origin),
               cursor |-> Reg(cons[fg_console].pos)]
    /\ busy = Idle

Become(c, m) ==
    /\ cons' = [cons EXCEPT ![c] = m.k]
    /\ vram' = m.mem
    /\ crtc' = [crtc EXCEPT !.start = m.start]
    /\ UNCHANGED busy

\* con_write(tty) is entered for console c = tty - con_table.
BeginWrite(c) ==
    /\ busy = Idle
    /\ busy' = [op |-> "write", con |-> c]
    /\ UNCHANGED <<cons, vram, crtc>>

\* One character of con_write: glyphs are drawn, 10, 11 and 12 are line
\* feeds, 13 is a carriage return and every other code is dropped.
WriteChar(c, ch) ==
    /\ busy = [op |-> "write", con |-> c]
    /\ \/ ch \in Glyphs /\ Become(c, Glyph(c, Machine(c), ch))
       \/ ch \in {"LF", "VT"} /\ Become(c, lf(c, Machine(c)))
       \/ ch = "CR" /\ Become(c, cr(Machine(c)))
       \/ ch = "CTL" /\ Become(c, Machine(c))

\* console_print(b) is entered: it draws on the foreground console.
BeginPrint ==
    /\ busy = Idle
    /\ busy' = [op |-> "print", con |-> fg_console]
    /\ UNCHANGED <<cons, vram, crtc>>

\* One character of console_print: 10 is a carriage return and a line feed,
\* 13 a carriage return, and every other code is drawn.
PrintChar(ch) ==
    LET c == fg_console IN
    /\ busy = [op |-> "print", con |-> c]
    /\ \/ ch = "LF" /\ Become(c, lf(c, cr(Machine(c))))
       \/ ch = "CR" /\ Become(c, cr(Machine(c)))
       \/ ch \in Glyphs \cup {"VT", "CTL"} /\ Become(c, Glyph(c, Machine(c), ch))

\* set_cursor(currcons), the last statement of both.
SetCursor ==
    /\ busy # Idle
    /\ busy' = Idle
    /\ crtc' = IF busy.con # fg_console THEN crtc
               ELSE [crtc EXCEPT !.cursor = Reg(cons[busy.con].pos)]
    /\ UNCHANGED <<cons, vram>>

ConNext ==
    \/ \E c \in Consoles : BeginWrite(c)
    \/ \E c \in Consoles, ch \in Codes : WriteChar(c, ch)
    \/ BeginPrint
    \/ \E ch \in Codes : PrintChar(ch)
    \/ SetCursor

\* Output on one console at a time, character by character.  The terminal layer
\* of Tty.tla uses the driver in this way and in no other.
ConSpec == ConInit /\ [][ConNext]_conVars

-----------------------------------------------------------------------------
(***************************************************************************)
(* Properties.                                                             *)
(***************************************************************************)
ConsoleRecord ==
    [origin : Int, scr_end : Int, pos : Int, x : Int, y : Int,
     top : Int, bottom : Int]

Reg8 == [hi : 0..(RegRadix - 1), lo : 0..(RegRadix - 1)]

\* Types: console records of integers, memory of cells, byte registers.
TypeOK ==
    /\ cons \in [Consoles -> ConsoleRecord]
    /\ vram \in [Addr -> Cells]
    /\ crtc \in [start : Reg8, cursor : Reg8]
    /\ busy \in [op : {"idle", "write", "print"}, con : Consoles]

CursorAddress(k) ==
    /\ k.x \in 0..Columns
    /\ k.y \in 0..(Lines - 1)
    /\ k.pos = k.origin + k.y * Columns + k.x

\* The address the next character is stored at (pos), which every operation
\* updates on its own, never drifts from the position (x, y) it stands for.
\* Line scrolling moves origin and pos together (scrup), the wrap in con_write
\* takes a line off pos before lf adds it again, cr subtracts x.
CursorMatchesPosition == \A c \in Consoles : CursorAddress(cons[c])

ScreenWithin(k, from, to) ==
    /\ from <= k.origin
    /\ k.scr_end = k.origin + Lines * Columns
    /\ k.scr_end <= to
    /\ k.top = 0
    /\ k.bottom = Lines

\* The visible screen of a console, which scrup moves through video memory,
\* always lies inside the window con_init gave that console, and the lines
\* top to bottom stay the whole screen.
ScreenInWindow ==
    \A c \in Consoles :
        ScreenWithin(cons[c], video_mem_start(c), video_mem_end(c))

\* A step of output on one console changes no cell outside that console's
\* window, whatever the position and however the screen has scrolled.
StoresStayInWindow ==
    [][ \A a \in Addr : vram'[a] # vram[a] =>
            a \in video_mem_start(busy.con) .. (video_mem_end(busy.con) - 1) ]_conVars

\* The cell a register pair points at.
Pointed(r) == video_mem_base + r.hi * RegRadix + r.lo

\* The hardware shows the foreground console: at every step the start address
\* is its origin, and except while output on it is in progress the cursor is
\* where its next character goes.  Output on another console leaves the
\* registers alone.
HardwareInSync ==
    /\ Pointed(crtc.start) = cons[fg_console].origin
    /\ (busy = Idle \/ busy.con # fg_console) =>
          Pointed(crtc.cursor) = cons[fg_console].pos

\* The screens as the ideal terminal has them.
gridOf ==
    [c \in Consoles |-> [r \in 0..(Lines - 1) |-> [i \in 0..(Columns - 1) |->
        vram[cons[c].origin + r * Columns + i]]]]
xOf == [c \in Consoles |-> cons[c].x]
yOf == [c \in Consoles |-> cons[c].y]

Terminal == INSTANCE Screen WITH grid <- gridOf, cx <- xOf, cy <- yOf

\* What the driver draws is what an ideal terminal would show: the cells of a
\* console's screen, read from its origin, together with (x, y), behave as
\* Screen.tla says, through wrapping and through both ways of scrolling.
ImplementsScreen == Terminal!ScreenSpec

\* And each code does on that terminal what it stands for: con_write draws the
\* glyph it is given, moves to the next line for 10, 11 and 12, to the first
\* column for 13 and drops the rest; console_print begins a new line for 10 and
\* draws all codes but that and 13 (con_write, console_print).
CodesAsTerminal ==
    [][ /\ \A c \in Consoles, ch \in Codes : WriteChar(c, ch) =>
              CASE ch \in Glyphs       -> Terminal!Draw(c, ch)
                [] ch \in {"LF", "VT"} -> Terminal!LineFeed(c)
                [] ch = "CR"           -> Terminal!CarriageReturn(c)
                [] ch = "CTL"          -> UNCHANGED <<gridOf, xOf, yOf>>
        /\ \A ch \in Codes : PrintChar(ch) =>
              CASE ch = "LF" -> Terminal!NewLine(fg_console)
                [] ch = "CR" -> Terminal!CarriageReturn(fg_console)
                [] OTHER     -> Terminal!Draw(fg_console, ch) ]_conVars
=============================================================================
