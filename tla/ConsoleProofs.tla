--------------------------- MODULE ConsoleProofs ---------------------------
(***************************************************************************)
(* Theorems about Console.tla, for every screen size, every amount of      *)
(* video memory and every number of consoles con_init can set up.          *)
(***************************************************************************)
EXTENDS Console, ArithmeticLemmas

\* The cells of one screen.
ScreenCells == Lines * Columns

\* con_init gives every console a window that holds a screen and lies in
\* video memory.
LEMMA Layout ==
    /\ ScreenCells \in Nat
    /\ Columns <= ScreenCells
    /\ window \in Nat
    /\ ScreenCells <= window
    /\ NR_CONSOLES \in Nat \ {0}
    /\ fg_console \in Consoles
    /\ \A c \in Consoles :
         /\ video_mem_start(c) \in Nat
         /\ video_mem_end(c) \in Nat
         /\ video_mem_base <= video_mem_start(c)
         /\ video_mem_end(c) = video_mem_start(c) + window
         /\ video_mem_end(c) <= video_mem_base + VideoCells
  <1> DEFINE S == ScreenCells
             N == NR_CONSOLES
             fit == VideoCells \div S
  <1>1. S \in Nat \ {0} /\ S <= VideoCells /\ Columns <= S
    <2>1. 1 * Columns <= Lines * Columns
      BY ScreenSize, MulMono
    <2> QED
      BY <2>1, ScreenSize, MulNat DEF ScreenCells
  <1> HIDE DEF S
  <1>2. fit \in Nat /\ 1 <= fit /\ fit * S <= VideoCells
    <2>1. 1 * S <= VideoCells
      BY <1>1
    <2>2. fit \in Nat /\ 1 <= fit
      BY <1>1, <2>1, ScreenSize, DivMod, DivAtLeast
    <2>3. fit * S \in Nat /\ VideoCells = fit * S + (VideoCells % S)
          /\ VideoCells % S \in Nat
      BY <1>1, <2>2, ScreenSize, DivMod, MulNat
    <2> QED
      BY <2>2, <2>3, ScreenSize
  <1>3. N \in Nat \ {0} /\ N <= fit
    BY <1>2, ConsoleLimit DEF NR_CONSOLES, NrConsoles, S, ScreenCells
  <1> HIDE DEF fit, N
  <1>4. S <= window /\ window \in Nat /\ N * window <= VideoCells
    <2>1. N * S <= fit * S /\ N * S \in Nat /\ fit * S \in Nat
      BY <1>1, <1>2, <1>3, MulMono, MulNat
    <2>2. S * N <= VideoCells
      BY <2>1, <1>1, <1>2, <1>3, ScreenSize
    <2>3. S <= VideoCells \div N
      BY <2>2, <1>1, <1>3, ScreenSize, DivAtLeast
    <2>4. window = VideoCells \div N
      BY DEF window, WindowSize, N
    <2>9. /\ VideoCells \div N \in Nat
          /\ VideoCells % N \in 0..(N - 1)
          /\ VideoCells = (VideoCells \div N) * N + (VideoCells % N)
      BY <1>3, ScreenSize, DivMod
    <2> HIDE DEF window
    <2>5. window \in Nat /\ VideoCells = window * N + (VideoCells % N)
          /\ VideoCells % N \in Nat
      BY <1>3, <2>4, <2>9
    <2>6. window * N \in Nat /\ window * N = N * window
      BY <2>5, <1>3, MulNat
    <2> QED
      BY <2>3, <2>4, <2>5, <2>6, ScreenSize
  <1>5. ASSUME NEW c \in Consoles
        PROVE  /\ video_mem_start(c) \in Nat
               /\ video_mem_end(c) \in Nat
               /\ video_mem_base <= video_mem_start(c)
               /\ video_mem_end(c) = video_mem_start(c) + window
               /\ video_mem_end(c) <= video_mem_base + VideoCells
    <2>1. c \in Nat /\ c + 1 \in Nat /\ c + 1 <= N
      BY <1>3 DEF Consoles, N
    <2>2. (c + 1) * window <= N * window
      BY <2>1, <1>3, <1>4, MulMono
    <2>3. (c + 1) * window = c * window + window /\ c * window \in Nat
      BY <2>1, <1>4, MulNext, MulNat
    <2>4. N * window \in Nat
      BY <1>3, <1>4, MulNat
    <2>5. /\ video_mem_start(c) = video_mem_base + c * window
          /\ video_mem_end(c) = video_mem_base + c * window + window
      BY DEF video_mem_start, video_mem_end, WindowStart, WindowEnd
    <2> QED
      BY <2>2, <2>3, <2>4, <2>5, <1>4, ScreenSize
  <1>6. fg_console \in Consoles
    BY <1>3 DEF fg_console, Consoles, N
  <1> QED
    BY <1>1, <1>3, <1>4, <1>5, <1>6 DEF S, N

-----------------------------------------------------------------------------
(***************************************************************************)
(* The helpers, one lemma each: started on a console in a good state they  *)
(* leave it in a good state and touch no cell outside its window.          *)
(***************************************************************************)
CellsOf(c) == video_mem_start(c) .. (video_mem_end(c) - 1)

GoodConsole(c, k) ==
    /\ k \in ConsoleRecord
    /\ CursorAddress(k)
    /\ ScreenWithin(k, video_mem_start(c), video_mem_end(c))

Shows(c, k, start) == c = fg_console => Pointed(start) = k.origin

GoodMachine(c, m) ==
    /\ m \in [k : ConsoleRecord, mem : [Addr -> Cells], start : Reg8]
    /\ GoodConsole(c, m.k)
    /\ Shows(c, m.k, m.start)

SameOutside(c, m, n) == \A a \in Addr \ CellsOf(c) : n[a] = m[a]

\* The step from m to n is a good one.
GoodStep(c, m, n) ==
    /\ GoodMachine(c, n)
    /\ SameOutside(c, m.mem, n.mem)
    /\ c # fg_console => n.start = m.start

\* The registers give back every address of video memory, and the one after
\* the last, where the cursor may rest.
LEMMA RegisterPair ==
    ASSUME NEW a \in video_mem_base .. (video_mem_base + VideoCells)
    PROVE  Reg(a) \in Reg8 /\ Pointed(Reg(a)) = a
  <1> DEFINE n == a - video_mem_base
             R == RegRadix
  <1>1. n \in Nat /\ n < R * R /\ R \in Nat \ {0} /\ R * R \in Nat
    BY ScreenSize, Registers, MulNat
  <1>2. a = video_mem_base + n
    BY ScreenSize
  <1> HIDE DEF n, R
  <1>3. n \div R \in Nat /\ n % R \in 0..(R - 1)
    BY <1>1, DivMod
  <1>4. (n \div R) % R \in 0..(R - 1)
    BY <1>1, <1>3, DivMod
  <1>5. ((n \div R) % R) * R + (n % R) = n
    BY <1>1, TwoDigits
  <1>6. Reg(a) = [hi |-> (n \div R) % R, lo |-> n % R]
    BY DEF Reg, n, R
  <1>7. Reg(a) \in Reg8
    BY <1>3, <1>4, <1>6 DEF Reg8, R
  <1>8. Pointed(Reg(a)) = video_mem_base + ((n \div R) % R) * R + (n % R)
    BY <1>6 DEF Pointed, R
  <1>9. ((n \div R) % R) * R \in Nat /\ n % R \in Nat
    BY <1>1, <1>3, <1>4, MulNat
  <1> QED
    BY <1>2, <1>5, <1>7, <1>8, <1>9, ScreenSize

\* Copying lines down in memory and erasing the one after them keeps memory
\* well formed and changes only the cells of those lines.
LEMMA CopyStays ==
    ASSUME NEW mem \in [Addr -> Cells], NEW dst \in Int, NEW src \in Int,
           NEW n \in Nat,
           \A a \in src .. (src + n - 1) : a \in Addr
    PROVE  /\ Moved(n) \in Nat /\ Moved(n) <= n
           /\ CopyAndErase(mem, dst, src, n) \in [Addr -> Cells]
           /\ \A a \in Addr :
                 a \notin dst .. (dst + n + Columns - 1) =>
                     CopyAndErase(mem, dst, src, n)[a] = mem[a]
  <1>1. Moved(n) \in Nat /\ Moved(n) <= n
    BY DEF Moved
  <1>2. Blank \in Cells
    BY Characters DEF Cells
  <1>3. ASSUME NEW a \in Addr
        PROVE  /\ CopyAndErase(mem, dst, src, n)[a] \in Cells
               /\ a \notin dst .. (dst + n + Columns - 1) =>
                     CopyAndErase(mem, dst, src, n)[a] = mem[a]
    <2>1. a \in Int
      BY ScreenSize DEF Addr
    <2>2. a \in dst .. (dst + Moved(n) - 1) =>
             a - dst + src \in src .. (src + n - 1)
      BY <1>1, <2>1
    <2> QED
      BY <1>1, <1>2, <2>1, <2>2, ScreenSize DEF CopyAndErase
  <1> QED
    BY <1>1, <1>3 DEF CopyAndErase

\* Programming the start address leaves a machine good, whatever line the
\* start registers showed before.
LEMMA SetOriginGood ==
    ASSUME NEW c \in Consoles, NEW m,
           m \in [k : ConsoleRecord, mem : [Addr -> Cells], start : Reg8],
           GoodConsole(c, m.k)
    PROVE  /\ GoodMachine(c, set_origin(c, m))
           /\ set_origin(c, m).mem = m.mem
           /\ set_origin(c, m).k = m.k
           /\ c # fg_console => set_origin(c, m).start = m.start
  <1>1. m.k.origin \in video_mem_base .. (video_mem_base + VideoCells)
    BY Layout, ScreenSize
    DEF GoodConsole, ScreenWithin, ConsoleRecord, ScreenCells
  <1>2. Reg(m.k.origin) \in Reg8 /\ Pointed(Reg(m.k.origin)) = m.k.origin
    BY <1>1, RegisterPair
  <1>3. CASE c # fg_console
    BY <1>3 DEF set_origin, GoodMachine, Shows
  <1>4. CASE c = fg_console
    BY <1>2, <1>4 DEF set_origin, GoodMachine, Shows
  <1> QED
    BY <1>3, <1>4

\* A console record with three fields replaced is a console record.
LEMMA ScreenUpdate ==
    ASSUME NEW k \in ConsoleRecord, NEW a \in Int, NEW b \in Int, NEW d \in Int
    PROVE  [k EXCEPT !.origin = a, !.scr_end = b, !.pos = d] \in ConsoleRecord
  BY DEF ConsoleRecord

\* Moving the cursor leaves a console record one.
LEMMA CursorUpdate ==
    ASSUME NEW k \in ConsoleRecord, NEW a \in Int, NEW b \in Int
    PROVE  /\ [k EXCEPT !.x = a, !.pos = b] \in ConsoleRecord
           /\ [k EXCEPT !.pos = b, !.x = a] \in ConsoleRecord
           /\ [k EXCEPT !.y = a, !.pos = b] \in ConsoleRecord
  BY DEF ConsoleRecord

\* Moving the screen moves the cursor address with it.
LEMMA ShiftedFields ==
    ASSUME NEW k \in ConsoleRecord, NEW d \in Int
    PROVE  /\ Shifted(k, d) \in ConsoleRecord
           /\ Shifted(k, d).origin = k.origin + d
           /\ Shifted(k, d).scr_end = k.scr_end + d
           /\ Shifted(k, d).pos = k.pos + d
           /\ Shifted(k, d).x = k.x /\ Shifted(k, d).y = k.y
           /\ Shifted(k, d).top = k.top /\ Shifted(k, d).bottom = k.bottom
           /\ CursorAddress(k) => CursorAddress(Shifted(k, d))
  <1> DEFINE j == Shifted(k, d)
  <1>1. /\ k.origin \in Int /\ k.scr_end \in Int /\ k.pos \in Int
        /\ k.x \in Int /\ k.y \in Int
    BY DEF ConsoleRecord
  <1>2. j \in ConsoleRecord
    <2>1. k.origin + d \in Int /\ k.scr_end + d \in Int /\ k.pos + d \in Int
      BY <1>1
    <2> QED
      BY <2>1, ScreenUpdate DEF Shifted
  <1>3. /\ j.origin = k.origin + d /\ j.scr_end = k.scr_end + d
        /\ j.pos = k.pos + d /\ j.x = k.x /\ j.y = k.y
        /\ j.top = k.top /\ j.bottom = k.bottom
    BY DEF ConsoleRecord, Shifted
  <1> HIDE DEF j
  <1>4. ASSUME CursorAddress(k) PROVE CursorAddress(j)
    <2>1. k.y \in Nat /\ k.y * Columns \in Nat
      BY <1>4, ScreenSize, MulNat DEF CursorAddress
    <2> QED
      BY <1>1, <1>3, <1>4, <2>1 DEF CursorAddress
  <1> QED
    BY <1>2, <1>3, <1>4 DEF j

\* Scrolling the whole screen: the screen stays in the window and the cursor
\* address moves with the origin, whether or not the lines are copied back.
LEMMA ScrollScreenGood ==
    ASSUME NEW c \in Consoles, NEW m, GoodMachine(c, m)
    PROVE  /\ ScrollScreen(c, m) \in
                 [k : ConsoleRecord, mem : [Addr -> Cells], start : Reg8]
           /\ GoodConsole(c, ScrollScreen(c, m).k)
           /\ SameOutside(c, m.mem, ScrollScreen(c, m).mem)
           /\ ScrollScreen(c, m).start = m.start
  <1> DEFINE k == Shifted(m.k, Columns)
             s == video_mem_start(c)
             n == (Lines - 1) * Columns
  <1>1. /\ n \in Nat /\ n + Columns = ScreenCells
        /\ Columns \in Nat \ {0} /\ video_mem_base \in Nat
    BY ScreenSize, MulNat, MulNext DEF ScreenCells
  <1>2. /\ m \in [k : ConsoleRecord, mem : [Addr -> Cells], start : Reg8]
        /\ GoodConsole(c, m.k)
        /\ m.k.origin \in Int
    BY DEF GoodMachine, GoodConsole, ConsoleRecord
  <1>3. /\ s \in Nat /\ video_mem_end(c) \in Nat /\ video_mem_base <= s
        /\ video_mem_end(c) = s + window /\ ScreenCells <= window
        /\ window \in Nat /\ ScreenCells \in Nat
        /\ video_mem_end(c) <= video_mem_base + VideoCells
    BY Layout
  <1>4. /\ k \in ConsoleRecord /\ CursorAddress(k)
        /\ k.top = 0 /\ k.bottom = Lines
        /\ k.origin \in Int /\ s + Columns <= k.origin
        /\ k.scr_end = k.origin + ScreenCells
        /\ k.scr_end <= video_mem_end(c) + Columns
    <2>1. /\ m.k \in ConsoleRecord /\ CursorAddress(m.k)
          /\ m.k.top = 0 /\ m.k.bottom = Lines
          /\ s <= m.k.origin
          /\ m.k.scr_end = m.k.origin + ScreenCells
          /\ m.k.scr_end <= video_mem_end(c)
      BY <1>2 DEF GoodConsole, ScreenWithin, ScreenCells
    <2>2. Columns \in Int
      BY <1>1
    <2>3. /\ k \in ConsoleRecord /\ CursorAddress(k)
          /\ k.top = 0 /\ k.bottom = Lines
          /\ k.origin = m.k.origin + Columns
          /\ k.scr_end = m.k.scr_end + Columns
      BY <2>1, <2>2, ShiftedFields
    <2> HIDE DEF k, s
    <2> QED
      BY <1>1, <1>2, <1>3, <2>1, <2>3
  <1> HIDE DEF n, k, s
  <1>5. CASE k.scr_end > video_mem_end(c)
    <2> DEFINE t == CopyAndErase(m.mem, s, k.origin, n)
               j == Shifted(k, s - k.origin)
    <2>1. \A a \in k.origin .. (k.origin + n - 1) : a \in Addr
      BY <1>1, <1>3, <1>4, ScreenSize DEF Addr
    <2>2. /\ t \in [Addr -> Cells]
          /\ \A a \in Addr : a \notin s .. (s + n + Columns - 1) => t[a] = m.mem[a]
      BY <1>1, <1>2, <1>3, <1>4, <2>1, CopyStays
    <2>3. GoodConsole(c, j)
      <3>1. s - k.origin \in Int
        BY <1>3, <1>4
      <3>2. /\ j \in ConsoleRecord /\ CursorAddress(j)
            /\ j.top = 0 /\ j.bottom = Lines
            /\ j.origin = k.origin + (s - k.origin)
            /\ j.scr_end = k.scr_end + (s - k.origin)
        BY <1>4, <3>1, ShiftedFields
      <3> HIDE DEF j
      <3>3. j.origin = s /\ j.scr_end = s + ScreenCells
        BY <1>3, <1>4, <3>2
      <3> QED
        BY <1>3, <3>2, <3>3 DEF GoodConsole, ScreenWithin, ScreenCells, s
    <2>4. ScrollScreen(c, m) = [m EXCEPT !.k = j, !.mem = t]
      BY <1>5 DEF ScrollScreen, n, k, s
    <2> HIDE DEF t, j
    <2>5. SameOutside(c, m.mem, t)
      BY <1>1, <1>2, <1>3, <2>2 DEF SameOutside, CellsOf, s
    <2> QED
      BY <1>2, <2>2, <2>3, <2>4, <2>5 DEF GoodConsole
  <1>6. CASE ~(k.scr_end > video_mem_end(c))
    <2> DEFINE t == EraseLine(m.mem, k.scr_end - Columns)
    <2>1. k.scr_end - Columns \in Int
      BY <1>1, <1>3, <1>4
    <2>2. /\ t \in [Addr -> Cells]
          /\ \A a \in Addr :
               a \notin (k.scr_end - Columns) .. (k.scr_end - 1) => t[a] = m.mem[a]
      BY <1>1, <1>2, <1>3, <1>4, <2>1, CopyStays DEF EraseLine
    <2>3. GoodConsole(c, k)
      BY <1>1, <1>3, <1>4, <1>6 DEF GoodConsole, ScreenWithin, ScreenCells, s
    <2>4. ScrollScreen(c, m) = [m EXCEPT !.k = k, !.mem = t]
      BY <1>6 DEF ScrollScreen, k, s
    <2>5. SameOutside(c, m.mem, t)
      BY <1>1, <1>2, <1>3, <1>4, <1>6, <2>2 DEF SameOutside, CellsOf, s
    <2> HIDE DEF t
    <2> QED
      BY <1>2, <2>2, <2>3, <2>4, <2>5 DEF GoodConsole
  <1> QED
    BY <1>5, <1>6

\* Doing nothing is a good step.
LEMMA GoodStepRefl ==
    ASSUME NEW c \in Consoles, NEW m, GoodMachine(c, m)
    PROVE  GoodStep(c, m, m)
  BY DEF GoodStep, SameOutside

\* scrup in a good state scrolls the whole screen.
LEMMA ScrupGood ==
    ASSUME NEW c \in Consoles, NEW m, GoodMachine(c, m)
    PROVE  GoodStep(c, m, scrup(c, m))
  <1>1. m.k.top = 0 /\ m.k.bottom = Lines /\ Lines > 0
    BY ScreenSize DEF GoodMachine, GoodConsole, ScreenWithin
  <1>2. scrup(c, m) = set_origin(c, ScrollScreen(c, m))
    BY <1>1, ScreenSize DEF scrup
  <1> QED
    BY <1>2, ScrollScreenGood, SetOriginGood DEF GoodStep

\* A line feed is a good step, whether the screen scrolls or not.
LEMMA LfGood ==
    ASSUME NEW c \in Consoles, NEW m, GoodMachine(c, m)
    PROVE  GoodStep(c, m, lf(c, m))
  <1>1. CASE m.k.y + 1 < m.k.bottom
    <2> DEFINE j == [m.k EXCEPT !.y = m.k.y + 1, !.pos = m.k.pos + Columns]
    <2>1. /\ m.k \in ConsoleRecord
          /\ m.k.origin \in Int /\ m.k.pos \in Int /\ m.k.y \in Int /\ m.k.x \in Int
          /\ m.k.y + 1 \in 0..(Lines - 1) /\ m.k.y \in Nat
          /\ m.k.x \in 0..Columns
          /\ m.k.pos = m.k.origin + m.k.y * Columns + m.k.x
          /\ Columns \in Nat
          /\ m.k.y * Columns \in Nat
          /\ (m.k.y + 1) * Columns = m.k.y * Columns + Columns
      BY <1>1, ScreenSize, MulNat, MulNext
      DEF GoodMachine, GoodConsole, CursorAddress, ScreenWithin, ConsoleRecord
    <2>2. j \in ConsoleRecord
      <3>1. m.k.y + 1 \in Int /\ m.k.pos + Columns \in Int
        BY <2>1
      <3> QED
        BY <2>1, <3>1, CursorUpdate
    <2>3. /\ j.y = m.k.y + 1 /\ j.pos = m.k.pos + Columns /\ j.x = m.k.x
          /\ j.origin = m.k.origin /\ j.scr_end = m.k.scr_end
          /\ j.top = m.k.top /\ j.bottom = m.k.bottom
      BY <2>1 DEF ConsoleRecord
    <2>4. lf(c, m) = [m EXCEPT !.k = j]
      BY <1>1 DEF lf, GoodMachine
    <2> HIDE DEF j
    <2>5. CursorAddress(j)
      BY <2>1, <2>3 DEF CursorAddress
    <2> QED
      BY <2>2, <2>3, <2>4, <2>5
      DEF GoodStep, GoodMachine, GoodConsole, ScreenWithin, SameOutside, Shows
  <1>2. CASE ~(m.k.y + 1 < m.k.bottom)
    BY <1>2, ScrupGood DEF lf
  <1> QED
    BY <1>1, <1>2

\* A carriage return is a good step.
LEMMA CrGood ==
    ASSUME NEW c \in Consoles, NEW m, GoodMachine(c, m)
    PROVE  GoodStep(c, m, cr(m))
  <1> DEFINE j == [m.k EXCEPT !.pos = m.k.pos - m.k.x, !.x = 0]
  <1>1. /\ m.k \in ConsoleRecord
        /\ m.k.origin \in Int /\ m.k.pos \in Int /\ m.k.y \in Nat
        /\ m.k.x \in 0..Columns /\ m.k.x \in Int
        /\ m.k.y \in 0..(Lines - 1)
        /\ m.k.pos = m.k.origin + m.k.y * Columns + m.k.x
        /\ Columns \in Nat
        /\ m.k.y * Columns \in Nat
    BY ScreenSize, MulNat
    DEF GoodMachine, GoodConsole, CursorAddress, ConsoleRecord
  <1>2. j \in ConsoleRecord
    <2>1. m.k.pos - m.k.x \in Int /\ 0 \in Int
      BY <1>1
    <2> QED
      BY <1>1, <2>1, CursorUpdate
  <1>3. /\ j.y = m.k.y /\ j.pos = m.k.pos - m.k.x /\ j.x = 0
        /\ j.origin = m.k.origin /\ j.scr_end = m.k.scr_end
        /\ j.top = m.k.top /\ j.bottom = m.k.bottom
    BY <1>1 DEF ConsoleRecord
  <1>4. cr(m) = [m EXCEPT !.k = j]
    BY DEF cr, GoodMachine
  <1> HIDE DEF j
  <1>5. CursorAddress(j)
    BY <1>1, <1>3 DEF CursorAddress
  <1> QED
    BY <1>2, <1>3, <1>4, <1>5
    DEF GoodStep, GoodMachine, GoodConsole, ScreenWithin, SameOutside, Shows

\* A line feed stays in the column.
LEMMA LfColumn ==
    ASSUME NEW c \in Consoles, NEW m, GoodMachine(c, m)
    PROVE  lf(c, m).k.x = m.k.x
  <1>1. m.k \in ConsoleRecord /\ m \in [k : ConsoleRecord, mem : [Addr -> Cells], start : Reg8]
    BY DEF GoodMachine
  <1>2. CASE m.k.y + 1 < m.k.bottom
    BY <1>1, <1>2 DEF lf, ConsoleRecord
  <1>3. CASE ~(m.k.y + 1 < m.k.bottom)
    <2> DEFINE k == Shifted(m.k, Columns)
               j == Shifted(k, video_mem_start(c) - k.origin)
    <2>1. m.k.top = 0 /\ m.k.bottom = Lines /\ Lines > 0 /\ Columns \in Int
      BY ScreenSize DEF GoodMachine, GoodConsole, ScreenWithin
    <2>2. lf(c, m) = set_origin(c, ScrollScreen(c, m))
      BY <1>3, <2>1, ScreenSize DEF lf, scrup
    <2>3. k \in ConsoleRecord /\ k.x = m.k.x /\ k.origin \in Int
      BY <1>1, <2>1, ShiftedFields DEF ConsoleRecord
    <2>4. video_mem_start(c) - k.origin \in Int
      BY <2>3, Layout
    <2>5. j.x = k.x
      BY <2>3, <2>4, ShiftedFields
    <2>6. ScrollScreen(c, m).k = j \/ ScrollScreen(c, m).k = k
      BY <1>1 DEF ScrollScreen
    <2> HIDE DEF j, k
    <2>7. set_origin(c, ScrollScreen(c, m)).k = ScrollScreen(c, m).k
      BY ScrollScreenGood, SetOriginGood
    <2> QED
      BY <2>2, <2>3, <2>5, <2>6, <2>7
  <1> QED
    BY <1>2, <1>3

\* The wrap takes a whole line off x and pos and lf puts the line back on
\* pos: in between and afterwards the cursor address is right, and there is
\* room for a character on the line.
LEMMA WrapGood ==
    ASSUME NEW c \in Consoles, NEW m, GoodMachine(c, m)
    PROVE  GoodStep(c, m, Wrap(c, m)) /\ Wrap(c, m).k.x \in 0..(Columns - 1)
  <1>1. /\ m.k \in ConsoleRecord
        /\ m \in [k : ConsoleRecord, mem : [Addr -> Cells], start : Reg8]
        /\ m.k.origin \in Int /\ m.k.pos \in Int /\ m.k.y \in Nat
        /\ m.k.x \in 0..Columns /\ m.k.x \in Int
        /\ m.k.y \in 0..(Lines - 1)
        /\ m.k.pos = m.k.origin + m.k.y * Columns + m.k.x
        /\ Columns \in Nat \ {0}
        /\ m.k.y * Columns \in Nat
    BY ScreenSize, MulNat
    DEF GoodMachine, GoodConsole, CursorAddress, ConsoleRecord
  <1>2. CASE m.k.x >= Columns
    <2> DEFINE j == [m.k EXCEPT !.x = m.k.x - Columns, !.pos = m.k.pos - Columns]
               n == [m EXCEPT !.k = j]
    <2>1. j \in ConsoleRecord
      <3>1. m.k.x - Columns \in Int /\ m.k.pos - Columns \in Int
        BY <1>1
      <3> QED
        BY <1>1, <3>1, CursorUpdate
    <2>2. /\ j.y = m.k.y /\ j.pos = m.k.pos - Columns /\ j.x = m.k.x - Columns
          /\ j.origin = m.k.origin /\ j.scr_end = m.k.scr_end
          /\ j.top = m.k.top /\ j.bottom = m.k.bottom
      BY <1>1 DEF ConsoleRecord
    <2>3. Wrap(c, m) = lf(c, n)
      BY <1>1, <1>2 DEF Wrap
    <2> HIDE DEF j
    <2>4. CursorAddress(j) /\ j.x = 0
      BY <1>1, <1>2, <2>2 DEF CursorAddress
    <2>5. GoodMachine(c, n) /\ n.mem = m.mem /\ n.k.x = 0
          /\ n.start = m.start
      BY <1>1, <2>1, <2>2, <2>4 DEF GoodMachine, GoodConsole, ScreenWithin, Shows
    <2> HIDE DEF n
    <2>6. GoodStep(c, n, lf(c, n)) /\ lf(c, n).k.x = 0
      BY <2>5, LfGood, LfColumn
    <2> QED
      BY <1>1, <2>3, <2>5, <2>6 DEF GoodStep
  <1>3. CASE ~(m.k.x >= Columns)
    <2>1. Wrap(c, m) = m
      BY <1>3 DEF Wrap
    <2> QED
      BY <1>1, <1>3, <2>1, GoodStepRefl
  <1> QED
    BY <1>2, <1>3

\* A character is stored inside the screen.
LEMMA StoreGood ==
    ASSUME NEW c \in Consoles, NEW m, GoodMachine(c, m),
           m.k.x \in 0..(Columns - 1), NEW ch \in Cells
    PROVE  GoodStep(c, m, Store(m, ch))
  <1> DEFINE j == [m.k EXCEPT !.pos = m.k.pos + 1, !.x = m.k.x + 1]
             t == [m.mem EXCEPT ![m.k.pos] = ch]
  <1>1. /\ m.k \in ConsoleRecord
        /\ m \in [k : ConsoleRecord, mem : [Addr -> Cells], start : Reg8]
        /\ m.k.origin \in Int /\ m.k.pos \in Int /\ m.k.y \in Nat
        /\ m.k.x \in Int /\ Lines \in Nat \ {0}
        /\ m.k.y \in 0..(Lines - 1)
        /\ m.k.pos = m.k.origin + m.k.y * Columns + m.k.x
        /\ Columns \in Nat \ {0}
        /\ m.k.y * Columns \in Nat
        /\ video_mem_start(c) <= m.k.origin
        /\ m.k.origin + ScreenCells <= video_mem_end(c)
    BY ScreenSize, MulNat
    DEF GoodMachine, GoodConsole, CursorAddress, ConsoleRecord, ScreenWithin, ScreenCells
  <1>2. m.k.pos \in CellsOf(c)
    <2>1. m.k.y + 1 \in Nat /\ m.k.y + 1 <= Lines
      BY <1>1
    <2>2. (m.k.y + 1) * Columns <= Lines * Columns
      BY <1>1, <2>1, MulMono
    <2>3. (m.k.y + 1) * Columns = m.k.y * Columns + Columns
      BY <1>1, MulNext
    <2>4. m.k.y * Columns + Columns <= ScreenCells
      BY <2>2, <2>3 DEF ScreenCells
    <2> QED
      BY <1>1, <2>4, Layout DEF CellsOf
  <1>3. j \in ConsoleRecord
    <2>1. m.k.x + 1 \in Int /\ m.k.pos + 1 \in Int
      BY <1>1
    <2> QED
      BY <1>1, <2>1, CursorUpdate
  <1>4. /\ j.y = m.k.y /\ j.pos = m.k.pos + 1 /\ j.x = m.k.x + 1
        /\ j.origin = m.k.origin /\ j.scr_end = m.k.scr_end
        /\ j.top = m.k.top /\ j.bottom = m.k.bottom
    BY <1>1 DEF ConsoleRecord
  <1>5. Store(m, ch) = [m EXCEPT !.mem = t, !.k = j]
    BY <1>1 DEF Store
  <1>6. t \in [Addr -> Cells] /\ SameOutside(c, m.mem, t)
    BY <1>1, <1>2 DEF SameOutside
  <1> HIDE DEF j, t
  <1>7. CursorAddress(j)
    <2>1. j.x \in 0..Columns /\ j.y \in 0..(Lines - 1)
      BY <1>1, <1>4
    <2>2. j.pos = j.origin + j.y * Columns + j.x
      BY <1>1, <1>4
    <2> QED
      BY <2>1, <2>2 DEF CursorAddress
  <1> QED
    BY <1>1, <1>3, <1>4, <1>5, <1>6, <1>7
    DEF GoodStep, GoodMachine, GoodConsole, ScreenWithin, Shows

\* A printable character, with the wrap before it, is a good step.
LEMMA GlyphGood ==
    ASSUME NEW c \in Consoles, NEW m, GoodMachine(c, m), NEW ch \in Cells
    PROVE  GoodStep(c, m, Glyph(c, m, ch))
  <1> DEFINE n == Wrap(c, m)
  <1>1. GoodStep(c, m, n) /\ n.k.x \in 0..(Columns - 1)
    BY WrapGood
  <1>2. Glyph(c, m, ch) = Store(n, ch)
    BY DEF Glyph
  <1> HIDE DEF n
  <1>3. GoodStep(c, n, Store(n, ch))
    BY <1>1, StoreGood DEF GoodStep
  <1> QED
    BY <1>1, <1>2, <1>3 DEF GoodStep, SameOutside

-----------------------------------------------------------------------------
(***************************************************************************)
(* The invariant.                                                          *)
(*                                                                         *)
(* Memory is only well typed while every store hits it, which takes the    *)
(* cursor address and the place of the screen; the registers only hold an  *)
(* address that lies in video memory.  So the four go together.            *)
(***************************************************************************)
ConIInv == /\ TypeOK
           /\ CursorMatchesPosition
           /\ ScreenInWindow
           /\ HardwareInSync

\* The machine of every console is good in a good state.
LEMMA InvMachine ==
    ASSUME ConIInv, NEW c \in Consoles
    PROVE  GoodMachine(c, Machine(c))
  BY DEF ConIInv, TypeOK, CursorMatchesPosition, ScreenInWindow, HardwareInSync,
         Machine, GoodMachine, GoodConsole, Shows

\* A helper's result assigned to the state of the console in use keeps the
\* invariant and stays in the window.
LEMMA BecomeGood ==
    ASSUME ConIInv, busy # Idle, NEW m, GoodStep(busy.con, Machine(busy.con), m),
           Become(busy.con, m)
    PROVE  /\ ConIInv'
           /\ \A a \in Addr : vram'[a] # vram[a] => a \in CellsOf(busy.con)
  <1> DEFINE c == busy.con
  <1>1. c \in Consoles /\ busy' = busy
    BY DEF ConIInv, TypeOK, Become
  <1>2. GoodMachine(c, m) /\ SameOutside(c, vram, m.mem)
    BY DEF GoodStep, Machine
  <1>3. /\ cons' = [cons EXCEPT ![c] = m.k]
        /\ vram' = m.mem
        /\ crtc' = [crtc EXCEPT !.start = m.start]
    BY DEF Become
  <1>4. TypeOK'
    BY <1>1, <1>2, <1>3 DEF ConIInv, TypeOK, GoodMachine
  <1>5. \A d \in Consoles : cons'[d] = IF d = c THEN m.k ELSE cons[d]
    BY <1>1, <1>3 DEF ConIInv, TypeOK
  <1>6. CursorMatchesPosition'
    BY <1>2, <1>5 DEF ConIInv, CursorMatchesPosition, GoodMachine, GoodConsole
  <1>7. ScreenInWindow'
    BY <1>2, <1>5 DEF ConIInv, ScreenInWindow, GoodMachine, GoodConsole
  <1>8. HardwareInSync'
    <2>1. crtc'.start = m.start /\ crtc \in [start : Reg8, cursor : Reg8]
      BY <1>3 DEF ConIInv, TypeOK
    <2>2. Pointed(m.start) = cons'[fg_console].origin
      <3>1. CASE c = fg_console
        BY <3>1, <1>2, <1>5, Layout DEF GoodMachine, Shows
      <3>2. CASE c # fg_console
        <4>1. m.start = crtc.start /\ cons'[fg_console] = cons[fg_console]
          BY <3>2, <1>5, Layout DEF GoodStep, Machine
        <4> QED
          BY <4>1 DEF ConIInv, HardwareInSync
      <3> QED
        BY <3>1, <3>2
    <2>3. crtc'.cursor = crtc.cursor
      BY <1>3 DEF ConIInv, TypeOK
    <2>4. c # fg_console => Pointed(crtc'.cursor) = cons'[fg_console].pos
      BY <1>1, <1>5, <2>3, Layout DEF ConIInv, HardwareInSync
    <2> QED
      BY <1>1, <2>1, <2>2, <2>4 DEF HardwareInSync
  <1> QED
    BY <1>2, <1>3, <1>4, <1>6, <1>7, <1>8 DEF ConIInv, SameOutside

\* After con_init every console is at the top of its window, and both
\* register pairs point at the first console.
LEMMA InitGood == ConInit => ConIInv
  <1> SUFFICES ASSUME ConInit PROVE ConIInv
    OBVIOUS
  <1>1. ASSUME NEW c \in Consoles
        PROVE  GoodConsole(c, cons[c]) /\ cons[c].origin = video_mem_start(c)
    <2> DEFINE s == video_mem_start(c)
               k == [origin |-> s, scr_end |-> s + Lines * Columns, pos |-> s,
                     x |-> 0, y |-> 0, top |-> 0, bottom |-> Lines]
    <2>1. s \in Nat /\ Columns \in Nat \ {0} /\ Lines \in Nat \ {0}
          /\ Lines * Columns \in Nat
      BY Layout, ScreenSize DEF ScreenCells
    <2>2. s + Lines * Columns <= video_mem_end(c)
      BY Layout, <2>1 DEF ScreenCells
    <2>3. k \in ConsoleRecord
      <3>1. s \in Int /\ s + Lines * Columns \in Int /\ Lines \in Int
        BY <2>1
      <3> HIDE DEF s
      <3> QED
        BY <3>1 DEF ConsoleRecord
    <2>4. NewConsole(c) = k
      <3>1. NewConsole(c) =
              [k EXCEPT !.x = 0, !.y = 0, !.pos = k.origin + 0 * Columns + 0]
        BY <2>1 DEF NewConsole, gotoxy
      <3>2. k.origin + 0 * Columns + 0 = s
        BY <2>1
      <3>3. k.x = 0 /\ k.y = 0 /\ k.pos = s
        OBVIOUS
      <3> HIDE DEF k, s
      <3>4. [k EXCEPT !.x = 0, !.y = 0, !.pos = s] = k
        BY <2>3, <3>3 DEF ConsoleRecord
      <3> QED
        BY <3>1, <3>2, <3>4
    <2>5. cons[c] = k
      BY <2>4 DEF ConInit
    <2>6. CursorAddress(k)
      BY <2>1 DEF CursorAddress
    <2>7. ScreenWithin(k, s, video_mem_end(c))
      BY <2>1, <2>2 DEF ScreenWithin
    <2> QED
      BY <2>3, <2>5, <2>6, <2>7 DEF GoodConsole
  <1>2. CursorMatchesPosition /\ ScreenInWindow
    BY <1>1 DEF CursorMatchesPosition, ScreenInWindow, GoodConsole
  <1>3. cons[fg_console].pos = cons[fg_console].origin
        /\ cons[fg_console].origin \in video_mem_base .. (video_mem_base + VideoCells)
    <2>1. cons[fg_console] = NewConsole(fg_console)
      BY Layout DEF ConInit
    <2>2. cons[fg_console].pos = cons[fg_console].origin
      BY <2>1, Layout, ScreenSize DEF NewConsole, gotoxy
    <2>3. cons[fg_console].origin \in video_mem_base .. (video_mem_base + VideoCells)
      BY <1>1, Layout, ScreenSize
    <2> QED
      BY <2>2, <2>3
  <1>4. /\ Reg(cons[fg_console].origin) \in Reg8
        /\ Pointed(Reg(cons[fg_console].origin)) = cons[fg_console].origin
    BY <1>3, RegisterPair
  <1>5. TypeOK
    <2>1. cons \in [Consoles -> ConsoleRecord]
      BY <1>1 DEF ConInit, GoodConsole
    <2>2. vram \in [Addr -> Cells]
      BY Characters DEF ConInit
    <2>3. crtc \in [start : Reg8, cursor : Reg8]
      BY <1>3, <1>4 DEF ConInit
    <2>4. busy \in [op : {"idle", "write", "print"}, con : Consoles]
      BY Layout DEF ConInit, Idle
    <2> QED
      BY <2>1, <2>2, <2>3, <2>4 DEF TypeOK
  <1>6. HardwareInSync
    BY <1>3, <1>4 DEF ConInit, HardwareInSync
  <1> QED
    BY <1>2, <1>5, <1>6 DEF ConIInv

\* set_cursor: the address of the cursor is one the registers can hold.
LEMMA SetCursorGood == ConIInv /\ SetCursor => ConIInv' /\ UNCHANGED vram
  <1> SUFFICES ASSUME ConIInv, SetCursor PROVE ConIInv' /\ UNCHANGED vram
    OBVIOUS
  <1>1. UNCHANGED <<cons, vram>> /\ busy' = Idle
    BY DEF SetCursor
  <1>2. Idle \in [op : {"idle", "write", "print"}, con : Consoles]
    BY Layout DEF Idle
  <1> DEFINE k == cons[fg_console]
  <1>3. k.pos \in video_mem_base .. (video_mem_base + VideoCells)
    <2>1. /\ k.origin \in Int /\ k.x \in 0..Columns /\ k.y \in 0..(Lines - 1)
          /\ k.pos = k.origin + k.y * Columns + k.x
          /\ video_mem_start(fg_console) <= k.origin
          /\ k.origin + ScreenCells <= video_mem_end(fg_console)
      BY Layout
      DEF ConIInv, TypeOK, CursorMatchesPosition, CursorAddress, ScreenInWindow,
          ScreenWithin, ConsoleRecord, ScreenCells
    <2> HIDE DEF k
    <2>2. /\ k.y + 1 \in Nat /\ k.y + 1 <= Lines /\ k.y \in Nat
          /\ Columns \in Nat /\ Lines \in Nat
      BY <2>1, ScreenSize
    <2>3. (k.y + 1) * Columns <= ScreenCells
      BY <2>2, MulMono DEF ScreenCells
    <2>4. (k.y + 1) * Columns = k.y * Columns + Columns /\ k.y * Columns \in Nat
      BY <2>2, MulNext, MulNat
    <2> QED
      BY <2>1, <2>2, <2>3, <2>4, Layout, ScreenSize
  <1>4. Reg(k.pos) \in Reg8 /\ Pointed(Reg(k.pos)) = k.pos
    BY <1>3, RegisterPair
  <1>5. CASE busy.con # fg_console
    BY <1>1, <1>2, <1>5
    DEF SetCursor, ConIInv, TypeOK, CursorMatchesPosition, ScreenInWindow,
        HardwareInSync
  <1>6. CASE busy.con = fg_console
    <2>1. crtc' = [crtc EXCEPT !.cursor = Reg(k.pos)]
      BY <1>6 DEF SetCursor
    <2> HIDE DEF k
    <2>2. crtc' \in [start : Reg8, cursor : Reg8] /\ crtc'.start = crtc.start
          /\ crtc'.cursor = Reg(k.pos)
      BY <1>4, <2>1 DEF ConIInv, TypeOK
    <2> QED
      BY <1>1, <1>2, <1>4, <2>2
      DEF ConIInv, TypeOK, CursorMatchesPosition, ScreenInWindow, HardwareInSync, k
  <1> QED
    BY <1>5, <1>6

\* Every step keeps the invariant and draws only in the window of the console
\* in use.
LEMMA StepGood ==
    ConIInv /\ [ConNext]_conVars =>
        /\ ConIInv'
        /\ \A a \in Addr : vram'[a] # vram[a] => a \in CellsOf(busy.con)
  <1> SUFFICES ASSUME ConIInv, [ConNext]_conVars
               PROVE  /\ ConIInv'
                      /\ \A a \in Addr : vram'[a] # vram[a] =>
                                             a \in CellsOf(busy.con)
    OBVIOUS
  <1>1. ASSUME NEW c \in Consoles, BeginWrite(c) PROVE ConIInv' /\ UNCHANGED vram
    BY <1>1
    DEF BeginWrite, Idle, ConIInv, TypeOK, CursorMatchesPosition, ScreenInWindow,
        HardwareInSync
  <1>2. ASSUME BeginPrint PROVE ConIInv' /\ UNCHANGED vram
    BY <1>2, Layout
    DEF BeginPrint, Idle, ConIInv, TypeOK, CursorMatchesPosition, ScreenInWindow,
        HardwareInSync
  <1>3. CASE SetCursor
    BY <1>3, SetCursorGood
  <1>4. CASE UNCHANGED conVars
    BY <1>4
    DEF conVars, ConIInv, TypeOK, CursorMatchesPosition, ScreenInWindow,
        HardwareInSync
  <1>5. ASSUME NEW c \in Consoles, NEW ch \in Codes, WriteChar(c, ch)
        PROVE  \E m : GoodStep(busy.con, Machine(busy.con), m) /\ Become(busy.con, m)
                      /\ busy # Idle
    <2>1. c = busy.con /\ busy # Idle
      BY <1>5 DEF WriteChar, Idle
    <2>2. GoodMachine(c, Machine(c))
      BY InvMachine
    <2>3. CASE ch \in Glyphs /\ Become(c, Glyph(c, Machine(c), ch))
      <3>1. ch \in Cells
        BY <2>3 DEF Cells
      <3> QED
        BY <2>1, <2>2, <2>3, <3>1, GlyphGood
    <2>4. CASE ch \in {"LF", "VT"} /\ Become(c, lf(c, Machine(c)))
      BY <2>1, <2>2, <2>4, LfGood
    <2>5. CASE ch = "CR" /\ Become(c, cr(Machine(c)))
      BY <2>1, <2>2, <2>5, CrGood
    <2>6. CASE ch = "CTL" /\ Become(c, Machine(c))
      BY <2>1, <2>2, <2>6, GoodStepRefl
    <2> QED
      BY <1>5, <2>3, <2>4, <2>5, <2>6 DEF WriteChar
  <1>6. ASSUME NEW ch \in Codes, PrintChar(ch)
        PROVE  \E m : GoodStep(busy.con, Machine(busy.con), m) /\ Become(busy.con, m)
                      /\ busy # Idle
    <2> DEFINE c == fg_console
    <2>1. c = busy.con /\ busy # Idle /\ c \in Consoles
      BY <1>6, Layout DEF PrintChar, Idle
    <2> HIDE DEF c
    <2>2. GoodMachine(c, Machine(c))
      BY <2>1, InvMachine
    <2>3. CASE ch \in Glyphs \cup {"VT", "CTL"} /\ Become(c, Glyph(c, Machine(c), ch))
      <3>1. ch \in Cells
        BY <2>3 DEF Cells
      <3> QED
        BY <2>1, <2>2, <2>3, <3>1, GlyphGood
    <2>4. CASE ch = "LF" /\ Become(c, lf(c, cr(Machine(c))))
      <3> DEFINE n == cr(Machine(c))
      <3>1. GoodStep(c, Machine(c), n)
        BY <2>1, <2>2, CrGood
      <3> HIDE DEF n
      <3>2. GoodStep(c, n, lf(c, n))
        BY <2>1, <3>1, LfGood DEF GoodStep
      <3>3. GoodStep(c, Machine(c), lf(c, n))
        BY <3>1, <3>2 DEF GoodStep, SameOutside
      <3> QED
        BY <2>1, <2>4, <3>3 DEF n
    <2>5. CASE ch = "CR" /\ Become(c, cr(Machine(c)))
      BY <2>1, <2>2, <2>5, CrGood
    <2> QED
      BY <1>6, <2>3, <2>4, <2>5 DEF PrintChar, c
  <1>7. ASSUME NEW m, GoodStep(busy.con, Machine(busy.con), m), Become(busy.con, m),
               busy # Idle
        PROVE  /\ ConIInv'
               /\ \A a \in Addr : vram'[a] # vram[a] => a \in CellsOf(busy.con)
    BY <1>7, BecomeGood
  <1> QED
    BY <1>1, <1>2, <1>3, <1>4, <1>5, <1>6, <1>7 DEF ConNext

\* The driver's invariant holds throughout, for every geometry con_init can
\* find: the cursor address, the screen's place and the registers agree.
THEOREM ConInvariant == ConSpec => []ConIInv
  <1>1. ConInit => ConIInv
    BY InitGood
  <1>2. ConIInv /\ [ConNext]_conVars => ConIInv'
    BY StepGood
  <1> QED
    BY <1>1, <1>2, PTL DEF ConSpec

\* Types of the driver's variables: TypeOK of Console.tla.
THEOREM TypeCorrect == ConSpec => []TypeOK
  <1>1. ConIInv => TypeOK
    BY DEF ConIInv
  <1> QED
    BY <1>1, ConInvariant, PTL

\* pos never drifts from (x, y), through wrapping and both ways of scrolling.
THEOREM CursorCorrect == ConSpec => []CursorMatchesPosition
  <1>1. ConIInv => CursorMatchesPosition
    BY DEF ConIInv
  <1> QED
    BY <1>1, ConInvariant, PTL

\* scrup never moves the visible screen out of its console's window.
THEOREM ScreenConfined == ConSpec => []ScreenInWindow
  <1>1. ConIInv => ScreenInWindow
    BY DEF ConIInv
  <1> QED
    BY <1>1, ConInvariant, PTL

\* The CRT controller shows the foreground console, and between calls its
\* cursor is where the next character goes.
THEOREM HardwareCorrect == ConSpec => []HardwareInSync
  <1>1. ConIInv => HardwareInSync
    BY DEF ConIInv
  <1> QED
    BY <1>1, ConInvariant, PTL

\* No step of output changes a cell outside the window of its console.
THEOREM StoresConfined == ConSpec => StoresStayInWindow
  <1>1. ConIInv /\ [ConNext]_conVars =>
          [\A a \in Addr : vram'[a] # vram[a] =>
              a \in video_mem_start(busy.con) .. (video_mem_end(busy.con) - 1)]_conVars
    BY StepGood DEF CellsOf
  <1> QED
    BY <1>1, ConInvariant, PTL DEF ConSpec, StoresStayInWindow

-----------------------------------------------------------------------------
(***************************************************************************)
(* Console.tla implements Screen.tla: the cells of a console's screen,     *)
(* wherever scrup has moved it, and the position are those of an ideal     *)
(* terminal, for every geometry and through both ways of scrolling.        *)
(***************************************************************************)
ScreenRows == 0..(Lines - 1)
ScreenCols == 0..(Columns - 1)

\* The screen of a console in a machine of the helpers.
GridOf(m) ==
    [r \in ScreenRows |-> [i \in ScreenCols |-> m.mem[m.k.origin + r * Columns + i]]]

\* The grid and the line after a line feed, as Screen.tla has them.
NextGrid(m) == IF m.k.y + 1 < Lines THEN GridOf(m) ELSE Terminal!Scrolled(GridOf(m))
NextRow(m)  == IF m.k.y + 1 < Lines THEN m.k.y + 1 ELSE m.k.y

-----------------------------------------------------------------------------
(***************************************************************************)
(* The cells of a screen.                                                  *)
(***************************************************************************)
\* Every position of the screen has a cell of its own.
LEMMA ScreenCell ==
    ASSUME NEW r \in ScreenRows, NEW i \in ScreenCols
    PROVE  /\ r \in Nat /\ i \in Nat /\ r * Columns \in Nat
           /\ r * Columns + i \in 0..(ScreenCells - 1)
           /\ \A s \in ScreenRows, j \in ScreenCols :
                 r * Columns + i = s * Columns + j => r = s /\ i = j
  <1>1. /\ Columns \in Nat \ {0} /\ Lines \in Nat \ {0} /\ r \in Nat /\ i \in Nat
        /\ r + 1 \in Nat /\ r + 1 <= Lines /\ i < Columns
    BY ScreenSize DEF ScreenRows, ScreenCols
  <1>2. (r + 1) * Columns <= ScreenCells
    BY <1>1, MulMono DEF ScreenCells
  <1>3. (r + 1) * Columns = r * Columns + Columns /\ r * Columns \in Nat
    BY <1>1, MulNext, MulNat
  <1>4. r * Columns + i \in 0..(ScreenCells - 1)
    <2>1. r * Columns + i < (r + 1) * Columns
      BY <1>1, <1>3
    <2> QED
      BY <1>1, <1>2, <1>3, <2>1, Layout
  <1>5. ASSUME NEW s \in ScreenRows, NEW j \in ScreenCols,
               r * Columns + i = s * Columns + j
        PROVE  r = s /\ i = j
    <2>1. s \in Nat /\ j \in 0..(Columns - 1) /\ i \in 0..(Columns - 1)
      BY DEF ScreenRows, ScreenCols
    <2>2. (r * Columns + i) \div Columns = r /\ (r * Columns + i) % Columns = i
      BY <1>1, <2>1, DivUnique
    <2>3. (s * Columns + j) \div Columns = s /\ (s * Columns + j) % Columns = j
      BY <1>1, <2>1, DivUnique
    <2> QED
      BY <1>5, <2>2, <2>3
  <1> QED
    BY <1>1, <1>3, <1>4, <1>5

\* It lies in the console's window.
LEMMA CellInWindow ==
    ASSUME NEW c \in Consoles, NEW k, GoodConsole(c, k),
           NEW r \in ScreenRows, NEW i \in ScreenCols
    PROVE  /\ k.origin \in Int
           /\ k.origin + r * Columns + i \in CellsOf(c)
           /\ k.origin + r * Columns + i \in Addr
  <1>1. /\ k.origin \in Int /\ video_mem_start(c) <= k.origin
        /\ k.origin + ScreenCells <= video_mem_end(c)
    BY DEF GoodConsole, ScreenWithin, ConsoleRecord, ScreenCells
  <1> DEFINE o == k.origin
             n == r * Columns
  <1>2. n \in Nat /\ i \in Nat /\ n + i \in 0..(ScreenCells - 1)
    BY ScreenCell
  <1>3. /\ video_mem_start(c) \in Nat /\ video_mem_end(c) \in Nat
        /\ video_mem_base <= video_mem_start(c)
        /\ video_mem_end(c) <= video_mem_base + VideoCells
        /\ ScreenCells \in Nat
    BY Layout
  <1>4. o \in Int /\ video_mem_start(c) <= o /\ o + ScreenCells <= video_mem_end(c)
    BY <1>1
  <1> HIDE DEF o, n
  <1>5. o + n + i \in CellsOf(c) /\ o + n + i \in Addr
    BY <1>2, <1>3, <1>4, ScreenSize DEF CellsOf, Addr
  <1> QED
    BY <1>1, <1>5 DEF o, n

\* The windows of two consoles have no cell in common.
LEMMA WindowsApart ==
    ASSUME NEW c \in Consoles, NEW d \in Consoles, c # d
    PROVE  CellsOf(c) \cap CellsOf(d) = {}
  <1>1. /\ c \in Nat /\ d \in Nat /\ window \in Nat /\ video_mem_base \in Nat
    BY Layout, ScreenSize DEF Consoles
  <1>2. ASSUME NEW a \in Nat, NEW b \in Nat, a < b
        PROVE  a * window + window <= b * window
    <2>1. (a + 1) * window <= b * window
      BY <1>1, <1>2, MulMono
    <2> QED
      BY <1>1, <2>1, MulNext
  <1> DEFINE p == c * window
             q == d * window
  <1>3. p \in Nat /\ q \in Nat
    BY <1>1, MulNat
  <1>4. p + window <= q \/ q + window <= p
    BY <1>1, <1>2
  <1>5. /\ CellsOf(c) = (video_mem_base + p) .. ((video_mem_base + p + window) - 1)
        /\ CellsOf(d) = (video_mem_base + q) .. ((video_mem_base + q + window) - 1)
    BY DEF CellsOf, video_mem_start, video_mem_end, WindowStart, WindowEnd
  <1> HIDE DEF p, q
  <1> QED
    BY <1>1, <1>3, <1>4, <1>5

-----------------------------------------------------------------------------
(***************************************************************************)
(* The helpers on the grid.                                                *)
(***************************************************************************)
\* "rep movsl" moves whole double words: nothing is left of an even number of
\* cells.
LEMMA WholeLines == Moved((Lines - 1) * Columns) = (Lines - 1) * Columns
  <1> DEFINE h == Columns \div 2
             l == Lines - 1
  <1>1. h \in Nat /\ l \in Nat /\ Columns = 2 * h
    BY EvenColumns, ScreenSize
  <1> HIDE DEF h, l
  <1>2. l * Columns = 2 * (l * h)
    BY <1>1
  <1>3. (2 * (l * h)) \div 2 = l * h /\ l * h \in Nat
    BY <1>1
  <1> QED
    BY <1>2, <1>3 DEF Moved, l

\* Both ways of scrolling take the top line away and open a blank one: the lines
\* that stay are found one line further on from the new origin.
LEMMA ScrollGrid ==
    ASSUME NEW c \in Consoles, NEW m, GoodMachine(c, m)
    PROVE  /\ GridOf(ScrollScreen(c, m)) = Terminal!Scrolled(GridOf(m))
           /\ ScrollScreen(c, m).k.x = m.k.x
           /\ ScrollScreen(c, m).k.y = m.k.y
  <1> DEFINE k == Shifted(m.k, Columns)
             s == video_mem_start(c)
             n == (Lines - 1) * Columns
             o == m.k.origin
             z == ScrollScreen(c, m)
  <1>1. /\ n \in Nat /\ n + Columns = ScreenCells /\ Moved(n) = n /\ Moved(0) = 0
        /\ Columns \in Nat \ {0} /\ Lines \in Nat \ {0} /\ ScreenCells \in Nat
    BY ScreenSize, MulNat, MulNext, WholeLines DEF ScreenCells, Moved
  <1>2. /\ m \in [k : ConsoleRecord, mem : [Addr -> Cells], start : Reg8]
        /\ m.k \in ConsoleRecord /\ o \in Int /\ m.k.scr_end = o + ScreenCells
        /\ GoodConsole(c, m.k)
    BY DEF GoodMachine, GoodConsole, ScreenWithin, ConsoleRecord, ScreenCells
  <1>3. /\ k \in ConsoleRecord /\ k.origin = o + Columns /\ k.scr_end = o + ScreenCells + Columns
        /\ k.x = m.k.x /\ k.y = m.k.y
    <2>1. Columns \in Int
      BY <1>1
    <2>2. /\ k \in ConsoleRecord /\ k.x = m.k.x /\ k.y = m.k.y
          /\ k.origin = m.k.origin + Columns /\ k.scr_end = m.k.scr_end + Columns
      BY <1>2, <2>1, ShiftedFields
    <2> HIDE DEF k
    <2>3. k.scr_end = o + ScreenCells + Columns
      BY <1>1, <1>2, <2>2
    <2> QED
      BY <2>2, <2>3
  <1>4. s \in Nat /\ GoodConsole(c, z.k)
    BY Layout, ScrollScreenGood
  <1> HIDE DEF n, o, s, k
  <1>5. ASSUME NEW r \in ScreenRows, NEW i \in ScreenCols
        PROVE  /\ r \in Nat /\ i \in 0..(Columns - 1) /\ r * Columns \in Nat
               /\ r * Columns + i \in 0..(ScreenCells - 1)
               /\ z.k.origin + r * Columns + i \in Addr
               /\ r = Lines - 1 => r * Columns = n
               /\ r # Lines - 1 =>
                     /\ r + 1 \in ScreenRows
                     /\ (r + 1) * Columns = r * Columns + Columns
                     /\ r * Columns + i < n
    <2>1. /\ r \in Nat /\ i \in 0..(Columns - 1) /\ r * Columns \in Nat
          /\ r * Columns + i \in 0..(ScreenCells - 1)
      BY ScreenCell DEF ScreenCols
    <2>2. z.k.origin + r * Columns + i \in Addr
      BY <1>4, CellInWindow
    <2>3. ASSUME r # Lines - 1
          PROVE  /\ r + 1 \in ScreenRows
                 /\ (r + 1) * Columns = r * Columns + Columns
                 /\ r * Columns + i < n
      <3>1. r + 1 \in ScreenRows /\ r + 1 <= Lines - 1 /\ r + 1 \in Nat /\ Lines - 1 \in Nat
        BY <1>1, <2>1, <2>3 DEF ScreenRows
      <3>2. (r + 1) * Columns = r * Columns + Columns
        BY <1>1, <2>1, MulNext
      <3>3. (r + 1) * Columns <= n
        BY <1>1, <3>1, MulMono DEF n
      <3> QED
        BY <1>1, <2>1, <3>1, <3>2, <3>3
    <2> QED
      BY <2>1, <2>2, <2>3 DEF n
  <1>6. ASSUME NEW r \in ScreenRows, NEW i \in ScreenCols
        PROVE  z.mem[z.k.origin + r * Columns + i] =
                 IF r = Lines - 1 THEN Blank ELSE m.mem[o + (r + 1) * Columns + i]
    <2> DEFINE x == r * Columns
               a == z.k.origin + x + i
    <2>1. /\ i \in 0..(Columns - 1) /\ x \in Nat /\ x + i \in 0..(ScreenCells - 1)
          /\ a \in Addr /\ (r = Lines - 1 => x = n)
          /\ (r # Lines - 1 => (r + 1) * Columns = x + Columns /\ x + i < n)
      BY <1>5
    <2>2. CASE k.scr_end > video_mem_end(c)
      <3>1. z.mem = CopyAndErase(m.mem, s, k.origin, n) /\ z.k.origin = s
        <4>1. z = [m EXCEPT !.k = Shifted(k, s - k.origin),
                            !.mem = CopyAndErase(m.mem, s, k.origin, n)]
          BY <1>2, <2>2 DEF ScrollScreen, k, s, n
        <4>2. k.origin \in Int /\ s - k.origin \in Int
          BY <1>1, <1>2, <1>3, <1>4
        <4>3. Shifted(k, s - k.origin).origin = k.origin + (s - k.origin)
          BY <1>3, <4>2, ShiftedFields
        <4>4. /\ z.mem = CopyAndErase(m.mem, s, k.origin, n)
              /\ z.k = Shifted(k, s - k.origin)
          BY <1>2, <4>1
        <4> HIDE DEF z
        <4> QED
          BY <1>4, <4>2, <4>3, <4>4
      <3>2. z.mem[a] = IF a \in s .. (s + n - 1) THEN m.mem[a - s + k.origin]
                       ELSE IF a \in (s + n) .. (s + n + Columns - 1) THEN Blank
                       ELSE m.mem[a]
        BY <1>1, <2>1, <3>1 DEF CopyAndErase
      <3>3. a = s + x + i
        BY <3>1
      <3> HIDE DEF a, x
      <3>4. CASE r = Lines - 1
        <4>1. a \notin s .. (s + n - 1) /\ a \in (s + n) .. (s + n + Columns - 1)
          BY <1>1, <1>4, <2>1, <3>3, <3>4
        <4> QED
          BY <3>2, <3>4, <4>1 DEF a, x
      <3>5. CASE r # Lines - 1
        <4>1. a \in s .. (s + n - 1) /\ a - s + k.origin = o + (x + Columns) + i
          BY <1>1, <1>2, <1>3, <1>4, <2>1, <3>3, <3>5
        <4>2. z.mem[a] = m.mem[o + (r + 1) * Columns + i]
          BY <2>1, <3>2, <3>5, <4>1
        <4> QED
          BY <3>5, <4>2 DEF a, x
      <3> QED
        BY <3>4, <3>5
    <2>3. CASE ~(k.scr_end > video_mem_end(c))
      <3>1. z.mem = CopyAndErase(m.mem, k.scr_end - Columns, k.scr_end - Columns, 0)
            /\ z.k.origin = o + Columns
        BY <1>2, <1>3, <2>3 DEF ScrollScreen, EraseLine, k
      <3> DEFINE e == k.scr_end - Columns
      <3>2. e = o + ScreenCells
        BY <1>1, <1>2, <1>3
      <3> HIDE DEF e
      <3>3. z.mem[a] = IF a \in e .. (e + 0 - 1) THEN m.mem[a - e + e]
                       ELSE IF a \in (e + 0) .. (e + 0 + Columns - 1) THEN Blank
                       ELSE m.mem[a]
        BY <1>1, <2>1, <3>1 DEF CopyAndErase, e
      <3>4. a = o + Columns + x + i
        BY <3>1
      <3> HIDE DEF a, x
      <3>5. a \notin e .. (e + 0 - 1)
        BY <1>1, <1>2, <3>2
      <3>6. CASE r = Lines - 1
        <4>1. a \in (e + 0) .. (e + 0 + Columns - 1)
          BY <1>1, <1>2, <2>1, <3>2, <3>4, <3>6
        <4> QED
          BY <3>3, <3>5, <3>6, <4>1 DEF a, x
      <3>7. CASE r # Lines - 1
        <4>1. a \notin (e + 0) .. (e + 0 + Columns - 1) /\ a = o + (x + Columns) + i
          BY <1>1, <1>2, <2>1, <3>2, <3>4, <3>7
        <4>2. z.mem[a] = m.mem[o + (r + 1) * Columns + i]
          BY <2>1, <3>3, <3>5, <3>7, <4>1
        <4> QED
          BY <3>7, <4>2 DEF a, x
      <3> QED
        BY <3>6, <3>7
    <2> QED
      BY <2>2, <2>3
  <1>7. ASSUME NEW r \in ScreenRows, r # Lines - 1
        PROVE  GridOf(m)[r + 1] = [i \in ScreenCols |-> m.mem[o + (r + 1) * Columns + i]]
    <2>1. r + 1 \in ScreenRows
      BY <1>1, <1>7 DEF ScreenRows
    <2> QED
      BY <2>1 DEF GridOf, o
  <1>8. GridOf(z) = Terminal!Scrolled(GridOf(m))
    <2> DEFINE g == GridOf(m)
    <2>1. Terminal!Scrolled(g) =
            [r \in ScreenRows |-> IF r = Lines - 1 THEN [i \in ScreenCols |-> Blank] ELSE g[r + 1]]
      BY DEF Terminal!Scrolled, Terminal!Rows, Terminal!Cols, ScreenRows, ScreenCols
    <2> HIDE DEF z, g
    <2>2. ASSUME NEW r \in ScreenRows
          PROVE  [i \in ScreenCols |-> z.mem[z.k.origin + r * Columns + i]] =
                   IF r = Lines - 1 THEN [i \in ScreenCols |-> Blank] ELSE g[r + 1]
      BY <1>6, <1>7 DEF g
    <2> QED
      BY <2>1, <2>2 DEF GridOf, g
  <1>9. z.k.x = m.k.x /\ z.k.y = m.k.y
    <2>1. CASE k.scr_end > video_mem_end(c)
      <3>1. z.k = Shifted(k, s - k.origin)
        BY <1>2, <2>1 DEF ScrollScreen, k, s
      <3>2. s - k.origin \in Int
        BY <1>1, <1>2, <1>3, <1>4
      <3> QED
        BY <1>3, <3>1, <3>2, ShiftedFields
    <2>2. CASE ~(k.scr_end > video_mem_end(c))
      <3>1. z.k = k
        BY <1>2, <2>2 DEF ScrollScreen, k
      <3> QED
        BY <1>3, <3>1
    <2> QED
      BY <2>1, <2>2
  <1> QED
    BY <1>8, <1>9
\* A line feed moves to the next line or scrolls, and stays in the column.
LEMMA LfGrid ==
    ASSUME NEW c \in Consoles, NEW m, GoodMachine(c, m)
    PROVE  /\ GridOf(lf(c, m)) = NextGrid(m)
           /\ lf(c, m).k.x = m.k.x
           /\ lf(c, m).k.y = NextRow(m)
  <1>1. /\ m.k \in ConsoleRecord /\ m.k.bottom = Lines /\ m.k.top = 0
        /\ m \in [k : ConsoleRecord, mem : [Addr -> Cells], start : Reg8]
    BY DEF GoodMachine, GoodConsole, ScreenWithin
  <1>2. CASE m.k.y + 1 < Lines
    <2> DEFINE n == [m EXCEPT !.k.y = @ + 1, !.k.pos = @ + Columns]
    <2>1. lf(c, m) = n
      BY <1>1, <1>2 DEF lf
    <2>2. n.mem = m.mem /\ n.k.origin = m.k.origin /\ n.k.x = m.k.x /\ n.k.y = m.k.y + 1
      BY <1>1 DEF ConsoleRecord
    <2> HIDE DEF n
    <2>3. GridOf(n) = GridOf(m)
      BY <2>2 DEF GridOf
    <2> QED
      BY <1>2, <2>1, <2>2, <2>3 DEF NextGrid, NextRow
  <1>3. CASE ~(m.k.y + 1 < Lines)
    <2> DEFINE z == ScrollScreen(c, m)
    <2>1. lf(c, m) = set_origin(c, z)
      BY <1>1, <1>3, ScreenSize DEF lf, scrup
    <2>2. set_origin(c, z).k = z.k /\ set_origin(c, z).mem = z.mem
      BY ScrollScreenGood, SetOriginGood
    <2>3. GridOf(z) = Terminal!Scrolled(GridOf(m)) /\ z.k.x = m.k.x /\ z.k.y = m.k.y
      BY ScrollGrid
    <2> HIDE DEF z
    <2>4. GridOf(set_origin(c, z)) = GridOf(z)
      BY <2>2 DEF GridOf
    <2> QED
      BY <1>3, <2>1, <2>2, <2>3, <2>4 DEF NextGrid, NextRow
  <1> QED
    BY <1>2, <1>3

\* A carriage return only moves to the first column.
LEMMA CrGrid ==
    ASSUME NEW c \in Consoles, NEW m, GoodMachine(c, m)
    PROVE  GridOf(cr(m)) = GridOf(m) /\ cr(m).k.x = 0 /\ cr(m).k.y = m.k.y
  <1>1. /\ m.k \in ConsoleRecord
        /\ m \in [k : ConsoleRecord, mem : [Addr -> Cells], start : Reg8]
    BY DEF GoodMachine
  <1>2. /\ cr(m).mem = m.mem /\ cr(m).k.origin = m.k.origin
        /\ cr(m).k.x = 0 /\ cr(m).k.y = m.k.y
    BY <1>1 DEF cr, ConsoleRecord
  <1> QED
    BY <1>2 DEF GridOf

\* A character stored at the cursor address changes one cell of the screen,
\* the one at the position, since no two positions share a cell.
LEMMA StoreGrid ==
    ASSUME NEW c \in Consoles, NEW m, GoodMachine(c, m),
           m.k.x \in 0..(Columns - 1), NEW ch \in Cells
    PROVE  /\ GridOf(Store(m, ch)) = [GridOf(m) EXCEPT ![m.k.y][m.k.x] = ch]
           /\ Store(m, ch).k.x = m.k.x + 1
           /\ Store(m, ch).k.y = m.k.y
  <1> DEFINE z == Store(m, ch)
             o == m.k.origin
             y == m.k.y
             x == m.k.x
             p == m.k.pos
  <1>1. /\ m.k \in ConsoleRecord /\ GoodConsole(c, m.k)
        /\ m \in [k : ConsoleRecord, mem : [Addr -> Cells], start : Reg8]
        /\ o \in Int /\ y \in ScreenRows /\ x \in ScreenCols /\ p = o + y * Columns + x
    BY DEF GoodMachine, GoodConsole, ConsoleRecord, CursorAddress, ScreenRows, ScreenCols
  <1>2. /\ z.mem = [m.mem EXCEPT ![p] = ch] /\ z.k.origin = o
        /\ z.k.x = x + 1 /\ z.k.y = y
    BY <1>1 DEF Store, ConsoleRecord
  <1> HIDE DEF z, o, y, x, p
  <1>3. ASSUME NEW r \in ScreenRows, NEW i \in ScreenCols
        PROVE  z.mem[o + r * Columns + i] =
                 IF r = y /\ i = x THEN ch ELSE m.mem[o + r * Columns + i]
    <2>1. o + r * Columns + i \in Addr
      BY <1>1, CellInWindow DEF o
    <2>2. r * Columns \in Nat /\ y * Columns \in Nat /\ i \in Nat /\ x \in Nat
      BY <1>1, ScreenCell
    <2>3. o + r * Columns + i = p <=> r * Columns + i = y * Columns + x
      <3> DEFINE a == r * Columns
                 b == y * Columns
      <3>1. a \in Nat /\ b \in Nat /\ o \in Int /\ p = o + b + x
        BY <1>1, <2>2
      <3> HIDE DEF a, b
      <3>2. o + a + i = p <=> a + i = b + x
        BY <2>2, <3>1
      <3> QED
        BY <3>2 DEF a, b
    <2>4. o + r * Columns + i = p <=> r = y /\ i = x
      <3>1. r * Columns + i = y * Columns + x => r = y /\ i = x
        BY <1>1, ScreenCell
      <3> QED
        BY <2>3, <3>1
    <2>5. m.mem \in [Addr -> Cells]
      BY <1>1
    <2> QED
      BY <1>2, <2>1, <2>4, <2>5
  <1>4. GridOf(z) = [GridOf(m) EXCEPT ![y][x] = ch]
    <2> DEFINE g == GridOf(m)
               Row(r) == [i \in ScreenCols |-> m.mem[o + r * Columns + i]]
    <2>1. g = [r \in ScreenRows |-> Row(r)]
      BY DEF GridOf, o
    <2>2. g[y] = Row(y)
      BY <1>1, <2>1
    <2>3. [g[y] EXCEPT ![x] = ch] =
            [i \in ScreenCols |-> IF i = x THEN ch ELSE m.mem[o + y * Columns + i]]
      BY <2>2
    <2>4. [g EXCEPT ![y][x] = ch] =
            [r \in ScreenRows |-> IF r = y THEN [g[y] EXCEPT ![x] = ch] ELSE Row(r)]
      BY <2>1
    <2> HIDE DEF g
    <2>5. ASSUME NEW r \in ScreenRows
          PROVE  [i \in ScreenCols |-> z.mem[o + r * Columns + i]] =
                   IF r = y THEN [g[y] EXCEPT ![x] = ch] ELSE Row(r)
      <3>1. CASE r = y
        BY <1>3, <2>3, <3>1
      <3>2. CASE r # y
        BY <1>3, <3>2
      <3> QED
        BY <3>1, <3>2
    <2>6. GridOf(z) = [r \in ScreenRows |-> [i \in ScreenCols |-> z.mem[o + r * Columns + i]]]
      BY <1>2 DEF GridOf
    <2> DEFINE Cell(r) == [i \in ScreenCols |-> z.mem[o + r * Columns + i]]
               New(r) == IF r = y THEN [g[y] EXCEPT ![x] = ch] ELSE Row(r)
    <2>7. \A r \in ScreenRows : Cell(r) = New(r)
      BY <2>5
    <2>8. /\ GridOf(z) = [r \in ScreenRows |-> Cell(r)]
          /\ [g EXCEPT ![y][x] = ch] = [r \in ScreenRows |-> New(r)]
      BY <2>4, <2>6
    <2> HIDE DEF Cell, New
    <2>9. [r \in ScreenRows |-> Cell(r)] = [r \in ScreenRows |-> New(r)]
      BY <2>7
    <2> QED
      BY <2>8, <2>9 DEF g
  <1> QED
    BY <1>2, <1>4 DEF z, y, x

\* The grid and the line a glyph is drawn in, as Screen.tla has them.
DrawGrid(m) == IF m.k.x = Columns THEN NextGrid(m) ELSE GridOf(m)
DrawRow(m)  == IF m.k.x = Columns THEN NextRow(m) ELSE m.k.y
DrawCol(m)  == IF m.k.x = Columns THEN 0 ELSE m.k.x

\* The wrap makes room for a glyph.
LEMMA WrapGrid ==
    ASSUME NEW c \in Consoles, NEW m, GoodMachine(c, m)
    PROVE  /\ GridOf(Wrap(c, m)) = DrawGrid(m)
           /\ Wrap(c, m).k.x = DrawCol(m)
           /\ Wrap(c, m).k.y = DrawRow(m)
  <1>1. /\ m.k \in ConsoleRecord
        /\ m \in [k : ConsoleRecord, mem : [Addr -> Cells], start : Reg8]
        /\ m.k.pos \in Int /\ m.k.x \in 0..Columns /\ Columns \in Nat \ {0}
        /\ m.k.origin \in Int /\ m.k.y \in Nat /\ m.k.y * Columns \in Nat
        /\ m.k.pos = m.k.origin + m.k.y * Columns + m.k.x
        /\ m.k.y \in 0..(Lines - 1)
    BY ScreenSize, MulNat DEF GoodMachine, GoodConsole, ConsoleRecord, CursorAddress
  <1>2. CASE m.k.x >= Columns
    <2> DEFINE j == [m.k EXCEPT !.x = m.k.x - Columns, !.pos = m.k.pos - Columns]
               n == [m EXCEPT !.k = j]
    <2>1. j \in ConsoleRecord
      <3>1. m.k.x - Columns \in Int /\ m.k.pos - Columns \in Int
        BY <1>1
      <3> QED
        BY <1>1, <3>1, CursorUpdate
    <2>2. /\ j.y = m.k.y /\ j.pos = m.k.pos - Columns /\ j.x = m.k.x - Columns
          /\ j.origin = m.k.origin /\ j.scr_end = m.k.scr_end
          /\ j.top = m.k.top /\ j.bottom = m.k.bottom
      BY <1>1 DEF ConsoleRecord
    <2>3. Wrap(c, m) = lf(c, n)
      BY <1>1, <1>2 DEF Wrap
    <2> HIDE DEF j
    <2>4. CursorAddress(j) /\ j.x = 0
      BY <1>1, <1>2, <2>2 DEF CursorAddress
    <2>5. /\ GoodMachine(c, n) /\ n.mem = m.mem /\ n.k.x = 0 /\ n.k.y = m.k.y
          /\ n.k.origin = m.k.origin
      BY <1>1, <2>1, <2>2, <2>4 DEF GoodMachine, GoodConsole, ScreenWithin, Shows
    <2> HIDE DEF n
    <2>6. GridOf(n) = GridOf(m)
      BY <2>5 DEF GridOf
    <2>7. NextGrid(n) = NextGrid(m) /\ NextRow(n) = NextRow(m)
      BY <2>5, <2>6 DEF NextGrid, NextRow
    <2>8. /\ GridOf(lf(c, n)) = NextGrid(n) /\ lf(c, n).k.x = n.k.x
          /\ lf(c, n).k.y = NextRow(n)
      BY <2>5, LfGrid
    <2>9. m.k.x = Columns
      BY <1>1, <1>2
    <2> QED
      BY <2>3, <2>5, <2>7, <2>8, <2>9 DEF DrawGrid, DrawRow, DrawCol
  <1>3. CASE ~(m.k.x >= Columns)
    <2>1. Wrap(c, m) = m
      BY <1>3 DEF Wrap
    <2>2. m.k.x # Columns
      BY <1>1, <1>3
    <2> QED
      BY <2>1, <2>2 DEF DrawGrid, DrawRow, DrawCol
  <1> QED
    BY <1>2, <1>3

\* A glyph is drawn.
LEMMA GlyphGrid ==
    ASSUME NEW c \in Consoles, NEW m, GoodMachine(c, m), NEW ch \in Cells
    PROVE  /\ GridOf(Glyph(c, m, ch)) = [DrawGrid(m) EXCEPT ![DrawRow(m)][DrawCol(m)] = ch]
           /\ Glyph(c, m, ch).k.x = DrawCol(m) + 1
           /\ Glyph(c, m, ch).k.y = DrawRow(m)
  <1> DEFINE n == Wrap(c, m)
  <1>1. GoodMachine(c, n) /\ n.k.x \in 0..(Columns - 1)
    BY WrapGood DEF GoodStep
  <1>2. GridOf(n) = DrawGrid(m) /\ n.k.x = DrawCol(m) /\ n.k.y = DrawRow(m)
    BY WrapGrid
  <1>3. Glyph(c, m, ch) = Store(n, ch)
    BY DEF Glyph
  <1> HIDE DEF n
  <1>4. /\ GridOf(Store(n, ch)) = [GridOf(n) EXCEPT ![n.k.y][n.k.x] = ch]
        /\ Store(n, ch).k.x = n.k.x + 1 /\ Store(n, ch).k.y = n.k.y
    BY <1>1, StoreGrid
  <1> QED
    BY <1>2, <1>3, <1>4

-----------------------------------------------------------------------------
(***************************************************************************)
(* The steps.                                                              *)
(***************************************************************************)
\* What the mapping says of a console is the grid of its machine.
LEMMA Mapped ==
    ASSUME ConIInv
    PROVE  /\ gridOf = [c \in Consoles |-> GridOf(Machine(c))]
           /\ \A c \in Consoles : /\ gridOf[c] = GridOf(Machine(c))
                                  /\ xOf[c] = Machine(c).k.x
                                  /\ yOf[c] = Machine(c).k.y
  BY DEF gridOf, xOf, yOf, GridOf, Machine, ScreenRows, ScreenCols

\* Output on one console changes the grid of that console only.
LEMMA BecomeGrid ==
    ASSUME ConIInv, NEW c \in Consoles, NEW n, GoodStep(c, Machine(c), n),
           Become(c, n)
    PROVE  /\ gridOf' = [gridOf EXCEPT ![c] = GridOf(n)]
           /\ xOf' = [xOf EXCEPT ![c] = n.k.x]
           /\ yOf' = [yOf EXCEPT ![c] = n.k.y]
  <1>1. /\ cons' = [cons EXCEPT ![c] = n.k] /\ vram' = n.mem
        /\ cons \in [Consoles -> ConsoleRecord] /\ SameOutside(c, vram, n.mem)
    BY DEF Become, ConIInv, TypeOK, GoodStep, Machine
  <1>2. /\ xOf' = [xOf EXCEPT ![c] = n.k.x]
        /\ yOf' = [yOf EXCEPT ![c] = n.k.y]
    BY <1>1 DEF xOf, yOf
  <1>3. ASSUME NEW d \in Consoles
        PROVE  gridOf'[d] = IF d = c THEN GridOf(n) ELSE gridOf[d]
    <2>1. gridOf'[d] = [r \in ScreenRows |-> [i \in ScreenCols |->
                          vram'[cons'[d].origin + r * Columns + i]]]
      BY DEF gridOf, ScreenRows, ScreenCols
    <2>2. gridOf[d] = [r \in ScreenRows |-> [i \in ScreenCols |->
                          vram[cons[d].origin + r * Columns + i]]]
      BY DEF gridOf, ScreenRows, ScreenCols
    <2>3. CASE d = c
      <3>1. cons'[d] = n.k
        BY <1>1, <2>3
      <3> QED
        BY <1>1, <2>1, <2>3, <3>1 DEF GridOf
    <2>4. CASE d # c
      <3>1. cons'[d] = cons[d] /\ GoodConsole(d, cons[d])
        BY <1>1, <2>4, InvMachine DEF GoodMachine, Machine
      <3>2. ASSUME NEW r \in ScreenRows, NEW i \in ScreenCols
            PROVE  vram'[cons[d].origin + r * Columns + i]
                     = vram[cons[d].origin + r * Columns + i]
        <4>1. /\ cons[d].origin + r * Columns + i \in CellsOf(d)
              /\ cons[d].origin + r * Columns + i \in Addr
          BY <3>1, CellInWindow
        <4>2. CellsOf(c) \cap CellsOf(d) = {}
          BY <2>4, WindowsApart
        <4> QED
          BY <1>1, <4>1, <4>2 DEF SameOutside
      <3> QED
        BY <2>1, <2>2, <2>4, <3>1, <3>2
    <2> QED
      BY <2>3, <2>4
  <1>4. gridOf' = [gridOf EXCEPT ![c] = GridOf(n)]
    <2>1. gridOf' = [d \in Consoles |-> gridOf'[d]] /\ gridOf = [d \in Consoles |-> gridOf[d]]
      BY DEF gridOf
    <2> QED
      BY <1>3, <2>1
  <1> QED
    BY <1>2, <1>4
\* The new line of a console in the mapping is the one of its machine.
LEMMA MappedNext ==
    ASSUME ConIInv, NEW c \in Consoles
    PROVE  /\ Terminal!Opened(c) = NextGrid(Machine(c))
           /\ Terminal!NextLine(c) = NextRow(Machine(c))
  BY Mapped DEF Terminal!Opened, Terminal!NextLine, NextGrid, NextRow

\* con_write and console_print draw a glyph.
LEMMA DrawStep ==
    ASSUME ConIInv, NEW c \in Consoles, NEW ch \in Cells,
           Become(c, Glyph(c, Machine(c), ch))
    PROVE  Terminal!Draw(c, ch)
  <1> DEFINE m == Machine(c)
             n == Glyph(c, m, ch)
  <1>1. GoodMachine(c, m)
    BY InvMachine
  <1>2. /\ gridOf[c] = GridOf(m) /\ xOf[c] = m.k.x /\ yOf[c] = m.k.y
        /\ Terminal!Opened(c) = NextGrid(m) /\ Terminal!NextLine(c) = NextRow(m)
    BY Mapped, MappedNext
  <1> HIDE DEF m
  <1>3. /\ GridOf(n) = [DrawGrid(m) EXCEPT ![DrawRow(m)][DrawCol(m)] = ch]
        /\ n.k.x = DrawCol(m) + 1
        /\ n.k.y = DrawRow(m)
    BY <1>1, GlyphGrid
  <1>4. GoodStep(c, m, n)
    BY <1>1, GlyphGood
  <1> HIDE DEF n
  <1>5. /\ gridOf' = [gridOf EXCEPT ![c] = GridOf(n)]
        /\ xOf' = [xOf EXCEPT ![c] = n.k.x]
        /\ yOf' = [yOf EXCEPT ![c] = n.k.y]
    BY <1>4, BecomeGrid DEF m, n
  <1>6. CASE m.k.x = Columns
    BY <1>2, <1>3, <1>5, <1>6 DEF Terminal!Draw, DrawGrid, DrawRow, DrawCol
  <1>7. CASE m.k.x # Columns
    BY <1>2, <1>3, <1>5, <1>7 DEF Terminal!Draw, DrawGrid, DrawRow, DrawCol
  <1> QED
    BY <1>6, <1>7

\* A line feed of con_write.
LEMMA LineFeedStep ==
    ASSUME ConIInv, NEW c \in Consoles, Become(c, lf(c, Machine(c)))
    PROVE  Terminal!LineFeed(c)
  <1> DEFINE m == Machine(c)
             n == lf(c, m)
  <1>1. GoodMachine(c, m)
    BY InvMachine
  <1>2. /\ xOf[c] = m.k.x
        /\ Terminal!Opened(c) = NextGrid(m) /\ Terminal!NextLine(c) = NextRow(m)
    BY Mapped, MappedNext
  <1> HIDE DEF m
  <1>3. GridOf(n) = NextGrid(m) /\ n.k.x = m.k.x /\ n.k.y = NextRow(m)
    BY <1>1, LfGrid
  <1>4. GoodStep(c, m, n)
    BY <1>1, LfGood
  <1> HIDE DEF n
  <1>5. /\ gridOf' = [gridOf EXCEPT ![c] = GridOf(n)]
        /\ xOf' = [xOf EXCEPT ![c] = n.k.x]
        /\ yOf' = [yOf EXCEPT ![c] = n.k.y]
    BY <1>4, BecomeGrid DEF m, n
  <1>6. [xOf EXCEPT ![c] = xOf[c]] = xOf
    BY DEF xOf
  <1> QED
    BY <1>2, <1>3, <1>5, <1>6 DEF Terminal!LineFeed

\* A carriage return.
LEMMA CarriageReturnStep ==
    ASSUME ConIInv, NEW c \in Consoles, Become(c, cr(Machine(c)))
    PROVE  Terminal!CarriageReturn(c)
  <1> DEFINE m == Machine(c)
             n == cr(m)
  <1>1. GoodMachine(c, m)
    BY InvMachine
  <1>2. gridOf[c] = GridOf(m) /\ yOf[c] = m.k.y
    BY Mapped
  <1> HIDE DEF m
  <1>3. GridOf(n) = GridOf(m) /\ n.k.x = 0 /\ n.k.y = m.k.y
    BY <1>1, CrGrid
  <1>4. GoodStep(c, m, n)
    BY <1>1, CrGood
  <1> HIDE DEF n
  <1>5. /\ gridOf' = [gridOf EXCEPT ![c] = GridOf(n)]
        /\ xOf' = [xOf EXCEPT ![c] = n.k.x]
        /\ yOf' = [yOf EXCEPT ![c] = n.k.y]
    BY <1>4, BecomeGrid DEF m, n
  <1>6. [gridOf EXCEPT ![c] = gridOf[c]] = gridOf /\ [yOf EXCEPT ![c] = yOf[c]] = yOf
    BY DEF gridOf, yOf
  <1> QED
    BY <1>2, <1>3, <1>5, <1>6 DEF Terminal!CarriageReturn

\* console_print's line feed: a carriage return first.
LEMMA NewLineStep ==
    ASSUME ConIInv, NEW c \in Consoles, Become(c, lf(c, cr(Machine(c))))
    PROVE  Terminal!NewLine(c)
  <1> DEFINE m == Machine(c)
             j == cr(m)
             n == lf(c, j)
  <1>1. GoodMachine(c, m)
    BY InvMachine
  <1>2. Terminal!Opened(c) = NextGrid(m) /\ Terminal!NextLine(c) = NextRow(m)
    BY MappedNext
  <1> HIDE DEF m
  <1>3. GoodStep(c, m, j) /\ GoodMachine(c, j)
    BY <1>1, CrGood DEF GoodStep
  <1>4. NextGrid(j) = NextGrid(m) /\ NextRow(j) = NextRow(m) /\ j.k.x = 0
    BY <1>1, CrGrid DEF NextGrid, NextRow
  <1> HIDE DEF j
  <1>5. GridOf(n) = NextGrid(m) /\ n.k.x = 0 /\ n.k.y = NextRow(m)
    BY <1>3, <1>4, LfGrid
  <1>6. GoodStep(c, m, n)
    BY <1>3, LfGood DEF GoodStep, SameOutside
  <1> HIDE DEF n
  <1>7. /\ gridOf' = [gridOf EXCEPT ![c] = GridOf(n)]
        /\ xOf' = [xOf EXCEPT ![c] = n.k.x]
        /\ yOf' = [yOf EXCEPT ![c] = n.k.y]
    BY <1>6, BecomeGrid DEF m, n, j
  <1> QED
    BY <1>2, <1>5, <1>7 DEF Terminal!NewLine

\* The initial screens show what the firmware left, with the cursor at home.
LEMMA ScreenStarts == ConInit => Terminal!ScreenInit
  <1> SUFFICES ASSUME ConInit PROVE Terminal!ScreenInit
    OBVIOUS
  <1>1. ConIInv
    BY InitGood
  <1>2. ASSUME NEW c \in Consoles, NEW r \in ScreenRows, NEW i \in ScreenCols
        PROVE  vram[cons[c].origin + r * Columns + i] \in Cells
    <2>1. GoodConsole(c, cons[c]) /\ vram \in [Addr -> Cells]
      BY <1>1, InvMachine DEF GoodMachine, Machine, ConIInv, TypeOK
    <2> QED
      BY <2>1, CellInWindow
  <1>3. gridOf \in [Consoles -> [ScreenRows -> [ScreenCols -> Cells]]]
    BY <1>2 DEF gridOf, ScreenRows, ScreenCols
  <1>4. ASSUME NEW c \in Consoles PROVE cons[c].x = 0 /\ cons[c].y = 0
    <2>1. 0 <= Columns /\ ~(0 >= Lines)
      BY ScreenSize
    <2>2. cons[c] = NewConsole(c)
      BY DEF ConInit
    <2> QED
      BY <2>1, <2>2 DEF NewConsole, gotoxy
  <1>5. xOf = [c \in Consoles |-> 0] /\ yOf = [c \in Consoles |-> 0]
    BY <1>4 DEF xOf, yOf
  <1> QED
    BY <1>3, <1>5
    DEF Terminal!ScreenInit, Terminal!Rows, Terminal!Cols, ScreenRows, ScreenCols

\* Every step of the driver is a step of the terminal, or changes no screen.
LEMMA ScreenStep ==
    ConIInv /\ [ConNext]_conVars => [Terminal!ScreenNext]_Terminal!screenVars
  <1> SUFFICES ASSUME ConIInv, [ConNext]_conVars
               PROVE  Terminal!ScreenNext \/ UNCHANGED <<gridOf, xOf, yOf>>
    BY DEF Terminal!screenVars
  <1>1. ASSUME UNCHANGED <<cons, vram>> PROVE UNCHANGED <<gridOf, xOf, yOf>>
    BY <1>1 DEF gridOf, xOf, yOf
  <1>2. CASE UNCHANGED conVars
    BY <1>1, <1>2 DEF conVars
  <1>3. CASE \E c \in Consoles : BeginWrite(c)
    BY <1>1, <1>3 DEF BeginWrite
  <1>4. ASSUME NEW c \in Consoles, NEW ch \in Codes, WriteChar(c, ch)
        PROVE  Terminal!ScreenNext \/ UNCHANGED <<gridOf, xOf, yOf>>
    <2>1. CASE ch \in Glyphs /\ Become(c, Glyph(c, Machine(c), ch))
      <3>1. ch \in Cells
        BY <2>1 DEF Cells
      <3> QED
        BY <2>1, <3>1, DrawStep DEF Terminal!ScreenNext
    <2>2. CASE ch \in {"LF", "VT"} /\ Become(c, lf(c, Machine(c)))
      BY <2>2, LineFeedStep DEF Terminal!ScreenNext
    <2>3. CASE ch = "CR" /\ Become(c, cr(Machine(c)))
      BY <2>3, CarriageReturnStep DEF Terminal!ScreenNext
    <2>4. CASE ch = "CTL" /\ Become(c, Machine(c))
      <3>1. cons' = cons /\ vram' = vram
        BY <2>4 DEF Become, Machine, ConIInv, TypeOK
      <3> QED
        BY <1>1, <3>1
    <2> QED
      BY <1>4, <2>1, <2>2, <2>3, <2>4 DEF WriteChar
  <1>5. CASE BeginPrint
    BY <1>1, <1>5 DEF BeginPrint
  <1>6. ASSUME NEW ch \in Codes, PrintChar(ch)
        PROVE  Terminal!ScreenNext
    <2> DEFINE c == fg_console
    <2>1. c \in Consoles
      BY Layout
    <2> HIDE DEF c
    <2>2. CASE ch = "LF" /\ Become(c, lf(c, cr(Machine(c))))
      BY <2>1, <2>2, NewLineStep DEF Terminal!ScreenNext
    <2>3. CASE ch = "CR" /\ Become(c, cr(Machine(c)))
      BY <2>1, <2>3, CarriageReturnStep DEF Terminal!ScreenNext
    <2>4. CASE ch \in Glyphs \cup {"VT", "CTL"} /\ Become(c, Glyph(c, Machine(c), ch))
      <3>1. ch \in Cells
        BY <2>4 DEF Cells
      <3> QED
        BY <2>1, <2>4, <3>1, DrawStep DEF Terminal!ScreenNext
    <2> QED
      BY <1>6, <2>2, <2>3, <2>4 DEF PrintChar, c
  <1>7. CASE SetCursor
    BY <1>1, <1>7 DEF SetCursor
  <1> QED
    BY <1>2, <1>3, <1>4, <1>5, <1>6, <1>7 DEF ConNext

-----------------------------------------------------------------------------
\* The driver shows what the ideal terminal of Screen.tla shows: whatever is
\* written, and however often a screen has been moved through its window by
\* scrup, every console's screen, read from its origin, has the cells and the
\* position that drawing on a plain grid would give, and output on one console
\* changes no other.
THEOREM ImplementsTerminal == ConSpec => ImplementsScreen
  <1>1. ConInit => Terminal!ScreenInit
    BY ScreenStarts
  <1>2. ConIInv /\ [ConNext]_conVars => [Terminal!ScreenNext]_Terminal!screenVars
    BY ScreenStep
  <1>3. ConSpec => []ConIInv
    BY ConInvariant
  <1> QED
    BY <1>1, <1>2, <1>3, PTL DEF ConSpec, ImplementsScreen, Terminal!ScreenSpec
\* What a code of con_write does on the terminal.
LEMMA WriteOnTerminal ==
    ASSUME ConIInv, NEW c \in Consoles, NEW ch \in Codes, WriteChar(c, ch)
    PROVE  CASE ch \in Glyphs       -> Terminal!Draw(c, ch)
             [] ch \in {"LF", "VT"} -> Terminal!LineFeed(c)
             [] ch = "CR"           -> Terminal!CarriageReturn(c)
             [] ch = "CTL"          -> UNCHANGED <<gridOf, xOf, yOf>>
  <1>1. "LF" \notin Glyphs /\ "VT" \notin Glyphs /\ "CR" \notin Glyphs /\ "CTL" \notin Glyphs
    BY Characters
  <1>2. CASE ch \in Glyphs /\ Become(c, Glyph(c, Machine(c), ch))
    <2>1. ch \in Cells
      BY <1>2 DEF Cells
    <2>2. Terminal!Draw(c, ch)
      BY <1>2, <2>1, DrawStep
    <2> QED
      BY <1>1, <1>2, <2>2
  <1>3. CASE ch \in {"LF", "VT"} /\ Become(c, lf(c, Machine(c)))
    <2>1. Terminal!LineFeed(c)
      BY <1>3, LineFeedStep
    <2> QED
      BY <1>1, <1>3, <2>1
  <1>4. CASE ch = "CR" /\ Become(c, cr(Machine(c)))
    <2>1. Terminal!CarriageReturn(c)
      BY <1>4, CarriageReturnStep
    <2> QED
      BY <1>1, <1>4, <2>1
  <1>5. CASE ch = "CTL" /\ Become(c, Machine(c))
    <2>1. cons' = cons /\ vram' = vram
      BY <1>5 DEF Become, Machine, ConIInv, TypeOK
    <2>2. UNCHANGED <<gridOf, xOf, yOf>>
      BY <2>1 DEF gridOf, xOf, yOf
    <2> QED
      BY <1>1, <1>5, <2>2
  <1> QED
    BY <1>2, <1>3, <1>4, <1>5 DEF WriteChar

\* What a code of console_print does there.
LEMMA PrintOnTerminal ==
    ASSUME ConIInv, NEW ch \in Codes, PrintChar(ch)
    PROVE  CASE ch = "LF" -> Terminal!NewLine(fg_console)
             [] ch = "CR" -> Terminal!CarriageReturn(fg_console)
             [] OTHER     -> Terminal!Draw(fg_console, ch)
  <1> DEFINE c == fg_console
  <1>1. c \in Consoles
    BY Layout
  <1>2. "LF" \notin Glyphs /\ "CR" \notin Glyphs
    BY Characters
  <1> HIDE DEF c
  <1>3. CASE ch = "LF" /\ Become(c, lf(c, cr(Machine(c))))
    <2>1. Terminal!NewLine(c)
      BY <1>1, <1>3, NewLineStep
    <2> QED
      BY <1>3, <2>1 DEF c
  <1>4. CASE ch = "CR" /\ Become(c, cr(Machine(c)))
    <2>1. Terminal!CarriageReturn(c)
      BY <1>1, <1>4, CarriageReturnStep
    <2> QED
      BY <1>4, <2>1 DEF c
  <1>5. CASE ch \in Glyphs \cup {"VT", "CTL"} /\ Become(c, Glyph(c, Machine(c), ch))
    <2>1. ch \in Cells
      BY <1>5 DEF Cells
    <2>2. Terminal!Draw(c, ch)
      BY <1>1, <1>5, <2>1, DrawStep
    <2> QED
      BY <1>2, <1>5, <2>2 DEF c
  <1> QED
    BY <1>3, <1>4, <1>5 DEF PrintChar, c

\* Every code that is written or printed has the effect on its console's screen
\* that it stands for, and a glyph shows up as itself at the cursor (con_write,
\* console_print).
THEOREM CodesOnTerminal == ConSpec => CodesAsTerminal
  <1>1. ConIInv /\ [ConNext]_conVars =>
          [ /\ \A c \in Consoles, ch \in Codes : WriteChar(c, ch) =>
                  CASE ch \in Glyphs       -> Terminal!Draw(c, ch)
                    [] ch \in {"LF", "VT"} -> Terminal!LineFeed(c)
                    [] ch = "CR"           -> Terminal!CarriageReturn(c)
                    [] ch = "CTL"          -> UNCHANGED <<gridOf, xOf, yOf>>
            /\ \A ch \in Codes : PrintChar(ch) =>
                  CASE ch = "LF" -> Terminal!NewLine(fg_console)
                    [] ch = "CR" -> Terminal!CarriageReturn(fg_console)
                    [] OTHER     -> Terminal!Draw(fg_console, ch) ]_conVars
    BY WriteOnTerminal, PrintOnTerminal
  <1> QED
    BY <1>1, ConInvariant, PTL DEF ConSpec, CodesAsTerminal
=============================================================================
