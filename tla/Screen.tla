------------------------------- MODULE Screen -------------------------------
(***************************************************************************)
(* What a console promises, without video memory: each console is a grid   *)
(* of Lines by Columns cells and a cursor.  A glyph is drawn at the cursor *)
(* and the cursor moves right; it may rest one place past the last column, *)
(* in which case the next glyph is drawn at the start of the next line.    *)
(* A line feed on the last line scrolls the grid up by one line and opens  *)
(* a blank one.  No operation on one console changes another.              *)
(*                                                                         *)
(* Console.tla is shown to implement this module.                          *)
(***************************************************************************)
EXTENDS Integers

CONSTANTS Consoles,   \* the consoles
          Columns,    \* characters on a line
          Lines,      \* lines on a screen
          Cells,      \* what a cell can show
          Blank       \* the cell an erased position shows

VARIABLES grid,       \* grid[c][r][k]: the cell in line r, column k
          cx, cy      \* the cursor: 0 <= cx[c] <= Columns, 0 <= cy[c] < Lines

screenVars == <<grid, cx, cy>>

Rows == 0..(Lines - 1)
Cols == 0..(Columns - 1)

ScreenInit ==
    /\ grid \in [Consoles -> [Rows -> [Cols -> Cells]]]
    /\ cx = [c \in Consoles |-> 0]
    /\ cy = [c \in Consoles |-> 0]

\* The grid after the top line has been scrolled off.
Scrolled(g) ==
    [r \in Rows |-> IF r = Lines - 1 THEN [k \in Cols |-> Blank] ELSE g[r + 1]]

\* The cursor line and the grid of console c once a new line was opened.
NextLine(c) == IF cy[c] + 1 < Lines THEN cy[c] + 1 ELSE cy[c]
Opened(c)   == IF cy[c] + 1 < Lines THEN grid[c] ELSE Scrolled(grid[c])

Draw(c, ch) ==
    LET full == cx[c] = Columns
        k    == IF full THEN 0 ELSE cx[c]
        r    == IF full THEN NextLine(c) ELSE cy[c]
        g    == IF full THEN Opened(c) ELSE grid[c]
    IN  /\ grid' = [grid EXCEPT ![c] = [g EXCEPT ![r][k] = ch]]
        /\ cx' = [cx EXCEPT ![c] = k + 1]
        /\ cy' = [cy EXCEPT ![c] = r]

LineFeed(c) ==
    /\ grid' = [grid EXCEPT ![c] = Opened(c)]
    /\ cy' = [cy EXCEPT ![c] = NextLine(c)]
    /\ UNCHANGED cx

CarriageReturn(c) ==
    /\ cx' = [cx EXCEPT ![c] = 0]
    /\ UNCHANGED <<grid, cy>>

NewLine(c) ==
    /\ grid' = [grid EXCEPT ![c] = Opened(c)]
    /\ cy' = [cy EXCEPT ![c] = NextLine(c)]
    /\ cx' = [cx EXCEPT ![c] = 0]

ScreenNext ==
    \E c \in Consoles :
        \/ \E ch \in Cells : Draw(c, ch)
        \/ LineFeed(c)
        \/ CarriageReturn(c)
        \/ NewLine(c)

ScreenSpec == ScreenInit /\ [][ScreenNext]_screenVars
=============================================================================
