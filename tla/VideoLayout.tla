----------------------------- MODULE VideoLayout -----------------------------
(***************************************************************************)
(* The arithmetic of con_init (kernel/chr_drv/console.c): how the video    *)
(* memory is divided among the virtual consoles.  The operators take sizes *)
(* in any one unit: the code counts bytes, Console.tla character cells.    *)
(***************************************************************************)
EXTENDS Integers

\* NR_CONSOLES = video_memory / (video_num_lines * video_size_row), at most
\* MAX_CONSOLES and at least one.
NrConsoles(memory, lines, rowSize, maxConsoles) ==
    LET fit    == memory \div (lines * rowSize)
        capped == IF fit > maxConsoles THEN maxConsoles ELSE fit
    IN  IF capped = 0 THEN 1 ELSE capped

\* video_memory /= NR_CONSOLES: the size of each console's window.
WindowSize(memory, n) == memory \div n

\* video_mem_start and video_mem_end of console c: base and term advance by
\* one window for each console.
WindowStart(base, window, c) == base + c * window
WindowEnd(base, window, c)   == WindowStart(base, window, c) + window
=============================================================================
