# A verification project for mysystem

`mysystem` is a small i386 kernel in the manner of Linux 0.12: a boot sector,
a setup program, a start-up in assembler, and a kernel of which the console
driver, the terminal layer, `printk`, the interrupt entries and a few library
routines exist.  There are no tasks, no memory manager and no file system yet:
the system calls are empty, and the macros for tasks' descriptors are unused.
This directory holds TLA+ models of what exists, TLC runs that check them on
small instances and TLAPS proofs that hold for every value of the constants.

`PROJECT.json` is the index: every model definition with the source lines it
stands for, every run, every property with a slip in the code that would break
it, the hazards, the findings and the theorems.

To check: `tlc -config <X>.cfg <M>` for a run, `tlapm <M>Proofs.tla` for
the proofs of a component.

## 1. The system

| component | state | operations |
|---|---|---|
| image tools (`tools/makeimg.cpp`, `writeimg.c`) | the image `a.img` | makes an empty image; writes boot sector, setup, kernel |
| boot loader (`bootSect.asm`, `setup.asm`) | conventional memory, the drive | move itself, read setup, read the kernel, save parameters, move the kernel, enter protected mode |
| kernel start-up (`head.asm`) | IDT, page directory and tables, stack | `setup_idt`, `test_a20`, `setup_paging`, jump to `main` |
| trap gates (`traps.c`, `asm/system.h`) | IDT, masks of the 8259As | `trap_init`, `_set_gate` |
| interrupt entries (`asm.asm`, `sys_call.asm`, `head.asm`) | registers, kernel stack, IF | one stub for each vector, the common paths, `ignore_int` |
| console driver (`console.c`) | `vc_cons[]`, video memory, CRT controller | `con_init`, `con_write`, `console_print`, scrolling |
| terminal layer (`tty_io.c`, `tty.h`) | `con_table[]`, ring queues | `tty_init`, `tty_write`, queue macros |
| kernel messages (`printk.c`, `panic.c`) | a text buffer | `printk`, `panic` |
| formatting (`vsprintf.c`, `string.asm`) | format, arguments, output | `vsprintf`, `number`, `skip_atoi`, `strlen` |
| main (`init/main.c`) | `memory_end`, the order of the calls | sizes the memory, calls the initialisations, loops |
| start-up time (`init/main.c`) | CMOS clock, `startup_time` | `time_init` |
| calendar (`mktime.c`, `time.h`) | none | `kernel_mktime`, `__isleap` |
| system calls (`sys_call.asm`, `sys.c`, `sys.h`, `unistd.h`) | `sys_call_table`, numbers, the caller's registers | `sys_call`, `_syscall0` to `_syscall3`; the functions are empty |
| scheduler data (`sched.h`, `system.h`, `sched.c`) | GDT, LDTs | `_TSS`, `_LDT`, `str`, `set_base`, `set_limit`, `get_base`, `get_limit`, `_set_tssldt_desc` |
| character classes (`ctype.c`, `ctype.h`) | a constant table, `_ctmp` | the `is*` macros, `tolower`, `toupper` |
| segment access (`segment.c`) | none | `get_fs_byte` and its like |
| headers and build | definitions only | |

### How they interact

* `writeimg` decides where `bootSect` finds setup and the kernel; `bootSect`
  reads both and jumps to `setup`, which leaves the BIOS's answers in 16 bytes at
  0x90000, moves the kernel to 0 and jumps to `head`.  `main` takes the size of
  the memory from these bytes and `con_init` that of the screen; the two sides
  agree on offsets by numbers alone.
* `head` builds the IDT and the page tables and returns into `main`, which
  calls `tty_init` and `printk`.  `trap_init` and `time_init` exist, but their
  calls in `main` are commented out.
* `setup` turns interrupts off and masks the 8259As; `con_init` turns interrupts
  on, by the `sti` in `set_origin` and `set_cursor`; `trap_init` opens the masks.
* `tty_write` puts a user's buffer into a console's write queue and calls
  `con_write`, which empties it.  `printk` calls `vsprintf` and hands the text
  to `console_print`.  Both output paths work on the same console record.
* `scrup` moves the origin of a console in video memory or copies the screen
  back, and `set_origin` and `set_cursor` tell the CRT controller.
* The gates lead to the entries of `asm.asm` and `sys_call.asm`, which save
  the registers, load the kernel's segments, call a C handler and return.
* `sys_call` would find the function of a number in the table of `sys.c`, whose
  order `unistd.h` repeats by hand.  `trap_init` sets no gate to it.

### What is hard about it

* One thread, but interrupts: an NMI or an unmasked line comes between any two
  instructions of a handler, and between the two stores of a gate.
* The clock goes on while `time_init` reads its fields.
* Rings, windows and registers at their limits: a queue of 2^k places that
  keeps one free, a window of 4096 bytes for a screen of 4000, addresses split
  into bytes, page tables filled downwards to entry 0.
* State kept twice: `pos` beside `(x, y)`, `scr_end` beside `origin`, the CRT
  controller beside the foreground console, `head`/`tail` beside a count.
* Code that overwrites memory in which other code is executing (the loader).
* Conventions between assembler and C: arguments, the frame, the direction flag.
* Lists and layouts kept by hand in several files: call numbers and table,
  offsets at 0x90000, sectors of the image.
* Descriptors: base, limit and flags are spread over eight bytes and share one.

The `hazards` of `PROJECT.json` list these at their lines, with the properties
that would show each going wrong.  Four have no property, with the reason noted
there: channel 0 of `tty_write`, which no caller passes; the clock chip's update
in progress and its two-digit years, where the C code is given digits that mean
nothing; and the 80 sectors that `bootSect` reads, which the Makefile would have
to enforce.  Two are covered in part, with a note: a failed read of the drive,
which the fairness of the drive assumes away, and the 1024 bytes of `printk`'s
buffer, which no property compares with the output: `OutputBounded` bounds the
output by the format, and a caller whose format asks for more overflows the buffer.

### What makes each component correct

* Terminal layer: what `tty_write` reports written was shown, in order, once;
  queues are empty between calls; every call returns; a retry makes progress.
* Console: the driver behaves like an ideal terminal (a grid and a cursor);
  output on one console never touches the window of another; the hardware
  shows the foreground console.
* Formatting: each directive takes its own arguments, numbers read back as the
  argument, fields are filled, no format is read beyond its end.
* Clock and calendar: the six fields belong to one moment, and the result is
  the number of seconds since 1970; both files agree which years are leap years.
* Interrupt entries: a handler gives the machine back as it was, whatever
  interrupted it, and its C part runs on the kernel's segments.
* System calls: each number reaches the function of its name with the caller's
  arguments, and the caller gets the result and its other registers back.
* Gates: a vector always has a whole gate, in the end the right one.
* Start-up: no code is overwritten before it has run, the kernel arrives
  complete, 16 MB are mapped one to one and nothing else is, an interrupt that
  may come finds a handler, and what one program left for the next is still
  there when it is read.
* Descriptors: the CPU finds each segment where it was put last and as large as
  was asked for; no store spoils the flags, or the entry of another task.
* Character classes: the table divides ASCII as the C standard does.

## 2. The modules

| module | models | state and actions |
|---|---|---|
| `TtyQueue` | the macros of `tty.h` | operators on a record `head, tail, buf` |
| `Screen` | the abstract terminal | `grid`, `cx`, `cy`; a character a step |
| `VideoLayout` | how `con_init` divides video memory | operators |
| `Console` | `console.c` | `cons`, `vram`, `crtc`; `BeginWrite`, `WriteChar`, `BeginPrint`, `PrintChar`, `SetCursor` |
| `Tty` | `tty_io.c`, `printk.c` over `Console` and `TtyQueue` | queues and the call in progress; an action for each loop iteration |
| `Vsprintf` | `vsprintf.c`, `strlen` | the format pointer, the argument pointer, the output; an action for each kind of directive |
| `Mktime` | `mktime.c`, `__isleap` | a function of a date |
| `Clock` | `time_init` and the chip | the chip, the fields read, the loop; `Tick`, `ReadField`, `Check`, `Convert` |
| `TrapTable` | which handler a vector has | operators |
| `SysCalls` | `sys_call_table`, the numbers of `unistd.h` | constants |
| `Interrupts` | `asm.asm`, `sys_call.asm`, `ignore_int`, `_syscallN` | registers, stack, IF; an instruction a step, interrupts between |
| `BootMachine` | what the parts of the start-up share | the control point, EAX, DF, IF, line 20, the table registers, the masks |
| `Boot` | `makeimg.cpp`, `writeimg.c`, `bootSect.asm`, `setup.asm` | memory by sectors, the drive, the loader's registers |
| `Idt` | `setup_idt`, `trap_init` | the table, store by store |
| `Head` | A20 test and paging of `head.asm` | memory by words, ECX, EDI, the stack |
| `Startup` | these three and `main`, on one machine | `memory_end`, the screen's size; `EnterHead`, `SizeMemory`, `SkipTrapInit`, `TtyInit` |
| `Descriptors` | the macros on descriptors and selectors | GDT and LDT byte by byte; `SetTss`, `SetLdt`, `SetBase`, `SetLimit` |
| `Ctype` | `ctype.c`, `ctype.h` | a constant table and operators |
| `MC*` | small instances | the values of the constants |
| `ArithmeticLemmas` | remainders, least elements, induction over a set of numbers, flattened sequences | lemmas |
| `ConsoleProofs` | theorems about `Console` | and that it implements `Screen` |
| `TtyProofs` | theorems about `Tty` | |
| `ClockProofs` | theorems about `Mktime` and `Clock` | |
| `InterruptProofs` | theorems about `Interrupts` | |
| `StartupProofs` | theorems about `Startup` and its parts | |
| `DescriptorProofs` | theorems about `Descriptors` | |
| `TextProofs` | theorems about `Vsprintf` and `Ctype` | |

Composition: `Tty` EXTENDS `Console` and `TtyQueue`, and its steps are the
driver's steps with a queue around them; `Console` refines `Screen`;
`Clock` EXTENDS `Mktime`; `Interrupts` EXTENDS `SysCalls`.  `Boot`, `Idt` and
`Head` share `BootMachine` and have no specification of their own: `Startup` EXTENDS
all three and hands control from one to the next, so that what a part needs
(memory not yet overwritten, the direction flag, a table that is loaded, line
20) is what the part before has really left.  `main` is there in two forms, as
it is and with the call of `trap_init`.  `Interrupts` and `Idt` share
`TrapTable`, which `Idt` shows to be what `trap_init` leaves and `Interrupts`
starts from.  `Descriptors` and `Ctype` stand alone, as in the code: nothing
expands these macros yet, and `Descriptors` uses them in any order.

Conventions.  Names are the source's where TLA+ allows it.  An operator marked
"Slip" is a plausible mistake in the code; no specification uses it, and
`PROJECT.json` says which property catches it.  History variables are marked so
and no guard reads them, except where a bound is named.

### Abstractions

* A character is a model value or a letter, a cell is a character: attributes
  are constant in this kernel.  Cells, not bytes, are counted in video memory,
  so `pos += 2` is one cell.  The erase character is `Blank`.
* `cli`/`sti` around the CRT controller, I/O delays and the wording of messages
  are left out.
* `video_mem_term - video_mem_base` is `VideoCells`; `RegRadix` is 256.
* `Interrupts`: a word on the stack is known by where it came from; ports are
  left out; C handlers do nothing (the body of `die` is commented out) but may
  change EAX, ECX and EDX.  The kernel sets no gate for `int 0x80` and loads no
  LDT: the gate is presumed, and the LDT is there or not, by a variable.  The
  address of `NR_syscalls`, with which `sys_call` compares, is a constant larger
  than the table.  The result of a call tells which function gave it; that this
  function found its caller's arguments is a property of its own
  (`ArgumentsInPlace`), about the words on the stack when it begins.
* `Vsprintf`: `WordSize` words and `CharSize` characters, 2^32 and 2^8 in the
  code; memory is a function from addresses to texts; a format is a sequence of
  pieces, whose texts are all that the code sees of it; `strlen` returns what the linked routine returns, the number of bytes
  before the first zero in its caller's frame, any of 0..3.  What `skip_atoi`
  returns is what an int holds of the numeral; a width and a precision that are
  meant are small enough for the int in which `number` counts them down
  (`MostCounted`), and the loops that pad count without its wrap, which shows only
  when a count goes below the least int.
* `Boot`: memory by sectors of 512 bytes; a `rep movs` of a sector is a step.
  The bytes at 0x90000 are known by what the BIOS answered in them.
* `Head`: memory by words of four bytes; a page-table entry is its page number.
  `Startup` takes these words from the sectors that the loader has moved.
* `Descriptors`: half a byte has `Nibble` values, 16 in the code; addresses,
  limits and pages scale with it, selectors and the size of a TSS do not.  The
  access byte is a name.
* `Ctype`: a class is a member of a set, a bit in the code.
* Arithmetic: array indices and register halves keep their widths (`%` the
  queue size, the radix, `Half`).  The sum of `kernel_mktime` is what a long of 32
  bits holds of it (`Long`; the flags of the build ask for no optimisation, so
  sums wrap), and `startup_time` takes it as an unsigned long.  The clock chip's
  two digits of the year end the run's dates in 1999.

## 3. The runs

| run | question | bounds | states |
|---|---|---|---|
| `console_output` | does the driver draw what an ideal terminal shows, for every class of codes and both ways of scrolling? | one console, 2x2 screen in a window of 6 cells | 146,332 |
| `tty_write` | is what is reported what was shown, in order, does every call return, and does output stay in its console? | 2 consoles of 1x2 cells, windows of two screens; ring of 4, buffers of 0, 3 and 4 characters | 151,182 |
| `vsprintf_formats` | one directive of every kind; texts that are formats by chance | 6-bit words at their boundaries, 10 sets of flags, 3 widths, 3 precisions; texts of up to 4 of 8 characters | 80,269 |
| `clock_ticks` | ticks between any two port reads, over the end of every month | two ticks a pass, five in all | 21,821 |
| `interrupt_all` | every vector and system call, interrupted between any two instructions, with and without an LDT | depth 2; calls at both ends of the table | 324,481 |
| `startup` | from the image to the loop of `main`, with and without `trap_init` | the memory map divided by 8; tables of 32 entries; kernels of 6 and 10 sectors; the IDT in full | 21,360 |
| `descriptors` | the macros in any order, on the GDT and an LDT | two neighbouring tasks, bytes of 16 values, 4 addresses | 160,000 |

The type invariants of `Clock`, `Startup` and `Descriptors` are theorems and not part
of a run; those of `Console`, `Tty` and `Interrupts` are both.

Five more runs are violations: they check what a comment, a declaration or a
header of the repository says, and TLC finds a behaviour of the code that
refutes it (section 6).

Why the bounds are enough:

* *Console.* `con_init` finds a window of 2048 cells for a screen of 2000 and
  lines of 80: less than a line more than a screen, so it always copies.  The
  run's window has one line more, so that a scroll moves the origin and the
  next one copies the screen back; a larger surplus repeats the first step.  On
  a 2x2 screen a few characters wrap, scroll and copy.  `ImplementsScreen`
  ties position, scrolling and copying to the terminal, which draws any
  character; `CodesAsTerminal` says which one each code draws, or what else it
  does.  That output on one console leaves the other one alone is checked by
  `tty_write`: the two windows hold two screens each and lie side by side, so both
  consoles scroll in both ways, and both pairs of registers have to follow the
  foreground console only.  The theorems remove the bounds.
* *Terminal.* The buffers move head and tail of a ring of 4 by three and by five, so
  each of its positions is reached; they leave it empty, fill it, overfill it and
  overrun it, with and without a character after the overrun.  The theorems remove the
  bounds, but for `CallsReturn`.
* *Formatting.* Each pass of the loop depends on one directive; the boundaries
  of six-bit words, 31, 32 and 63, stand for those of 32-bit words, and the
  widths are shorter than, as long as and longer than the texts.  The theorems
  remove the bounds for formats without `*`.
* *Clock.* One tick between any two reads and two in a pass, from the last
  evening of every month of years around two leap years; a minute of ticks in
  one pass would mean that the loop takes a minute.  The theorems remove the
  bound.
* *Interrupts.* Handlers share nothing but the stack and the segment registers,
  so a handler in a handler shows what any depth shows; the fault inside
  `device_not_available` may come on top of these two.  The calls are the ends
  of the table, the two routines of `sys_call.asm`, two that `sys.h` declares in
  another order, and a number that is refused; that the table has all 87
  functions at their numbers is an ASSUME that TLC evaluates, and a lemma
  (`CallsInOrder`).  The theorems
  remove the bounds on the depth and on the numbers of the calls.
* *Start-up.* Few executions: they differ in the kernel's length, the time the
  drive and line 20 take, what lies at 0x100000 and the call of `trap_init`.
  Sizes are the code's or to scale, and the comparisons that matter (lower than,
  adjacent to, as long as) are kept; a kernel that just holds the page tables and
  one of all sectors that are read are the two ends.  The theorems remove the
  bounds, but for `Boots`.
* *Descriptors.* The addresses are the two ends, the end of a page and one with
  a different digit in each byte; as bases and sizes they meet in every order.
  The theorems remove the bounds.

### Fairness

`TtySpec` assumes weak fairness of `Step`: the single kernel thread goes on
executing the call in progress, because nothing in this kernel can take the
processor away for ever.  `Startup` assumes the same of the CPU (`Load`,
`Kernel`) and, as assumptions on the hardware and not on the code, that the
drive answers a command (`Drive`) and that line 20 opens some time after it was
asked for (`Line`).  No fairness is assumed of the loop that polls the drive: it
may go round as often as it likes.  All other properties are safety properties and
their specifications state none.

## 4. The proofs

All theorems are checked by TLAPS for every value of the constants under the
ASSUMEs of the modules, which TLC evaluates in the runs.  The assumptions are
what the code fixes or its Makefile keeps to:

* `BufSizeIsPowerOfTwo`: `TTY_BUF_SIZE` (1024) is a power of two, and more than 1,
  because a ring keeps one place free.
* `CallInputs`: `tty_write` and `printk` are called with codes the driver knows,
  CR among them, which `tty_write` itself writes; no channel is 0.
* `ScreenSize`, `EvenColumns`, `Registers`: at least one screen fits into video
  memory, a text mode has an even number of columns, and an address of video
  memory fits into the two registers of the CRT controller that hold it.
* `BootLayout`: the BIOS reads the boot sector to 0x7c00, above its vectors and
  below 64 KB; setup lies before the kernel in the image; the kernel fits into the
  80 sectors that are read (the `system.bin` of the repository, 25888 bytes, has
  51), and these into the 64 KB from 0x10000 on.
* `SectorLayout`: the kernel is at least as long as `head`'s page tables and the
  code behind them, which is part of it.
* `HeadSizes`, `IdtLayout`: the code that lies under the page directory fits
  into it; a half of a gate has its type in the upper byte, and every handler
  lies in the first 64 KB, which the 80 sectors do not exceed.
* `AddressAssumption`: vectors are bytes, the numbers of calls natural numbers, and
  the variable `NR_syscalls` lies behind more than 87 bytes of the kernel.
* `Widths`: an even number of words, no more characters than words, and `strlen`
  finds a zero within the three lower bytes of an address below 16 MB.
* `CallsWritten`: the arguments are words, and who means a text as a format writes
  directives (`IsDirective`) and passes at least the arguments they ask for:
  `va_arg` can only take what the caller has pushed.  Nothing is assumed of a text
  that nobody meant as a format, and nothing of the values of the arguments.
* `StartsAreDates`, `PassIsShort`, `SizesAssumption`: the clock shows a date, a
  pass of `time_init` takes less than a minute, half a byte has 16 values (4 in the
  run).

**Console** (`ConsoleProofs`, with `ArithmeticLemmas`).  `TypeCorrect`,
`CursorCorrect`, `ScreenConfined`, `HardwareCorrect`, `StoresConfined`.  The
inductive invariant `ConIInv` is the conjunction of the four state invariants
and of what each needs of the others: the type of `vram` as a function of
`Addr` needs that no store misses it, which needs `pos` inside the window,
which needs both `pos = origin + y*columns + x` and the screen inside the
window; the registers' types need the window inside what two bytes can address.
None of them is inductive alone.  The driver's routines work on a record
`Machine`; for each of `scrup`, `lf`, `cr`, the wrap and the store a lemma says
that it is a good step: it keeps the invariant for its console, changes no
other cells, and touches the registers for the foreground console only.  The
actions then combine these.

**Console implements Screen** (`ConsoleProofs`).  `ImplementsTerminal`: the
refinement for every geometry.  Cell `(i, j)` of the terminal is the cell of
video memory at `origin + j*columns + i`, so a scroll that only moves the origin
changes every cell of the grid without storing to one, and a scroll that copies
the screen back stores to nearly all and must come to the same (`ScrollGrid`).
The proof needs `ConIInv` for three things: the cells of a screen are apart
(`ScreenCell`), they lie in the console's window (`CellInWindow`), and windows do
not meet (`WindowsApart`), so no other terminal changes.  Each routine of the
driver then does to the grid what the terminal does (`LfGrid`, `CrGrid`,
`StoreGrid`, `WrapGrid`, `GlyphGrid`), and each step of the driver is a step of
the terminal or a stutter (`ScreenStep`): beginning a call and setting the
hardware cursor show nothing.  `CodesOnTerminal` says which step: a glyph is drawn
as it is, a line feed or a carriage return moves, and a code that means nothing
shows nothing (`WriteOnTerminal`, `PrintOnTerminal`, from the same lemmas).

**Terminal layer** (`TtyProofs`).  `TtyTypeCorrect`, `QueuesDrainedAlways`,
`FifoOrderAlways`, `WriteReportAlways`, `ProgressAlways`, for every ring, every
set of buffers and every number of consoles.  `UsesDriver` says that `TtySpec`
implements `ConSpec`; from it and the console's theorems follow
`TtyStoresConfined`, `TtyHardwareCorrect` and `TtyShowsTerminal`: what a console
shows is what a terminal shows that is given the output of `tty_write` and
`printk`.

The inductive invariant `TtyIInv` is that of the driver and `CallInv`.  Beside
the properties the latter has what they need of each other.  `QueuesDrained`
needs that the count with which `con_write` loops is still the number of
characters in the queue (`Counted`), and that no other queue is touched
(`OthersEmpty`).  `WriteReport` needs `FifoOrder` for the empty queue at the
end, and that what was accepted is the expansion of the characters counted in
`b` (`Accepted`).  `WriteProgress` needs that a full queue was not full at the
start.  `FifoOrder` speaks of what the queue *keeps*: a line feed that finds one
place left makes the ring count as empty again (finding 1), so a queue holds
what was put in it after the last multiple of `TTY_BUF_SIZE` characters
(`Kept`).  That is true after every step, and it is what makes the invariant
inductive without excluding the overrun.

The lemmas below say what the macros do to a ring: the contents after `PUTCH`
are the contents before and the character, or nothing when the ring was full
(`PutAppends`); after `GETCH` they are the tail (`GetTakes`), wherever `head` and
`tail` are.  They come down to remainders (`RingCount`, `RingIndex`,
`RingPlace`).  That the expansion of one character more is the expansion with
that character's codes behind it (`ExpandNext`) is about `FlattenSeq`, which is
a recursive function: `FlattenExists` and `FlattenIs` get its equations from
`SetInduction`, an induction over a set of numbers that needs no operator as a
parameter.

**Calendar** (`ClockProofs`).  `EpochIsZero`: the first second of 1970 is 0.
`CountsSeconds`: for every valid date before the end of 2098, `kernel_mktime`
of the next second is one more, unless it is the greatest long already; and
taken as an unsigned long, as `startup_time` takes it, it is one more without
exception.  Together they say that it counts the seconds
since 1970, without induction over dates inside the prover.  `LongEndsIn2038`
says how far the long goes: before 2038 the sum stays below the greatest long,
on 19 January 2038 at 03:14:07 it is that long, and a second later the least one,
so a caller that keeps the result in a `long` has a negative time from then on.
The argument is about the sum before it is put into a long (`SecondsCount`) and goes
by carries: within a day, to the next day, to the next month (the table
`month` and the leap-day correction), to the next year (the two leap-year
counts); the sum fits into an unsigned long up to 2099 (`SecondsRange`), so what
the long holds of it is the sum, or the sum less 2^32 (`LongOf`).  `LeapYearsAgree`:
the years to which `kernel_mktime` gives 366 days are those of `__isleap`, up to
2098, although it has 1000 where the calendar has 400.

**Clock** (`ClockProofs`).  `TypeCorrect`, `Snapshot`, `StartupTime`,
`TicksCounted`.  The
invariant relates the chip to the moment the second was read: after `ticks`
ticks its second is that second plus `ticks` modulo 60, with no tick the chip
is what it was, and all fields read so far belong to it unless a tick came
between.  `TicksCounted` is `CountsSeconds` along the run of the chip.  As fewer
than 60 ticks fit into a pass (`MaxTicks`), an equal second
means no tick.

**Descriptors** (`DescriptorProofs`).  `TypeCorrect` and `SegmentsCorrect`: for
every address and size, any number of tasks and any order of the macros, every
entry decodes to what was last asked for.  The inductive invariant `IInv` adds
to the two that the entries of an LDT stay granular: `set_limit` shifts the size
by a page's bits without looking at the flag that tells the CPU to scale it
back, so that flag must have survived all earlier stores to byte 6.  The lemmas
below say that the four bytes of a base and the three parts of a limit, put
together, are what they were taken from (`ArithmeticLemmas`: `DivUnique`,
`DivDiv`, `DivTimes`).  `SetLimitGetLimit`: what `get_limit` reads after
`set_limit` is the size rounded up to pages, for 0 and the last page too, where
both wrap.  `TasksApart` and `StrFindsTask` are about selectors: no two of 64
tasks, nor a task and the kernel, share an entry, and `str` undoes `_TSS`.

**Formatting** (`TextProofs`).  Five theorems, one for each property of the run
`vsprintf_formats`, for every size of a word, all formats of any length and all
arguments: `FormatsEnd`, `PieceAPass`, `FormatBoundsOutput`, `NumbersReadBack`,
`ConversionsFill`.  The first holds of any text; the others need a format that was
meant as one and has no `*`, because with one they are false (finding 3), which
is the hypothesis `StarFree`.

Three invariants build on each other.  `FormatInv` says that `fmt` is in the format
or at its NUL and ahead of the passes: each pass moves it on (`PassAdvances`), even
at the NUL inside a directive, where `--fmt` and `++fmt` meet.  `PieceInv` says
that `fmt` and the argument pointer stand between two pieces.  It is kept because
the four steps of the parser, which see characters only, find in the text of a
piece exactly the flags, the width and the precision of which its writer meant
them (`DirectiveIs`): each step stops where the next part begins because the
classes of characters that begin the parts are apart (`CharacterSets`, `Ends`).
`OutputInv` adds that what has been written is no longer than the pieces so far
allow; its step is `PassWrites`, and below that `NumberLength`: the signs, the
prefix, the zeros and the padding of `number` come to the greater of the width and
of what the value needs, although `size` is counted down below zero.

The last two theorems are about one step, from these invariants.  `number` is
one text of six parts for all flags (`NumberIs`): blanks, sign, prefix, zeros,
digits, blanks; `LaidAt` says where each part lies.  That `divl` by the base leaves
digits which make the number again (`DigitsMake`), and no more of them than the
greatest word has (`DigitsBounded`), are inductions over the words: the
functions that `DivideDown`, `Power`, `Total` and `ReadNumber` define are first
shown to exist, which `CHOOSE` alone does not give, and then followed with
`SetInduction`.  A reader finds nothing in the parts before the digits
(`LeadReads`) nor behind them (`TrailReads`), so what `number` wrote reads as the
argument (`NumberReads`); for the most negative number this needs that its
negation, taken as a word, is its absolute value.

**Character classes** (`TextProofs`).  `ClassesDivide`: on ASCII the macros
divide the characters as the C standard asks.  `CaseRoundTrip`: `toupper` and
`tolower` undo each other on letters and leave all else alone, EOF included.
`CaseNeedsAscii`: for 128 to 254 the value of `_ctmp`, a signed char, points in
front of the table.

**Start-up** (`StartupProofs`).  Eleven theorems, type correctness and one for
each safety property of the run, for every memory map, every length of the kernel
and of the delays, every size of a table and every place of the handlers.  No property of the list
is inductive; the invariant `IInv` says of every phase what has been done so far
and is still needed, in five parts that follow the owners of the state.

* `LoaderInv`, the sectors: how far each of the loader's loops is (`LoopsAgree`:
  which sectors have been read, which have been moved and which are still in
  the buffer), where the code that executes lies, and that the drive is only busy
  inside a loop.  The move of the kernel goes upwards to a lower address and runs
  over the boot sector and the vectors, so the invariant gives up each of these
  when nobody needs it any more.  From it follow `LoaderIntact` and
  `KernelLoaded`; it also brings the sectors of the kernel and the parameters
  to the parts that follow.
* `TableInv`, the gates.  A gate is stored as two longs, and between the stores
  it has the halves of two different gates.  `Allowed` says that even so each
  half is one that the vector may have: the address of the dummy handler or of
  its own handler, and any of the three types.  That the mixture is a whole gate
  (`GatesWhole`) holds because all handlers lie below 64 KB, so the half in EDX
  has nothing of the address.  `Filled(v, n)` says what `n` calls of `trap_init`
  have made of a vector: the gate of the last call for it, since some vectors
  are set twice.  At the end that is `TableComplete`.
* `ChipInv`, IF, the table registers, line 20 and the masks, phase by phase:
  interrupts are on only before setup's `cli` and after `con_init`'s `sti`, and
  a line is open only after its gate has been set.  `InterruptsHandled` takes this
  and `TableInv`.
* `WordsInv`, the directory and the tables: what is filled down to the page in
  EAX, what is zero and where the code begins.  The image's words come from the
  sectors of `LoaderInv` (`ImageWord`).
* `MainInv`, what `main` and `con_init` have read.  That the bytes at 0x90000 are
  setup's last stores to them is computed from the list of stores.

Each step has a lemma that says which part it disturbs and how it is
kept; the parts it leaves alone are kept by `LoaderKept` and its like.

**Interrupt entries** (`InterruptProofs`).  Eight theorems, one for each property
of the run `interrupt_all`, for every set of vectors and of call numbers and every
depth of handlers in handlers, with and without an LDT.

What the properties say of the iret is true because of what was pushed thirty
instructions before, and of a handler in whose middle another one came in
because that one gave everything back.  So the invariant has an assertion for
each instruction of each routine.  `Level(ldt, f, p, r, s)` says of a frame
`f` (the history of one entry: its handler, and the registers, the stack, the
address and the flag that it interrupted) that its handler may stand at the
address `p` with the registers `r` and the stack `s`: above the interrupted stack
lie the three words of the CPU and so many more, which of them hold which of
`f`'s registers, and which registers still, or again, have their values.  `Chained`
asserts it of the last frame with the machine's own registers and stack, and
of each frame below with those that the next one interrupted.  An entry makes
the second from the first, and an exact return the first from the second: that is
why a return must be exact before anything can be said of the handler below it,
and why `ReturnsExactly` cannot be separated from the rest.  Beside this stand the
types (`MachineOK`), that the interrupted stacks lie one under the other
(`StacksNest`), and that a handler of `general_protection` takes no further
fault, so that at most one frame exceeds `MaxDepth` (`DepthOK`).
`ArgumentsArrive` needs no more: the assertion of `sys_call` at its call has EBX,
ECX and EDX of its frame in the three upper words (`FunctionPlace`).

The stack is indexed from its bottom (`Cell`), so that a push changes no index;
`SlotPush`, `SlotPop`, `SlotXchg` and `SlotIret` say what an instruction does
to the words above an interrupted stack.  `Run...` says what each instruction
does, `...Contents` which instructions a routine has, and `StepIn...` takes
a routine from one of its assertions to the next.  A step then does one of five things
(`StepOfHandler`): it goes on, is lost, comes back, ends without coming back, or
faults.  For the unfinished handlers the assertions are weaker: `ignore_int` has six
words or more too many at its iret and `coprocessor_error` a second frame,
and what the theorem needs of these is only that none of them is a word of flags.

### Only model-checked

Liveness (`CallsReturn`, `Boots`) is out of the prover's reach and stays with TLC,
as would be anything about ENABLED.  All other properties of the passing runs are
theorems, those of `Vsprintf` for formats without `*`.  Induction over data is done
where it can be put as an induction over a set of numbers (`SetInduction`), which is
enough for the recursive functions that the model uses: `FlattenSeq`, `DivideDown`,
`Power`, the sums of `FoldLeft` and `ReadNumber`.  That `skip_atoi` keeps
all of a numeral that an int can hold is proved; which number the digits make
is not: the parser and the writer of the format use the same operator, `Atoi`,
and its values are what TLC computes in the run.

The five runs that expect a violation have no theorem that says so; TLC's
counterexamples show it.

## 5. What is not modelled, and why

* `scrdown` and `del` of `console.c`: never called, not even compiled to code
  that is reached.
* `switch_to` of `sched.h`: `task[]` and `task_struct`, which it switches
  between, are commented out.  `sched.c` only defines variables.
* `_set_seg_desc` of `system.h`: nothing expands it (its two long words are
  exchanged).  `move_to_user_mode` is expanded nowhere either.
* `segment.c` but for `get_fs_byte`: single instructions that nothing calls.
* The bodies of the system calls: there are none.  `errno` in the `_syscallN`
  macros: a variable that nothing in the kernel reads.
* The C trap handlers: they end in `die`, whose body is commented out.
* `parallel_interrupt`: a label at the end of its file.  The loop of `panic`.
* The 8259As' initialisation words other than the vectors, the coprocessor's
  detection, the reload of the segment registers after `lgdt`: I/O and registers
  whose outcome no later step depends on.
* `isascii` and `toascii`: single expressions.
* Headers, Makefiles, the linker script, the emulator's configuration and log:
  no state.

## 6. Findings

1. **A line feed may lose a whole queue of output** (`tty_overrun`).
   `tty_write` tests for one free place and puts CR LF.  When only one is free,
   `head` catches up with `tail` and the queue counts as empty: what the call has
   put in it so far is not shown, but counted in what `tty_write` returns.
2. **The dummy interrupt handler does not return** (`interrupt_dummy`).
3. **`*` in a format is not stepped over** (`vsprintf_star`).
4. **`strlen` measures the wrong memory** (`vsprintf_string`): `%s` shows at
   most three characters.

5. **Numbers behind the table of system calls are called** (`interrupt_calls`).
   `cmp eax, NR_syscalls` compares with the variable's address.

Two more disagreements are seen in the models and have no run of their own:
`asm.asm` passes the arguments of the C handlers in EDI and ESI where code
compiled with `-m32` reads them from the stack (and the address is one word too
high; no handler reads it as long as `die` is empty), and `trap_init` sets no
gate for the `int 0x80` of `unistd.h` (`TableComplete` says what is there).

Properties of the passing runs are stated so that they hold with these: for
example `WriteReport` says what is shown after an overrun, `ReturnsExactly`
names the three handlers that do not come back, `UnfinishedAreLost` says that
none of these goes on in the interrupted program with wrong registers, and `NoReturnWithoutLdt` what a load of FS does before there is an
LDT.

## 7. Plan

Done in this order, the most important behaviour first: queue and console,
terminal layer, console proofs, calendar, clock, interrupt entries, formatting,
gates, boot, paging, the start-up as a whole, system calls, descriptors and
their proofs, character classes; then the proofs that the console implements the
terminal, of the terminal layer, of the start-up, of the interrupt entries and of
formatting.

Next, models:

1. Composition of `Vsprintf` with `Tty`: `printk` from format to screen, with a
   NUL inside the text and the buffer's length.
2. `con_init` for every geometry: how many consoles, which surplus.
3. `Interrupts` beside output: an NMI during `scrup`, with the direction flag
   in EFLAGS.

Next, proofs:

1. `con_init` with the console: the geometry as a variable of the proof.
2. `Vsprintf` with `*`, once the code steps over it: `StarFree` goes, and the
   hypothesis that a width from an argument is not the least int comes.
