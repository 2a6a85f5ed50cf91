-------------------------- MODULE InterruptProofs --------------------------
(***************************************************************************)
(* Theorems about Interrupts.tla, for every set of vectors, every set of   *)
(* call numbers and every depth of handlers within handlers.               *)
(*                                                                         *)
(* The invariant says for every instruction of every entry what lies on    *)
(* the stack above the point where the CPU came in, and which registers    *)
(* have which values.  It says so of the handler that is running, and of   *)
(* each handler that has been interrupted, with the registers and the      *)
(* stack it had then.                                                      *)
(***************************************************************************)
EXTENDS Interrupts, SequenceTheorems, TLAPS

-----------------------------------------------------------------------------
(***************************************************************************)
(* Words and stacks.                                                       *)
(***************************************************************************)
Kinds    == {"selector", "kernel", "code", "do_", "sys_", "wild", "value", "call",
             "number", "result", "scratch", "address", "slot", "error", "eflags"}
Handlers == NoErrorStubs \cup ErrorStubs \cup DOMAIN Routines
Names    == Regs \cup Handlers \cup {sys_call_table[i] : i \in 1..NR_syscalls}
            \cup {"0x08", "0x10", "0x17", "0", "0x20", "-1", "-38", "c", "int_msg", "on",
                  "off", "program", "code", "number", "nowhere", "stack"}
AnyWord  == Kinds \X Names \X Int

Selectors == {w \in AnyWord : w[1] = "selector"}

\* What a register may hold: anything but flags.
Plain == {w \in AnyWord : w[1] # "eflags"}

Typed(r) == r \in [Regs -> Plain] /\ \A x \in SegmentRegs : r[x] \in Selectors

\* The word at height h of a stack: the one pushed first is at height 1.
Cell(s, h) == s[Len(s) + 1 - h]

\* The stack s is t with words pushed on it.
Under(t, s) == Len(t) <= Len(s) /\ \A h \in 1..Len(t) : Cell(s, h) = Cell(t, h)

\* Above the stack that frame f interrupted lie the three words of the CPU and n
\* more, the i-th of them from the set A[i].
Slots(f, s, A, n) ==
    /\ s \in Seq(AnyWord) /\ Len(s) = Len(f.stack) + 3 + n
    /\ Under(f.stack, s)
    /\ Cell(s, Len(f.stack) + 1) = Flags(f.intFlag)
    /\ Cell(s, Len(f.stack) + 2) = KernelCode
    /\ Cell(s, Len(f.stack) + 3) = f.at
    /\ \A i \in 1..n : Cell(s, Len(f.stack) + 3 + i) \in A[i]

-----------------------------------------------------------------------------
(***************************************************************************)
(* The entries with and without an error code.                             *)
(***************************************************************************)
\* What the stub of f has pushed, after the CPU's error code.
StubSlots(f) ==
    IF f.handler \in NoErrorStubs THEN <<{CFunction(f.handler)}>>
    ELSE <<Plain, {CFunction(f.handler)}>>

InStub(f, p, r, s) ==
    /\ f.handler \in NoErrorStubs \cup ErrorStubs
    /\ r = f.regs
    /\ \E j \in 1..2 :
          /\ p = Word("code", f.handler, j)
          /\ Slots(f, s, StubSlots(f), IF f.handler \in NoErrorStubs THEN j - 1 ELSE j)

\* The frame of both routines, and the address the C function returns to.
FrameRegs == <<"eax", "ebx", "ecx", "edx", "edi", "esi", "ebp", "ds", "es", "fs">>

BackTo(f) == IF f.handler \in NoErrorStubs THEN Word("code", "no_error_code", 21)
             ELSE Word("code", "error_code", 20)

FrameSlots(f) == [i \in 1..11 |-> IF i <= 10 THEN {f.regs[FrameRegs[i]]} ELSE {BackTo(f)}]

\* The registers of all but the first n slots are back.
Restored(f, r, n) == \A i \in (n + 1)..10 : r[FrameRegs[i]] = f.regs[FrameRegs[i]]

\* After i instructions of LoadSegments.
Loaded(r, i, fsSelector) ==
    /\ i \in 1..3 => r["edx"] = KernelData
    /\ i >= 2 => r["ds"] = KernelData
    /\ i >= 3 => r["es"] = KernelData
    /\ i = 4 => r["edx"] = fsSelector
    /\ i >= 5 => r["fs"] = fsSelector

\* Before instruction j of no_error_code.
NoErrorCodeAt(f, j, r, s) ==
    /\ j = 1 => r = f.regs /\ Slots(f, s, StubSlots(f), 1)
    /\ j \in 2..11 => /\ Slots(f, s, FrameSlots(f), j - 1)
                      /\ \A x \in Regs \ {"eax"} : r[x] = f.regs[x]
    /\ j \in 12..20 => Slots(f, s, FrameSlots(f), 10)
    /\ j \in 2..19 => r["eax"] = CFunction(f.handler)
    /\ j \in 14..20 => Loaded(r, j - 14, KernelData)
    /\ j = 20 => r["ebx"] = CFunction(f.handler)
    /\ j \in 21..31 => Slots(f, s, FrameSlots(f), 31 - j) /\ Restored(f, r, 31 - j)

InNoErrorCode(f, p, r, s) ==
    /\ f.handler \in NoErrorStubs
    /\ \E j \in 1..31 : p = Word("code", "no_error_code", j) /\ NoErrorCodeAt(f, j, r, s)

\* EAX is saved where the error code was.
ExchangedSlots(f) == <<{f.regs["eax"]}, {CFunction(f.handler)}>>

ErrorCodeAt(f, j, r, s) ==
    /\ j = 1 => r = f.regs /\ Slots(f, s, StubSlots(f), 2)
    /\ j = 2 => /\ Slots(f, s, ExchangedSlots(f), 2)
                /\ \A x \in Regs \ {"eax"} : r[x] = f.regs[x]
    /\ j \in 3..11 => /\ Slots(f, s, FrameSlots(f), j - 1)
                      /\ \A x \in Regs \ {"eax", "ebx"} : r[x] = f.regs[x]
    /\ j \in 12..19 => Slots(f, s, FrameSlots(f), 10)
    /\ j \in 3..19 => r["ebx"] = CFunction(f.handler)
    /\ j \in 14..19 => Loaded(r, j - 14, KernelData)
    /\ j \in 20..30 => Slots(f, s, FrameSlots(f), 30 - j) /\ Restored(f, r, 30 - j)

InErrorCode(f, p, r, s) ==
    /\ f.handler \in ErrorStubs
    /\ \E j \in 1..30 : p = Word("code", "error_code", j) /\ ErrorCodeAt(f, j, r, s)

InC(f, p, r, s) ==
    /\ f.handler \in NoErrorStubs \cup ErrorStubs
    /\ \E j \in 1..2 : p = Word("do_", f.handler, j)
    /\ Slots(f, s, FrameSlots(f), 11)
    /\ Loaded(r, 5, KernelData)

-----------------------------------------------------------------------------
(***************************************************************************)
(* The entries of sys_call.asm.                                            *)
(***************************************************************************)
\* The registers with which the handler of f is to come back.
Final(f) == IF f.handler = "sys_call" THEN [f.regs EXCEPT !["eax"] = Answer(f.regs["eax"][3])]
            ELSE f.regs

\* The frame, and the address pushed on it.  The two lost handlers build it twice.
SysRegs == <<"ds", "es", "fs", "none", "edx", "ecx", "ebx", "eax">>

SysSlot(f, i) ==
    IF i = 9 THEN {Addr("ret_from_sys_call")}
    ELSE IF i = 4 THEN Plain
    ELSE IF f.handler \in Unfinished THEN IF i < 4 THEN Selectors ELSE Plain
    ELSE {Final(f)[SysRegs[i]]}

SysSlots(f) == [i \in 1..18 |-> SysSlot(f, IF i <= 9 THEN i ELSE i - 9)]

\* The registers that the frame does not hold.
Untouched(f, r) ==
    f.handler \notin Unfinished => \A x \in {"esi", "edi", "ebp"} : r[x] = f.regs[x]

\* The slots below the frame that is built, or left, second.
Below2(f) == IF f.handler = "device_not_available" \/ f.handler = "sys_call" THEN 0 ELSE 9

\* Before instruction j of the frame's making, with o slots below it.
SysFrameAt(ldt, f, o, j, r, s) ==
    /\ f.handler \notin Unfinished /\ j <= 9 => r = f.regs
    /\ Slots(f, s, SysSlots(f), o + (IF j <= 9 THEN j - 1 ELSE IF j <= 14 THEN 8 ELSE 9))
    /\ j \in 10..15 => Loaded(r, j - 9, UserData)
    /\ j \in 14..15 => ldt

InCoprocessor(ldt, f, p, r, s) ==
    /\ f.handler \in {"coprocessor_error", "irq13"}
    /\ \E j \in 1..15 : p = Word("code", "coprocessor_error", j) /\ SysFrameAt(ldt, f, 0, j, r, s)

InDevice(ldt, f, p, r, s) ==
    /\ f.handler \in {"device_not_available", "coprocessor_error", "irq13"}
    /\ Untouched(f, r)
    /\ \E j \in 1..15 :
          p = Word("code", "device_not_available", j) /\ SysFrameAt(ldt, f, Below2(f), j, r, s)

IsCall(f) == f.handler = "sys_call" /\ \E n \in Calls : f.regs["eax"] = Word("call", "number", n)

\* Before instruction j of ret_from_sys_call, which sys_call ends in too.
ReturnAt(f, j, r, s) ==
    /\ Slots(f, s, SysSlots(f), Below2(f) + 9 - j)
    /\ \A i \in (10 - j)..8 : i # 4 => r[SysRegs[i]] \in SysSlot(f, i)

InReturn(ldt, f, p, r, s) ==
    /\ f.handler \in {"device_not_available", "coprocessor_error", "irq13"} \/ IsCall(f)
    /\ Untouched(f, r) /\ ldt
    /\ \E j \in 1..9 :
          /\ \/ p = Word("code", "ret_from_sys_call", j)
             \/ f.handler = "sys_call" /\ p = Word("code", "sys_call", j + 15)
          /\ ReturnAt(f, j, r, s)

SysCallAt(ldt, f, j, r, s) ==
    /\ Slots(f, s, SysSlots(f), IF j <= 8 THEN j - 1 ELSE 7)
    /\ j <= 8 => r = f.regs
    /\ j <= 14 => r["eax"] = f.regs["eax"]
    /\ j \in 9..14 => Loaded(r, j - 8, UserData)
    /\ j \in 13..15 => ldt
    /\ j = 14 => f.regs["eax"][3] < AddressOfNR_syscalls
    /\ j = 15 => r["eax"] = Final(f)["eax"]

InSysCall(ldt, f, p, r, s) ==
    /\ IsCall(f)
    /\ Untouched(f, r)
    /\ \E j \in 1..15 : p = Word("code", "sys_call", j) /\ SysCallAt(ldt, f, j, r, s)

\* In the function, with the address it returns to on the stack.
CallSlots(f) == [SysSlots(f) EXCEPT ![8] = {Word("code", "sys_call", 15)}]

InFunction(ldt, f, p, r, s) ==
    /\ IsCall(f)
    /\ Untouched(f, r) /\ ldt
    /\ Slots(f, s, CallSlots(f), 8)
    /\ Loaded(r, 5, UserData)
    /\ LET name == FunctionOf(f.regs["eax"][3]) IN
       \E j \in 1..2 :
          /\ f.regs["eax"][3] < NR_syscalls
          /\ p = Word("sys_", name, j)
          /\ name \in AssemblerCalls => j = 1 /\ r["eax"] = f.regs["eax"]
          /\ name \notin AssemblerCalls /\ j = 2 => r["eax"] = Result(name)

InBadCall(ldt, f, p, r, s) ==
    /\ IsCall(f)
    /\ Untouched(f, r) /\ ldt
    /\ f.regs["eax"][3] >= AddressOfNR_syscalls
    /\ \E j \in 1..2 : p = Word("code", "bad_sys_call", j) /\ Slots(f, s, SysSlots(f), 6 + j)

-----------------------------------------------------------------------------
(***************************************************************************)
(* The others.                                                             *)
(***************************************************************************)
ParallelAt(f, j, r, s) ==
    /\ Slots(f, s, <<{f.regs["eax"]}>>, IF j \in {2, 3} THEN 1 ELSE 0)
    /\ \A x \in Regs \ {"eax"} : r[x] = f.regs[x]
    /\ j # 3 => r["eax"] = f.regs["eax"]

InParallel(f, p, r, s) ==
    /\ f.handler = "parallel_interrupt"
    /\ \E j \in 1..4 : p = Word("code", "parallel_interrupt", j) /\ ParallelAt(f, j, r, s)

InIrq13(f, p, r, s) ==
    /\ f.handler = "irq13"
    /\ \E j \in 1..4 :
          /\ p = Word("code", "irq13", j)
          /\ Slots(f, s, <<Plain>>, IF j \in {2, 3} THEN 1 ELSE 0)

\* ignore_int pushes, and pushes again: at its iret six words or more.
IgnoreAt(f, j, n, r, s) ==
    /\ Slots(f, s, [i \in 1..n |-> Plain], n)
    /\ j \in 8..10 => r["eax"] = KernelData
    /\ n >= IF j = 12 THEN 7 ELSE IF j <= 7 THEN j - 1 ELSE 6

InIgnoreInt(f, p, r, s) ==
    /\ f.handler = "ignore_int"
    /\ \E j \in 1..19, n \in 0..Len(s) :
          p = Word("code", "ignore_int", j) /\ IgnoreAt(f, j, n, r, s)

-----------------------------------------------------------------------------
\* The handler of f may be at p, with registers r and stack s, and an LDT or none.
Level(ldt, f, p, r, s) ==
    /\ Typed(r)
    /\ \/ InStub(f, p, r, s)
       \/ InNoErrorCode(f, p, r, s)
       \/ InErrorCode(f, p, r, s)
       \/ InC(f, p, r, s)
       \/ InCoprocessor(ldt, f, p, r, s)
       \/ InDevice(ldt, f, p, r, s)
       \/ InReturn(ldt, f, p, r, s)
       \/ InSysCall(ldt, f, p, r, s)
       \/ InFunction(ldt, f, p, r, s)
       \/ InBadCall(ldt, f, p, r, s)
       \/ InParallel(f, p, r, s)
       \/ InIrq13(f, p, r, s)
       \/ InIgnoreInt(f, p, r, s)

\* Where nothing is known any more.
Lost == at = Word("wild", "nowhere", 1)

FrameRecord == [handler : Handlers, regs : [Regs -> Plain], stack : Seq(AnyWord),
                at : AnyWord, intFlag : BOOLEAN]

MachineOK ==
    /\ Typed(regs) /\ stack \in Seq(AnyWord) /\ at \in AnyWord
    /\ intFlag \in BOOLEAN /\ nmiMasked \in BOOLEAN /\ ldtLoaded \in BOOLEAN
    /\ frames \in Seq(FrameRecord)
    /\ \A k \in DOMAIN frames : Typed(frames[k].regs)

\* The stacks that were interrupted lie under each other.
StacksNest ==
    \A k \in DOMAIN frames :
        /\ Under(frames[k].stack, stack)
        /\ \A m \in DOMAIN frames : m > k => Under(frames[m].stack, frames[k].stack)

\* A fault may come on top of the depth of interrupts, but nothing on top of it.
DepthOK ==
    /\ Len(frames) <= MaxDepth + 1
    /\ Len(frames) = MaxDepth + 1 => frames[1].handler = "general_protection"

\* The program is at the bottom, and every frame is of its handler's making.
Chained ==
    /\ frames = <<>> => at = Kernel \/ Lost
    /\ at = Kernel => frames = <<>>
    /\ frames # <<>> => frames[Len(frames)].at = Kernel
    /\ \A k \in DOMAIN frames : frames[k].handler = "sys_call" => k = Len(frames)
    /\ \A k \in 1..(Len(frames) - 1) :
          Level(ldtLoaded, frames[k + 1], frames[k].at, frames[k].regs, frames[k].stack)
    /\ frames # <<>> /\ ~Lost => Level(ldtLoaded, frames[1], at, regs, stack)

IInv == MachineOK /\ StacksNest /\ DepthOK /\ Chained

-----------------------------------------------------------------------------
(***************************************************************************)
(* What the instructions do to a stack.                                    *)
(***************************************************************************)
LEMMA PushCells ==
    ASSUME NEW s \in Seq(AnyWord), NEW w \in AnyWord
    PROVE  /\ <<w>> \o s \in Seq(AnyWord)
           /\ Len(<<w>> \o s) = Len(s) + 1
           /\ Cell(<<w>> \o s, Len(s) + 1) = w
           /\ \A h \in 1..Len(s) : Cell(<<w>> \o s, h) = Cell(s, h)
           /\ Head(<<w>> \o s) = w /\ Tail(<<w>> \o s) = s
  <1> DEFINE t == <<w>> \o s
  <1>1. <<w>> \in Seq(AnyWord) /\ Len(<<w>>) = 1
    OBVIOUS
  <1>2. /\ t \in Seq(AnyWord) /\ Len(t) = Len(s) + 1
        /\ t[1] = w
        /\ \A i \in 2..Len(t) : t[i] = s[i - 1]
    BY <1>1
  <1>3. Head(t) = w /\ Tail(t) = s
    BY <1>1
  <1>4. Len(s) \in Nat
    OBVIOUS
  <1> HIDE DEF t
  <1>5. \A h \in 1..Len(s) : Cell(t, h) = Cell(s, h)
    <2> SUFFICES ASSUME NEW h \in 1..Len(s) PROVE Cell(t, h) = Cell(s, h)
      OBVIOUS
    <2>1. Len(t) + 1 - h \in 2..Len(t) /\ Len(t) + 1 - h - 1 = Len(s) + 1 - h
      BY <1>2, <1>4
    <2> QED
      BY <1>2, <2>1 DEF Cell
  <1>6. Cell(t, Len(s) + 1) = w
    BY <1>2, <1>4 DEF Cell
  <1> QED
    BY <1>2, <1>3, <1>5, <1>6 DEF t

LEMMA PopCells ==
    ASSUME NEW s \in Seq(AnyWord), Len(s) >= 1
    PROVE  /\ Tail(s) \in Seq(AnyWord)
           /\ Len(Tail(s)) = Len(s) - 1
           /\ Head(s) = Cell(s, Len(s)) /\ Head(s) \in AnyWord
           /\ \A h \in 1..(Len(s) - 1) : Cell(Tail(s), h) = Cell(s, h)
  <1> DEFINE t == Tail(s)
  <1>1. /\ t \in Seq(AnyWord) /\ Len(t) = Len(s) - 1
        /\ \A i \in 1..Len(t) : t[i] = s[i + 1]
    OBVIOUS
  <1>2. Len(s) \in Nat /\ Head(s) = s[1] /\ s[1] \in AnyWord
    OBVIOUS
  <1> HIDE DEF t
  <1>3. \A h \in 1..(Len(s) - 1) : Cell(t, h) = Cell(s, h)
    <2> SUFFICES ASSUME NEW h \in 1..(Len(s) - 1) PROVE Cell(t, h) = Cell(s, h)
      OBVIOUS
    <2>1. Len(t) + 1 - h \in 1..Len(t) /\ Len(t) + 1 - h + 1 = Len(s) + 1 - h
      BY <1>1, <1>2
    <2> QED
      BY <1>1, <2>1 DEF Cell
  <1>4. Head(s) = Cell(s, Len(s))
    <2>1. Len(s) + 1 - Len(s) = 1
      BY <1>2
    <2> QED
      BY <1>2, <2>1 DEF Cell
  <1> QED
    BY <1>1, <1>2, <1>3, <1>4 DEF t

LEMMA XchgCells ==
    ASSUME NEW s \in Seq(AnyWord), NEW w \in AnyWord, NEW d \in Nat, d < Len(s)
    PROVE  /\ [s EXCEPT ![d + 1] = w] \in Seq(AnyWord)
           /\ Len([s EXCEPT ![d + 1] = w]) = Len(s)
           /\ s[d + 1] = Cell(s, Len(s) - d) /\ s[d + 1] \in AnyWord
           /\ Cell([s EXCEPT ![d + 1] = w], Len(s) - d) = w
           /\ \A h \in 1..Len(s) :
                 h # Len(s) - d => Cell([s EXCEPT ![d + 1] = w], h) = Cell(s, h)
  <1> DEFINE t == [s EXCEPT ![d + 1] = w]
  <1>1. Len(s) \in Nat /\ d + 1 \in 1..Len(s) /\ s[d + 1] \in AnyWord
    OBVIOUS
  <1>2. /\ t \in Seq(AnyWord) /\ Len(t) = Len(s)
        /\ t[d + 1] = w
        /\ \A i \in 1..Len(s) : i # d + 1 => t[i] = s[i]
    BY <1>1
  <1> HIDE DEF t
  <1>3. Len(s) + 1 - (Len(s) - d) = d + 1
    BY <1>1
  <1>4. s[d + 1] = Cell(s, Len(s) - d) /\ Cell(t, Len(s) - d) = w
    BY <1>2, <1>3 DEF Cell
  <1>5. ASSUME NEW h \in 1..Len(s), h # Len(s) - d PROVE Cell(t, h) = Cell(s, h)
    <2>1. Len(s) + 1 - h \in 1..Len(s) /\ Len(s) + 1 - h # d + 1
      BY <1>1, <1>5
    <2> QED
      BY <1>2, <2>1 DEF Cell
  <1> QED
    BY <1>1, <1>2, <1>4, <1>5 DEF t

LEMMA LengthFromFour == \A m \in Nat : m >= 3 => (IF 4 <= m THEN m - 4 + 1 ELSE 0) = m - 3
  OBVIOUS

LEMMA IretCells ==
    ASSUME NEW s \in Seq(AnyWord), Len(s) >= 3
    PROVE  /\ SubSeq(s, 4, Len(s)) \in Seq(AnyWord)
           /\ Len(SubSeq(s, 4, Len(s))) = Len(s) - 3
           /\ s[1] = Cell(s, Len(s)) /\ s[2] = Cell(s, Len(s) - 1)
           /\ s[3] = Cell(s, Len(s) - 2)
           /\ {s[1], s[2], s[3]} \subseteq AnyWord
           /\ \A h \in 1..(Len(s) - 3) : Cell(SubSeq(s, 4, Len(s)), h) = Cell(s, h)
  <1> DEFINE t == SubSeq(s, 4, Len(s))
  <1>1. Len(s) \in Nat
    OBVIOUS
  <1>2. {s[1], s[2], s[3]} \subseteq AnyWord
    BY <1>1
  <1>3. /\ t \in Seq(AnyWord) /\ Len(t) = Len(s) - 3
        /\ \A i \in 1..Len(t) : t[i] = s[4 + i - 1]
    <2>1. 4 \in 1..(Len(s) + 1) /\ Len(s) \in (4 - 1)..Len(s)
      BY <1>1
    <2>2. /\ t \in Seq(AnyWord)
          /\ Len(t) = IF 4 <= Len(s) THEN Len(s) - 4 + 1 ELSE 0
          /\ \A i \in 1..(Len(s) - 4 + 1) : t[i] = s[4 + i - 1]
      BY <2>1, SubSeqProperties
    <2> HIDE DEF t
    <2>3. Len(t) = Len(s) - 3
      BY <1>1, <2>2, LengthFromFour
    <2> QED
      BY <2>2, <2>3, <1>1
  <1> HIDE DEF t
  <1>4. s[1] = Cell(s, Len(s)) /\ s[2] = Cell(s, Len(s) - 1) /\ s[3] = Cell(s, Len(s) - 2)
    <2>1. /\ Len(s) + 1 - Len(s) = 1 /\ Len(s) + 1 - (Len(s) - 1) = 2
          /\ Len(s) + 1 - (Len(s) - 2) = 3
      BY <1>1
    <2> QED
      BY <2>1 DEF Cell
  <1>5. \A h \in 1..(Len(s) - 3) : Cell(t, h) = Cell(s, h)
    <2> SUFFICES ASSUME NEW h \in 1..(Len(s) - 3) PROVE Cell(t, h) = Cell(s, h)
      OBVIOUS
    <2>1. Len(t) + 1 - h \in 1..Len(t) /\ 4 + (Len(t) + 1 - h) - 1 = Len(s) + 1 - h
      BY <1>1, <1>3
    <2> QED
      BY <1>3, <2>1 DEF Cell
  <1> QED
    BY <1>2, <1>3, <1>4, <1>5 DEF t

\* Stacks with the same words at the same heights are the same.
LEMMA SameCells ==
    ASSUME NEW s \in Seq(AnyWord), NEW t \in Seq(AnyWord), Len(s) = Len(t),
           \A h \in 1..Len(s) : Cell(s, h) = Cell(t, h)
    PROVE  s = t
  <1>1. Len(s) \in Nat
    OBVIOUS
  <1>2. ASSUME NEW i \in 1..Len(s) PROVE s[i] = t[i]
    <2>1. Len(s) + 1 - i \in 1..Len(s) /\ Len(s) + 1 - (Len(s) + 1 - i) = i
      BY <1>1
    <2> QED
      BY <2>1 DEF Cell
  <1> QED
    BY <1>2

LEMMA UnderTransitive ==
    ASSUME NEW s \in Seq(AnyWord), NEW t \in Seq(AnyWord), NEW u \in Seq(AnyWord),
           Under(s, t), Under(t, u)
    PROVE  Under(s, u)
  <1>1. Len(s) \in Nat /\ Len(t) \in Nat /\ Len(u) \in Nat
    OBVIOUS
  <1> QED
    BY <1>1 DEF Under

\* The property of the runs in terms of heights.
LEMMA SuffixIsUnder ==
    ASSUME NEW s \in Seq(AnyWord), NEW t \in Seq(AnyWord), Under(s, t)
    PROVE  IsSuffix(s, t)
  <1>1. Len(s) \in Nat /\ Len(t) \in Nat /\ Len(s) <= Len(t)
    BY DEF Under
  <1> DEFINE a == Reverse(s)
             b == Reverse(t)
  <1>2. /\ a = [i \in 1..Len(s) |-> s[Len(s) - i + 1]]
        /\ b = [i \in 1..Len(t) |-> t[Len(t) - i + 1]]
    BY DEF Reverse
  <1>3. /\ a \in Seq(AnyWord) /\ b \in Seq(AnyWord) /\ Len(a) = Len(s) /\ Len(b) = Len(t)
        /\ \A i \in 1..Len(s) : a[i] = s[Len(s) - i + 1]
        /\ \A i \in 1..Len(t) : b[i] = t[Len(t) - i + 1]
    BY <1>1, <1>2
  <1>4. \A i \in 1..Len(s) : a[i] = b[i]
    <2> SUFFICES ASSUME NEW i \in 1..Len(s) PROVE a[i] = b[i]
      OBVIOUS
    <2>1. Cell(s, i) = Cell(t, i) /\ i \in 1..Len(t)
      BY <1>1 DEF Under
    <2>2. Len(s) + 1 - i = Len(s) - i + 1 /\ Len(t) + 1 - i = Len(t) - i + 1
      BY <1>1
    <2> QED
      BY <1>3, <2>1, <2>2 DEF Cell
  <1> HIDE DEF a, b
  <1>5. Len(a) <= Len(b) /\ SubSeq(a, 1, Len(a)) = SubSeq(b, 1, Len(a))
    <2>1. Len(a) <= Len(b) /\ Len(a) \in Nat /\ Len(b) \in Nat
      BY <1>1, <1>3
    <2>2. /\ SubSeq(a, 1, Len(a)) = [i \in 1..Len(a) |-> a[i]]
          /\ SubSeq(b, 1, Len(a)) = [i \in 1..Len(a) |-> b[i]]
      BY <1>3, <2>1
    <2> QED
      BY <1>3, <1>4, <2>1, <2>2
  <1>6. IsPrefix(a, b)
    BY <1>5 DEF IsPrefix
  <1> QED
    BY <1>6 DEF IsSuffix, a, b

LEMMA UnderPush ==
    ASSUME NEW t \in Seq(AnyWord), NEW s \in Seq(AnyWord), NEW w \in AnyWord, Under(t, s)
    PROVE  Under(t, <<w>> \o s)
  <1>1. Len(s) \in Nat /\ Len(t) \in Nat
    OBVIOUS
  <1>2. /\ Len(<<w>> \o s) = Len(s) + 1
        /\ \A h \in 1..Len(s) : Cell(<<w>> \o s, h) = Cell(s, h)
    BY PushCells
  <1> QED
    BY <1>1, <1>2 DEF Under

LEMMA FrameFields ==
    ASSUME NEW f \in FrameRecord
    PROVE  /\ f.stack \in Seq(AnyWord) /\ Len(f.stack) \in Nat /\ f.at \in AnyWord
           /\ f.intFlag \in BOOLEAN /\ f.regs \in [Regs -> Plain] /\ f.handler \in Handlers
  BY DEF FrameRecord

LEMMA SlotPush ==
    ASSUME NEW f \in FrameRecord, NEW A, NEW n \in Nat, NEW s, Slots(f, s, A, n),
           NEW w \in AnyWord, w \in A[n + 1]
    PROVE  Slots(f, <<w>> \o s, A, n + 1)
  <1> DEFINE t == <<w>> \o s
             b == Len(f.stack)
             l == Len(s)
  <1>1. s \in Seq(AnyWord) /\ l = b + 3 + n /\ b \in Nat /\ f.stack \in Seq(AnyWord)
    BY FrameFields DEF Slots
  <1>2. /\ t \in Seq(AnyWord) /\ Len(t) = l + 1 /\ Cell(t, l + 1) = w
        /\ \A h \in 1..l : Cell(t, h) = Cell(s, h)
    BY <1>1, PushCells
  <1>3. Under(f.stack, t)
    BY <1>1, UnderPush DEF Slots
  <1>4. /\ Cell(s, b + 1) = Flags(f.intFlag) /\ Cell(s, b + 2) = KernelCode
        /\ Cell(s, b + 3) = f.at
        /\ \A i \in 1..n : Cell(s, b + 3 + i) \in A[i]
    BY DEF Slots
  <1> HIDE DEF t, b, l
  <1>5. b + 1 \in 1..l /\ b + 2 \in 1..l /\ b + 3 \in 1..l
    BY <1>1
  <1>6. ASSUME NEW i \in 1..(n + 1) PROVE Cell(t, b + 3 + i) \in A[i]
    <2>1. CASE i = n + 1
      BY <1>1, <1>2, <2>1
    <2>2. CASE i \in 1..n
      <3>1. b + 3 + i \in 1..l
        BY <1>1, <2>2
      <3> QED
        BY <1>2, <1>4, <2>2, <3>1
    <2> QED
      BY <2>1, <2>2
  <1>7. Len(t) = b + 3 + (n + 1)
    BY <1>1, <1>2
  <1>8. /\ Cell(t, b + 1) = Flags(f.intFlag) /\ Cell(t, b + 2) = KernelCode
        /\ Cell(t, b + 3) = f.at
    BY <1>2, <1>4, <1>5
  <1> QED
    BY <1>2, <1>3, <1>6, <1>7, <1>8 DEF Slots, t, b

LEMMA SlotPop ==
    ASSUME NEW f \in FrameRecord, NEW A, NEW n \in Nat, n >= 1, NEW s, Slots(f, s, A, n)
    PROVE  Slots(f, Tail(s), A, n - 1) /\ Head(s) \in A[n] /\ Head(s) \in AnyWord
  <1> DEFINE t == Tail(s)
             b == Len(f.stack)
             l == Len(s)
  <1>1. s \in Seq(AnyWord) /\ l = b + 3 + n /\ b \in Nat /\ f.stack \in Seq(AnyWord)
    BY FrameFields DEF Slots
  <1>2. /\ Cell(s, b + 1) = Flags(f.intFlag) /\ Cell(s, b + 2) = KernelCode
        /\ Cell(s, b + 3) = f.at
        /\ \A i \in 1..n : Cell(s, b + 3 + i) \in A[i]
        /\ b <= l /\ \A h \in 1..b : Cell(s, h) = Cell(f.stack, h)
    BY DEF Slots, Under
  <1>3. l >= 1
    <2> HIDE DEF b, l
    <2> QED
      BY <1>1
  <1>4. /\ t \in Seq(AnyWord) /\ Len(t) = l - 1
        /\ Head(s) = Cell(s, l) /\ Head(s) \in AnyWord
        /\ \A h \in 1..(l - 1) : Cell(t, h) = Cell(s, h)
    BY <1>1, <1>3, PopCells
  <1> HIDE DEF t, b, l
  <1>5. Len(t) = b + 3 + (n - 1) /\ b <= Len(t)
    BY <1>1, <1>4
  <1>6. /\ \A h \in 1..(b + 3) : h \in 1..(l - 1)
        /\ b + 1 \in 1..(b + 3) /\ b + 2 \in 1..(b + 3) /\ b + 3 \in 1..(b + 3)
        /\ \A h \in 1..b : h \in 1..(b + 3)
        /\ \A i \in 1..(n - 1) : i \in 1..n /\ b + 3 + i \in 1..(l - 1)
    BY <1>1
  <1>7. Under(f.stack, t)
    BY <1>2, <1>4, <1>5, <1>6 DEF Under, b
  <1>8. /\ Cell(t, b + 1) = Flags(f.intFlag) /\ Cell(t, b + 2) = KernelCode
        /\ Cell(t, b + 3) = f.at
        /\ \A i \in 1..(n - 1) : Cell(t, b + 3 + i) \in A[i]
    BY <1>2, <1>4, <1>6
  <1>9. Head(s) \in A[n]
    <2>1. n \in 1..n /\ b + 3 + n = l
      BY <1>1
    <2> QED
      BY <1>2, <1>4, <2>1
  <1> QED
    BY <1>4, <1>5, <1>7, <1>8, <1>9 DEF Slots, t, b

LEMMA SlotXchg ==
    ASSUME NEW f \in FrameRecord, NEW A, NEW B, NEW n \in Nat, NEW d \in Nat, d < n,
           NEW s, Slots(f, s, A, n), NEW w \in AnyWord, w \in B[n - d],
           \A i \in 1..n : i # n - d => A[i] \subseteq B[i]
    PROVE  /\ Slots(f, [s EXCEPT ![d + 1] = w], B, n)
           /\ s[d + 1] \in A[n - d] /\ s[d + 1] \in AnyWord
  <1> DEFINE t == [s EXCEPT ![d + 1] = w]
             b == Len(f.stack)
             l == Len(s)
  <1>1. s \in Seq(AnyWord) /\ l = b + 3 + n /\ b \in Nat /\ f.stack \in Seq(AnyWord)
    BY FrameFields DEF Slots
  <1>2. /\ Cell(s, b + 1) = Flags(f.intFlag) /\ Cell(s, b + 2) = KernelCode
        /\ Cell(s, b + 3) = f.at
        /\ \A i \in 1..n : Cell(s, b + 3 + i) \in A[i]
        /\ b <= l /\ \A h \in 1..b : Cell(s, h) = Cell(f.stack, h)
    BY DEF Slots, Under
  <1>3. d < l
    <2> HIDE DEF b, l
    <2> QED
      BY <1>1
  <1>4. /\ t \in Seq(AnyWord) /\ Len(t) = l
        /\ s[d + 1] = Cell(s, l - d) /\ s[d + 1] \in AnyWord
        /\ Cell(t, l - d) = w
        /\ \A h \in 1..l : h # l - d => Cell(t, h) = Cell(s, h)
    <2>1. s \in Seq(AnyWord) /\ d < Len(s)
      BY <1>1, <1>3
    <2> HIDE DEF t, b, l
    <2>2. /\ [s EXCEPT ![d + 1] = w] \in Seq(AnyWord)
          /\ Len([s EXCEPT ![d + 1] = w]) = Len(s)
          /\ s[d + 1] = Cell(s, Len(s) - d) /\ s[d + 1] \in AnyWord
          /\ Cell([s EXCEPT ![d + 1] = w], Len(s) - d) = w
          /\ \A h \in 1..Len(s) :
                h # Len(s) - d => Cell([s EXCEPT ![d + 1] = w], h) = Cell(s, h)
      BY <2>1, XchgCells
    <2> QED
      BY <2>2 DEF t, l
  <1> HIDE DEF t, b, l
  <1>5. /\ \A h \in 1..(b + 3) : h \in 1..l /\ h # l - d
        /\ b + 1 \in 1..(b + 3) /\ b + 2 \in 1..(b + 3) /\ b + 3 \in 1..(b + 3)
        /\ \A h \in 1..b : h \in 1..(b + 3)
        /\ \A i \in 1..n : b + 3 + i \in 1..l /\ (i # n - d => b + 3 + i # l - d)
        /\ l - d = b + 3 + (n - d) /\ n - d \in 1..n
    BY <1>1
  <1>6. Under(f.stack, t)
    BY <1>2, <1>4, <1>5 DEF Under, b
  <1>7. /\ Cell(t, b + 1) = Flags(f.intFlag) /\ Cell(t, b + 2) = KernelCode
        /\ Cell(t, b + 3) = f.at
    BY <1>2, <1>4, <1>5
  <1>8. ASSUME NEW i \in 1..n PROVE Cell(t, b + 3 + i) \in B[i]
    <2>1. CASE i = n - d
      BY <1>4, <1>5, <2>1
    <2>2. CASE i # n - d
      BY <1>2, <1>4, <1>5, <2>2
    <2> QED
      BY <2>1, <2>2
  <1>9. s[d + 1] \in A[n - d]
    BY <1>2, <1>4, <1>5
  <1>10. Len(t) = b + 3 + n
    BY <1>1, <1>4
  <1> QED
    BY <1>4, <1>6, <1>7, <1>8, <1>9, <1>10 DEF Slots, t, b

LEMMA SlotsWiden ==
    ASSUME NEW f, NEW A, NEW B, NEW n \in Nat, NEW s, Slots(f, s, A, n),
           \A i \in 1..n : A[i] \subseteq B[i]
    PROVE  Slots(f, s, B, n)
  BY DEF Slots

\* iret at the CPU's words, and with at least three more above them.
LEMMA SlotIret ==
    ASSUME NEW f \in FrameRecord, NEW A, NEW s, Slots(f, s, A, 0)
    PROVE  /\ s[1] = f.at /\ s[2] = KernelCode /\ s[3] = Flags(f.intFlag)
           /\ SubSeq(s, 4, Len(s)) = f.stack
  <1> DEFINE b == Len(f.stack)
             t == SubSeq(s, 4, Len(s))
             l == Len(s)
  <1>1. s \in Seq(AnyWord) /\ l = b + 3 + 0 /\ b \in Nat /\ f.stack \in Seq(AnyWord)
    BY FrameFields DEF Slots
  <1>2. l >= 3 /\ l = b + 3 /\ l - 1 = b + 2 /\ l - 2 = b + 1 /\ l - 3 = b
    <2> HIDE DEF b, l
    <2> QED
      BY <1>1
  <1>3. /\ s[1] = Cell(s, l) /\ s[2] = Cell(s, l - 1) /\ s[3] = Cell(s, l - 2)
        /\ t \in Seq(AnyWord) /\ Len(t) = l - 3
        /\ \A h \in 1..(l - 3) : Cell(t, h) = Cell(s, h)
    BY <1>1, <1>2, IretCells
  <1>4. /\ Cell(s, b + 1) = Flags(f.intFlag) /\ Cell(s, b + 2) = KernelCode
        /\ Cell(s, b + 3) = f.at
        /\ \A h \in 1..b : Cell(s, h) = Cell(f.stack, h)
    BY DEF Slots, Under
  <1> HIDE DEF t, l
  <1>5. t = f.stack
    <2>1. Len(t) = b /\ \A h \in 1..b : Cell(t, h) = Cell(f.stack, h)
      <3> HIDE DEF b
      <3> QED
        BY <1>2, <1>3, <1>4
    <2> QED
      BY <1>1, <1>3, <2>1, SameCells
  <1> HIDE DEF b
  <1> QED
    BY <1>2, <1>3, <1>4, <1>5 DEF t, l

LEMMA SlotIretLost ==
    ASSUME NEW f \in FrameRecord, NEW A, NEW n \in Nat, n >= 3, NEW s, Slots(f, s, A, n)
    PROVE  /\ s[3] \in A[n - 2] /\ s[1] \in AnyWord
           /\ SubSeq(s, 4, Len(s)) \in Seq(AnyWord)
           /\ Under(f.stack, SubSeq(s, 4, Len(s)))
  <1> DEFINE b == Len(f.stack)
             t == SubSeq(s, 4, Len(s))
             l == Len(s)
  <1>1. s \in Seq(AnyWord) /\ l = b + 3 + n /\ b \in Nat /\ f.stack \in Seq(AnyWord)
    BY FrameFields DEF Slots
  <1>2. l >= 3 /\ l - 2 = b + 3 + (n - 2) /\ b <= l - 3 /\ n - 2 \in 1..n
    <2> HIDE DEF b, l
    <2> QED
      BY <1>1
  <1>3. /\ s[3] = Cell(s, l - 2) /\ s[1] \in AnyWord
        /\ t \in Seq(AnyWord) /\ Len(t) = l - 3
        /\ \A h \in 1..(l - 3) : Cell(t, h) = Cell(s, h)
    BY <1>1, <1>2, IretCells
  <1>4. /\ \A i \in 1..n : Cell(s, b + 3 + i) \in A[i]
        /\ \A h \in 1..b : Cell(s, h) = Cell(f.stack, h)
    BY DEF Slots, Under
  <1> HIDE DEF t, b, l
  <1>5. s[3] \in A[n - 2]
    BY <1>2, <1>3, <1>4
  <1>6. b <= Len(t) /\ \A h \in 1..b : h \in 1..(l - 3)
    BY <1>1, <1>2, <1>3
  <1>7. Under(f.stack, t)
    BY <1>3, <1>4, <1>6 DEF Under, b
  <1> QED
    BY <1>3, <1>5, <1>7 DEF t, l

-----------------------------------------------------------------------------
(***************************************************************************)
(* What one instruction does.                                              *)
(***************************************************************************)
LEMMA RunPush ==
    ASSUME NEW x, Step, Code(at)[at[3]] = Push(x)
    PROVE  Goes(Following, regs, <<regs[x]>> \o stack)
  BY DEF Step, Faults, Execute, Push, Ins

LEMMA RunPushWord ==
    ASSUME NEW w, Step, Code(at)[at[3]] = PushWord(w)
    PROVE  Goes(Following, regs, <<w>> \o stack)
  BY DEF Step, Faults, Execute, PushWord, Ins

LEMMA RunPop ==
    ASSUME NEW x, Step, Code(at)[at[3]] = Pop(x)
    PROVE  Goes(Following, With(x, Head(stack)), Tail(stack))
  BY DEF Step, Faults, Execute, Pop, Ins

LEMMA RunXchg ==
    ASSUME NEW x, NEW d, Step, Code(at)[at[3]] = Xchg(x, d)
    PROVE  Goes(Following, With(x, stack[d + 1]), [stack EXCEPT ![d + 1] = regs[x]])
  BY DEF Step, Faults, Execute, Xchg, Ins

LEMMA RunLea ==
    ASSUME NEW x, NEW d, Step, Code(at)[at[3]] = Lea(x, d)
    PROVE  Goes(Following, With(x, Word("slot", "stack", Len(stack) - d)), stack)
  <1> DEFINE i == Lea(x, d)
  <1>1. i.op = "lea" /\ i.reg = x /\ i.arg = d
    BY DEF Lea, Ins
  <1>2. Execute(i)
    BY <1>1 DEF Step, Faults
  <1> HIDE DEF i
  <1>3. Goes(Following, With(i.reg, Word("slot", "stack", Len(stack) - i.arg)), stack)
    BY <1>1, <1>2 DEF Execute
  <1> QED
    BY <1>1, <1>3

LEMMA RunMov ==
    ASSUME NEW x, NEW w, Step, Code(at)[at[3]] = Mov(x, w)
    PROVE  Goes(Following, With(x, w), stack)
  BY DEF Step, Faults, Execute, Mov, Ins

LEMMA RunMovReg ==
    ASSUME NEW x, NEW y, Step, Code(at)[at[3]] = MovReg(x, y)
    PROVE  \/ /\ x \in SegmentRegs /\ regs[y] = UserData /\ ~ldtLoaded /\ Enter(13)
           \/ /\ ~(x \in SegmentRegs /\ regs[y] = UserData /\ ~ldtLoaded)
              /\ Goes(Following, With(x, regs[y]), stack)
  BY DEF Step, Faults, Execute, MovReg, Ins

LEMMA RunCall ==
    ASSUME NEW x, Step, Code(at)[at[3]] = Call(x)
    PROVE  Goes(regs[x], regs, <<Following>> \o stack)
  BY DEF Step, Faults, Execute, Call, Ins

LEMMA RunCallTable ==
    ASSUME NEW x, Step, Code(at)[at[3]] = CallTable(x)
    PROVE  Goes(Entry(regs[x][3]), regs, <<Following>> \o stack)
  BY DEF Step, Faults, Execute, CallTable, Ins

LEMMA RunJumpFrom ==
    ASSUME NEW x, NEW n, NEW label, Step, Code(at)[at[3]] = JumpFrom(x, n, label)
    PROVE  Goes(IF regs[x][3] >= n THEN Addr(label) ELSE Following, regs, stack)
  BY DEF Step, Faults, Execute, JumpFrom, Ins

LEMMA RunSkip ==
    ASSUME Step, Code(at)[at[3]] = Skip
    PROVE  Goes(Following, regs, Tail(stack))
  BY DEF Step, Faults, Execute, Skip, Ins

LEMMA RunJmp ==
    ASSUME NEW label, Step, Code(at)[at[3]] = Jmp(label)
    PROVE  Goes(Addr(label), regs, stack)
  BY DEF Step, Faults, Execute, Jmp, Ins

LEMMA RunC ==
    ASSUME NEW w, Step, Code(at)[at[3]] = CReturns(w)
    PROVE  Goes(Following, [x \in Regs |-> IF x = "eax" THEN w
                                          ELSE IF x \in {"ecx", "edx"}
                                          THEN Word("scratch", "c", 0) ELSE regs[x]], stack)
  <1> DEFINE i == CReturns(w)
  <1>1. i.op = "c" /\ i.arg = w
    BY DEF CReturns, Ins
  <1>2. Execute(i)
    BY <1>1 DEF Step, Faults
  <1> HIDE DEF i
  <1>3. Goes(Following, [r \in Regs |-> IF r = "eax" THEN i.arg
                                       ELSE IF r \in {"ecx", "edx"}
                                       THEN Word("scratch", "c", 0) ELSE regs[r]], stack)
    BY <1>1, <1>2, Zenon DEF Execute
  <1> QED
    BY <1>1, <1>3, Zenon

LEMMA RunRet ==
    ASSUME Step, Code(at)[at[3]] = Ret
    PROVE  Goes(Head(stack), regs, Tail(stack))
  BY DEF Step, Faults, Execute, Ret, Ins

LEMMA RunIret ==
    ASSUME Step, Code(at)[at[3]] = Iret
    PROVE  /\ at' = Returns /\ stack' = SubSeq(stack, 4, Len(stack))
           /\ intFlag' = (stack[3] = Flags(TRUE)) /\ nmiMasked' = FALSE
           /\ frames' = Tail(frames) /\ UNCHANGED <<regs, ldtLoaded>>
  BY DEF Step, Faults, Execute, Iret, Ins

-----------------------------------------------------------------------------
(***************************************************************************)
(* What the routines consist of.                                           *)
(***************************************************************************)
LEMMA CodeOfRoutines ==
    ASSUME NEW j
    PROVE  /\ Code(Word("code", "no_error_code", j)) = no_error_code
           /\ Code(Word("code", "error_code", j)) = error_code
           /\ Code(Word("code", "irq13", j)) = irq13
           /\ Code(Word("code", "ret_from_sys_call", j)) = ret_from_sys_call
           /\ Code(Word("code", "device_not_available", j)) = device_not_available
           /\ Code(Word("code", "coprocessor_error", j)) = coprocessor_error
           /\ Code(Word("code", "sys_call", j)) = sys_call
           /\ Code(Word("code", "bad_sys_call", j)) = bad_sys_call
           /\ Code(Word("code", "parallel_interrupt", j)) = parallel_interrupt
           /\ Code(Word("code", "ignore_int", j)) = ignore_int
  <1>1. ASSUME NEW l \in DOMAIN Routines PROVE Code(Word("code", l, j)) = Routines[l]
    <2>1. l \notin NoErrorStubs \cup ErrorStubs
      BY <1>1 DEF Routines, NoErrorStubs, ErrorStubs
    <2> QED
      BY <1>1, <2>1 DEF Code, Word
  <1>2. DOMAIN Routines = {"no_error_code", "error_code", "irq13", "ret_from_sys_call",
                           "device_not_available", "coprocessor_error", "sys_call",
                           "bad_sys_call", "parallel_interrupt", "ignore_int"}
    BY DEF Routines
  <1>3. /\ Routines["no_error_code"] = no_error_code
        /\ Routines["error_code"] = error_code
        /\ Routines["irq13"] = irq13
        /\ Routines["ret_from_sys_call"] = ret_from_sys_call
        /\ Routines["device_not_available"] = device_not_available
        /\ Routines["coprocessor_error"] = coprocessor_error
        /\ Routines["sys_call"] = sys_call
        /\ Routines["bad_sys_call"] = bad_sys_call
        /\ Routines["parallel_interrupt"] = parallel_interrupt
        /\ Routines["ignore_int"] = ignore_int
    BY DEF Routines
  <1> QED
    BY <1>1, <1>2, <1>3

LEMMA CodeOfStubs ==
    ASSUME NEW l, NEW j
    PROVE  /\ l \in NoErrorStubs =>
                 Code(Word("code", l, j)) = <<PushWord(CFunction(l)), Jmp("no_error_code")>>
           /\ l \in ErrorStubs =>
                 Code(Word("code", l, j)) = <<PushWord(CFunction(l)), Jmp("error_code")>>
           /\ Code(Word("do_", l, j)) = <<CBody, Ret>>
           /\ Code(Word("sys_", l, j)) = sys_(l)
  <1>1. l \in ErrorStubs => l \notin NoErrorStubs
    BY DEF NoErrorStubs, ErrorStubs
  <1> QED
    BY <1>1 DEF Code, Word

LEMMA NoErrorCodeContents ==
    /\ Len(no_error_code) = 31
    /\ no_error_code[1] = Xchg("eax", 0)
    /\ \A j \in 2..10 : no_error_code[j] = Push(FrameRegs[j])
    /\ no_error_code[11] = Lea("edx", 11)
    /\ no_error_code[12] = MovReg("edi", "edx")
    /\ no_error_code[13] = Mov("esi", Word("number", "0", 0))
    /\ \A j \in 14..18 : no_error_code[j] = LoadSegments(KernelData)[j - 13]
    /\ no_error_code[19] = MovReg("ebx", "eax")
    /\ no_error_code[20] = Call("ebx")
    /\ \A j \in 21..30 : no_error_code[j] = Pop(FrameRegs[31 - j])
    /\ no_error_code[31] = Iret
  BY DEF no_error_code, Below, Pushes, Pops, PopFrame, LoadSegments, Reverse, FrameRegs

LEMMA ErrorCodeContents ==
    /\ Len(error_code) = 30
    /\ error_code[1] = Xchg("eax", 1) /\ error_code[2] = Xchg("ebx", 0)
    /\ \A j \in 3..10 : error_code[j] = Push(FrameRegs[j])
    /\ error_code[11] = MovReg("esi", "eax")
    /\ error_code[12] = Lea("eax", 11)
    /\ error_code[13] = MovReg("edi", "eax")
    /\ \A j \in 14..18 : error_code[j] = LoadSegments(KernelData)[j - 13]
    /\ error_code[19] = Call("ebx")
    /\ \A j \in 20..29 : error_code[j] = Pop(FrameRegs[30 - j])
    /\ error_code[30] = Iret
  BY DEF error_code, Below, Pushes, Pops, PopFrame, LoadSegments, Reverse, FrameRegs

LEMMA LoadSegmentsContents ==
    ASSUME NEW x
    PROVE  /\ Len(LoadSegments(x)) = 5
           /\ LoadSegments(x)[1] = Mov("edx", KernelData)
           /\ LoadSegments(x)[2] = MovReg("ds", "edx")
           /\ LoadSegments(x)[3] = MovReg("es", "edx")
           /\ LoadSegments(x)[4] = Mov("edx", x)
           /\ LoadSegments(x)[5] = MovReg("fs", "edx")
  BY DEF LoadSegments

LEMMA DeviceContents ==
    /\ Len(device_not_available) = 15
    /\ \A j \in (1..8) \ {4} : device_not_available[j] = Push(SysRegs[j])
    /\ device_not_available[4] = PushWord(Word("number", "-1", 0))
    /\ \A j \in 9..13 : device_not_available[j] = LoadSegments(UserData)[j - 8]
    /\ device_not_available[14] = PushWord(Addr("ret_from_sys_call"))
    /\ device_not_available[15] = Ret
  BY DEF device_not_available, SysCallFrame, Pushes, LoadSegments, SysRegs

LEMMA CoprocessorContents ==
    /\ Len(coprocessor_error) = 15
    /\ \A j \in (1..8) \ {4} : coprocessor_error[j] = Push(SysRegs[j])
    /\ coprocessor_error[4] = PushWord(Word("number", "-1", 0))
    /\ \A j \in 9..13 : coprocessor_error[j] = LoadSegments(UserData)[j - 8]
    /\ coprocessor_error[14] = PushWord(Addr("ret_from_sys_call"))
    /\ coprocessor_error[15] = Jmp("device_not_available")
  BY DEF coprocessor_error, SysCallFrame, Pushes, LoadSegments, SysRegs

LEMMA ReturnContents ==
    /\ Len(ret_from_sys_call) = 9
    /\ \A j \in (1..8) \ {5} : ret_from_sys_call[j] = Pop(SysRegs[9 - j])
    /\ ret_from_sys_call[5] = Skip
    /\ ret_from_sys_call[9] = Iret
  BY DEF ret_from_sys_call, Pops, SysRegs

LEMMA SysCallContents ==
    /\ Len(sys_call) = 24
    /\ \A j \in 1..3 : sys_call[j] = Push(SysRegs[j])
    /\ sys_call[4] = Push("eax")
    /\ \A j \in 5..7 : sys_call[j] = Push(SysRegs[j])
    /\ \A j \in 8..12 : sys_call[j] = LoadSegments(UserData)[j - 7]
    /\ sys_call[13] = JumpFrom("eax", AddressOfNR_syscalls, "bad_sys_call")
    /\ sys_call[14] = CallTable("eax")
    /\ sys_call[15] = Push("eax")
    /\ \A j \in (1..8) \ {5} : sys_call[j + 15] = Pop(SysRegs[9 - j])
    /\ sys_call[20] = Skip
    /\ sys_call[24] = Iret
  BY DEF sys_call, ret_from_sys_call, Pushes, Pops, LoadSegments, SysRegs

\* What ignore_int pushes, and pushes again.
IgnoreRegs == <<"eax", "ecx", "edx", "ds", "es", "fs">>

LEMMA IgnoreContents ==
    /\ Len(ignore_int) = 19
    /\ \A j \in 1..6 : ignore_int[j] = Push(IgnoreRegs[j])
    /\ ignore_int[7] = Mov("eax", KernelData)
    /\ \A j \in 8..10 : ignore_int[j] = MovReg(<<"ds", "es", "fs">>[j - 7], "eax")
    /\ ignore_int[11] = PushWord(Word("address", "int_msg", 0))
    /\ ignore_int[12] = Pop("eax")
    /\ \A j \in 13..18 : ignore_int[j] = Push(IgnoreRegs[19 - j])
    /\ ignore_int[19] = Iret
  <1> DEFINE w == Word("address", "int_msg", 0)
  <1>1. ignore_int =
          Pushes(<<"eax", "ecx", "edx", "ds", "es", "fs">>)
          \o <<Mov("eax", KernelData), MovReg("ds", "eax"), MovReg("es", "eax"),
               MovReg("fs", "eax"), PushWord(w), Pop("eax")>>
          \o Pushes(<<"fs", "es", "ds", "edx", "ecx", "eax">>) \o <<Iret>>
    BY Zenon DEF ignore_int
  <1> HIDE DEF w
  <1>2. /\ Len(ignore_int) = 19
        /\ \A j \in 1..6 : ignore_int[j] = Push(IgnoreRegs[j])
        /\ ignore_int[7] = Mov("eax", KernelData)
        /\ \A j \in 8..10 : ignore_int[j] = MovReg(<<"ds", "es", "fs">>[j - 7], "eax")
        /\ ignore_int[11] = PushWord(w)
        /\ ignore_int[12] = Pop("eax")
        /\ \A j \in 13..18 : ignore_int[j] = Push(IgnoreRegs[19 - j])
        /\ ignore_int[19] = Iret
    BY <1>1 DEF Pushes, IgnoreRegs
  <1> QED
    BY <1>2 DEF w

LEMMA ShortContents ==
    /\ bad_sys_call = <<PushWord(ENOSYS), Jmp("ret_from_sys_call")>>
    /\ irq13 = <<Push("eax"), Mov("eax", Word("number", "0x20", 0)), Pop("eax"),
                 Jmp("coprocessor_error")>>
    /\ parallel_interrupt = <<Push("eax"), Mov("eax", Word("number", "0x20", 0)),
                              Pop("eax"), Iret>>
  BY DEF bad_sys_call, irq13, parallel_interrupt

-----------------------------------------------------------------------------
(***************************************************************************)
(* What a step of the handler of a frame f comes to.                       *)
(***************************************************************************)
\* It goes on in the same handler.
Moves(f) ==
    /\ UNCHANGED <<intFlag, nmiMasked, ldtLoaded, frames>>
    /\ Level(ldtLoaded, f, at', regs', stack')

\* It is lost, with the interrupted stack below what it left.
Strays(f) ==
    /\ UNCHANGED <<intFlag, nmiMasked, ldtLoaded, frames>>
    /\ at' = Word("wild", "nowhere", 1)
    /\ Typed(regs') /\ stack' \in Seq(AnyWord) /\ Under(f.stack, stack')

\* It comes back.
Comes(f) ==
    /\ f.handler \notin Unfinished
    /\ at' = f.at /\ stack' = f.stack /\ intFlag' = f.intFlag /\ regs' = Final(f)
    /\ f.handler \in {"device_not_available", "sys_call"} => ldtLoaded
    /\ nmiMasked' = FALSE /\ ldtLoaded' = ldtLoaded /\ frames' = Tail(frames)

\* Its iret leads nowhere.
Ends(f) ==
    /\ f.handler \in Unfinished
    /\ at' = Word("wild", "nowhere", 1) /\ stack' \in Seq(AnyWord) /\ Under(f.stack, stack')
    /\ intFlag' \in BOOLEAN /\ regs' = regs
    /\ nmiMasked' = FALSE /\ ldtLoaded' = ldtLoaded /\ frames' = Tail(frames)

\* The load of FS faults.
FaultsHere == ~ldtLoaded /\ Enter(13)

-----------------------------------------------------------------------------
LEMMA RegFacts ==
    /\ Regs = {"eax", "ebx", "ecx", "edx", "esi", "edi", "ebp", "ds", "es", "fs"}
    /\ SegmentRegs = {"ds", "es", "fs"}
  BY DEF Regs, GeneralRegs, SegmentRegs

LEMMA NameFacts ==
    /\ Regs \subseteq Names /\ Handlers \subseteq Names
    /\ NoErrorStubs \subseteq Handlers /\ ErrorStubs \subseteq Handlers
    /\ DOMAIN Routines \subseteq Handlers
    /\ {"0x08", "0x10", "0x17", "0", "0x20", "-1", "-38", "c", "int_msg", "on", "off",
        "program", "code", "number", "nowhere", "stack"} \subseteq Names
    /\ \A i \in 1..NR_syscalls : sys_call_table[i] \in Names
    /\ DOMAIN Routines = {"no_error_code", "error_code", "irq13", "ret_from_sys_call",
                          "device_not_available", "coprocessor_error", "sys_call",
                          "bad_sys_call", "parallel_interrupt", "ignore_int"}
  <1>1. DOMAIN Routines = {"no_error_code", "error_code", "irq13", "ret_from_sys_call",
                           "device_not_available", "coprocessor_error", "sys_call",
                           "bad_sys_call", "parallel_interrupt", "ignore_int"}
    BY DEF Routines
  <1> QED
    BY <1>1 DEF Names, Handlers

LEMMA WordFacts ==
    ASSUME NEW a \in Kinds, NEW l \in Names, NEW j \in Int
    PROVE  /\ Word(a, l, j) \in AnyWord
           /\ Word(a, l, j)[1] = a /\ Word(a, l, j)[2] = l /\ Word(a, l, j)[3] = j
           /\ a # "eflags" => Word(a, l, j) \in Plain
           /\ a = "selector" => Word(a, l, j) \in Selectors
  BY DEF Word, AnyWord, Plain, Selectors, Kinds

LEMMA SelectorFacts ==
    /\ KernelData \in Selectors /\ UserData \in Selectors
    /\ KernelData \in Plain /\ UserData \in Plain
    /\ KernelData # UserData
    /\ KernelCode \in AnyWord
  <1>1. /\ KernelData \in Selectors /\ UserData \in Selectors
        /\ KernelData \in Plain /\ UserData \in Plain /\ KernelCode \in AnyWord
    BY WordFacts, NameFacts DEF Kinds, KernelData, UserData, KernelCode
  <1>2. KernelData[2] = "0x10" /\ UserData[2] = "0x17"
    BY DEF KernelData, UserData, Word
  <1> QED
    BY <1>1, <1>2

LEMMA CFunctionFacts ==
    ASSUME NEW l \in Handlers
    PROVE  CFunction(l) \in Plain /\ CFunction(l) \in AnyWord
  BY WordFacts, NameFacts DEF Kinds, CFunction

LEMMA FlagsFacts ==
    ASSUME NEW b \in BOOLEAN
    PROVE  /\ Flags(b) \in AnyWord /\ Flags(b)[1] = "eflags"
           /\ (Flags(b) = Flags(TRUE)) = b
  <1>1. /\ Word("eflags", "on", 0) \in AnyWord /\ Word("eflags", "on", 0)[1] = "eflags"
        /\ Word("eflags", "off", 0) \in AnyWord /\ Word("eflags", "off", 0)[1] = "eflags"
    BY WordFacts, NameFacts DEF Kinds
  <1>2. Flags(b) \in AnyWord /\ Flags(b)[1] = "eflags"
    BY <1>1 DEF Flags
  <1>3. Flags(TRUE)[2] = "on" /\ Flags(FALSE)[2] = "off"
    BY DEF Flags, Word
  <1>4. "on" # "off"
    OBVIOUS
  <1>5. CASE b = TRUE
    BY <1>2, <1>5
  <1>6. CASE b = FALSE
    <2>1. Flags(FALSE) # Flags(TRUE)
      BY <1>3, <1>4
    <2> QED
      BY <1>2, <1>6, <2>1
  <1> QED
    BY <1>5, <1>6

LEMMA TypedWith ==
    ASSUME Typed(regs), NEW x \in Regs, NEW w \in Plain, x \in SegmentRegs => w \in Selectors
    PROVE  /\ Typed(With(x, w)) /\ With(x, w)[x] = w
           /\ \A y \in Regs : y # x => With(x, w)[y] = regs[y]
  BY DEF Typed, With, Regs

LEMMA TypedReg ==
    ASSUME NEW r, Typed(r), NEW x \in Regs
    PROVE  /\ r[x] \in Plain /\ r[x] \in AnyWord
           /\ x \in SegmentRegs => r[x] \in Selectors
  BY DEF Typed, Plain

LEMMA SelectorsArePlain == Selectors \subseteq Plain /\ Plain \subseteq AnyWord
  BY DEF Selectors, Plain

LEMMA SameRegs ==
    ASSUME NEW r, NEW q, Typed(r), Typed(q), \A x \in Regs : r[x] = q[x]
    PROVE  r = q
  BY DEF Typed

LEMMA FrameSlotFacts ==
    ASSUME NEW f
    PROVE  /\ \A i \in 1..10 : FrameSlots(f)[i] = {f.regs[FrameRegs[i]]}
           /\ FrameSlots(f)[11] = {BackTo(f)}
  BY DEF FrameSlots

LEMMA FrameRegFacts ==
    /\ \A i \in 1..10 : FrameRegs[i] \in Regs
    /\ \A i \in 2..10 : FrameRegs[i] # "eax"
    /\ \A i \in 3..10 : FrameRegs[i] # "ebx"
    /\ \A i \in 1..10 : FrameRegs[i] \in SegmentRegs <=> i \in 8..10
    /\ \A i \in 1..10, k \in 1..10 : i # k => FrameRegs[i] # FrameRegs[k]
    /\ \A x \in Regs : \E i \in 1..10 : FrameRegs[i] = x
  BY DEF FrameRegs, Regs, GeneralRegs, SegmentRegs

\* One instruction of LoadSegments.
LEMMA RunLoad ==
    ASSUME NEW x \in {KernelData, UserData}, NEW i \in 1..5, Step, Typed(regs),
           Code(at)[at[3]] = LoadSegments(x)[i], Loaded(regs, i - 1, x)
    PROVE  \/ x = UserData /\ FaultsHere
           \/ /\ at' = Following /\ stack' = stack
              /\ UNCHANGED <<intFlag, nmiMasked, ldtLoaded, frames>>
              /\ Typed(regs') /\ Loaded(regs', i, x)
              /\ \A y \in {"eax", "ebx", "ecx", "esi", "edi", "ebp"} : regs'[y] = regs[y]
              /\ i = 5 /\ x = UserData => ldtLoaded
  <1> USE SelectorFacts, RegFacts
  <1>1. CASE i = 1
    <2>1. Goes(Following, With("edx", KernelData), stack)
      BY <1>1, LoadSegmentsContents, RunMov
    <2> QED
      BY <1>1, <2>1, TypedWith DEF Goes, Loaded
  <1>2. CASE i = 4
    <2>1. Goes(Following, With("edx", x), stack)
      BY <1>2, LoadSegmentsContents, RunMov
    <2> QED
      BY <1>2, <2>1, TypedWith DEF Goes, Loaded
  <1>3. CASE i = 2 \/ i = 3 \/ i = 5
    <2> DEFINE y == IF i = 2 THEN "ds" ELSE IF i = 3 THEN "es" ELSE "fs"
    <2>1. Code(at)[at[3]] = MovReg(y, "edx") /\ y \in SegmentRegs
      BY <1>3, LoadSegmentsContents
    <2>2. regs["edx"] = IF i = 5 THEN x ELSE KernelData
      BY <1>3 DEF Loaded
    <2>3. \/ regs["edx"] = UserData /\ ~ldtLoaded /\ Enter(13)
          \/ ~(regs["edx"] = UserData /\ ~ldtLoaded) /\ Goes(Following, With(y, regs["edx"]), stack)
      BY <2>1, RunMovReg
    <2>4. CASE regs["edx"] = UserData /\ ~ldtLoaded /\ Enter(13)
      BY <1>3, <2>2, <2>4 DEF FaultsHere
    <2>5. CASE ~(regs["edx"] = UserData /\ ~ldtLoaded) /\ Goes(Following, With(y, regs["edx"]), stack)
      <3>1. /\ Typed(With(y, regs["edx"])) /\ With(y, regs["edx"])[y] = regs["edx"]
            /\ \A z \in Regs : z # y => With(y, regs["edx"])[z] = regs[z]
        BY <1>3, <2>1, <2>2, TypedWith
      <3>2. /\ at' = Following /\ stack' = stack /\ regs' = With(y, regs["edx"])
            /\ UNCHANGED <<intFlag, nmiMasked, ldtLoaded, frames>>
        BY <2>5 DEF Goes
      <3>3. Loaded(regs', i, x)
        BY <1>3, <2>2, <3>1, <3>2 DEF Loaded
      <3> QED
        BY <2>2, <2>5, <3>1, <3>2, <3>3
    <2> QED
      BY <2>3, <2>4, <2>5
  <1> QED
    BY <1>1, <1>2, <1>3

\* The iret at the words of the CPU.
LEMMA RunIretBack ==
    ASSUME NEW f \in FrameRecord, NEW A, Step, Code(at)[at[3]] = Iret,
           Slots(f, stack, A, 0), regs = Final(f), f.handler \notin Unfinished,
           f.handler \in {"device_not_available", "sys_call"} => ldtLoaded
    PROVE  Comes(f)
  <1>1. /\ stack[1] = f.at /\ stack[2] = KernelCode /\ stack[3] = Flags(f.intFlag)
        /\ SubSeq(stack, 4, Len(stack)) = f.stack
    BY SlotIret
  <1>2. f.intFlag \in BOOLEAN
    BY FrameFields
  <1>3. Flags(f.intFlag)[1] = "eflags" /\ (Flags(f.intFlag) = Flags(TRUE)) = f.intFlag
    BY <1>2, FlagsFacts
  <1>4. /\ at' = Returns /\ stack' = SubSeq(stack, 4, Len(stack))
        /\ intFlag' = (stack[3] = Flags(TRUE)) /\ nmiMasked' = FALSE
        /\ frames' = Tail(frames) /\ UNCHANGED <<regs, ldtLoaded>>
    BY RunIret
  <1>5. Returns = f.at
    BY <1>1, <1>3 DEF Returns
  <1>6. intFlag' = f.intFlag
    BY <1>1, <1>3, <1>4
  <1> QED
    BY <1>1, <1>4, <1>5, <1>6 DEF Comes

\* The iret at other words.
LEMMA RunIretLost ==
    ASSUME NEW f \in FrameRecord, NEW A, NEW n \in Nat, n >= 3, Step, Code(at)[at[3]] = Iret,
           Slots(f, stack, A, n), A[n - 2] \subseteq Plain, f.handler \in Unfinished
    PROVE  Ends(f)
  <1>1. /\ stack[3] \in A[n - 2]
        /\ SubSeq(stack, 4, Len(stack)) \in Seq(AnyWord)
        /\ Under(f.stack, SubSeq(stack, 4, Len(stack)))
    BY SlotIretLost
  <1>2. stack[3][1] # "eflags"
    BY <1>1 DEF Plain
  <1>3. /\ at' = Returns /\ stack' = SubSeq(stack, 4, Len(stack))
        /\ intFlag' = (stack[3] = Flags(TRUE)) /\ nmiMasked' = FALSE
        /\ frames' = Tail(frames) /\ UNCHANGED <<regs, ldtLoaded>>
    BY RunIret
  <1>4. Returns = Word("wild", "nowhere", 1)
    BY <1>2 DEF Returns
  <1>5. intFlag' \in BOOLEAN
    BY <1>3, Zenon
  <1> QED
    BY <1>1, <1>3, <1>4, <1>5 DEF Ends

-----------------------------------------------------------------------------
(***************************************************************************)
(* The steps of the entries without and with an error code.                *)
(***************************************************************************)
LEMMA ToNoErrorCode ==
    ASSUME NEW f, f.handler \in NoErrorStubs, NEW j \in 1..31,
           at' = Word("code", "no_error_code", j), Typed(regs'),
           NoErrorCodeAt(f, j, regs', stack'),
           UNCHANGED <<intFlag, nmiMasked, ldtLoaded, frames>>
    PROVE  Moves(f)
  BY DEF Moves, Level, InNoErrorCode

LEMMA StepInNoErrorCode ==
    ASSUME NEW f \in FrameRecord, Typed(f.regs), Typed(regs), Step,
           InNoErrorCode(f, at, regs, stack)
    PROVE  Moves(f) \/ Comes(f)
  <1>1. PICK j \in 1..31 : at = Word("code", "no_error_code", j) /\ NoErrorCodeAt(f, j, regs, stack)
    BY DEF InNoErrorCode
  <1>2. f.handler \in NoErrorStubs /\ f.handler \in Handlers
    BY NameFacts DEF InNoErrorCode
  <1>3. Code(at) = no_error_code /\ at[3] = j /\ Following = Word("code", "no_error_code", j + 1)
    BY <1>1, CodeOfRoutines DEF Word, Following
  <1> USE RegFacts, SelectorFacts, SelectorsArePlain
  <1>4. CFunction(f.handler) \in Plain /\ CFunction(f.handler) \in AnyWord
    BY <1>2, CFunctionFacts
  <1>5. CASE j = 1
    <2>1. Goes(Following, With("eax", stack[0 + 1]), [stack EXCEPT ![0 + 1] = regs["eax"]])
      <3>1. Code(at)[at[3]] = Xchg("eax", 0)
        BY <1>3, <1>5, NoErrorCodeContents
      <3> QED
        BY <3>1, RunXchg
    <2>2. regs = f.regs /\ Slots(f, stack, <<{CFunction(f.handler)}>>, 1)
      BY <1>1, <1>2, <1>5 DEF NoErrorCodeAt, StubSlots
    <2>3. regs["eax"] \in FrameSlots(f)[1] /\ regs["eax"] \in AnyWord
      BY <2>2, FrameSlotFacts, TypedReg DEF FrameRegs
    <2>4. /\ Slots(f, [stack EXCEPT ![0 + 1] = regs["eax"]], FrameSlots(f), 1)
          /\ stack[0 + 1] = CFunction(f.handler)
      BY <2>2, <2>3, SlotXchg
    <2>5. /\ Typed(regs') /\ regs'["eax"] = CFunction(f.handler)
          /\ \A y \in Regs : y # "eax" => regs'[y] = f.regs[y]
      BY <1>4, <2>1, <2>2, <2>4, TypedWith DEF Goes
    <2>6. NoErrorCodeAt(f, 2, regs', stack')
      BY <2>1, <2>4, <2>5 DEF NoErrorCodeAt, Goes
    <2>7. at' = Word("code", "no_error_code", 2) /\ UNCHANGED <<intFlag, nmiMasked, ldtLoaded, frames>>
      BY <1>3, <1>5, <2>1 DEF Goes
    <2> QED
      BY <1>2, <2>5, <2>6, <2>7, ToNoErrorCode
  <1>6. CASE j \in 2..10
    <2>1. Goes(Following, regs, <<regs[FrameRegs[j]]>> \o stack)
      BY <1>3, <1>6, NoErrorCodeContents, RunPush
    <2>2. /\ Slots(f, stack, FrameSlots(f), j - 1) /\ regs["eax"] = CFunction(f.handler)
          /\ \A x \in Regs \ {"eax"} : regs[x] = f.regs[x]
      BY <1>1, <1>6 DEF NoErrorCodeAt
    <2>3. regs[FrameRegs[j]] \in FrameSlots(f)[j] /\ regs[FrameRegs[j]] \in AnyWord
      BY <1>6, <2>2, FrameRegFacts, FrameSlotFacts, TypedReg
    <2>4. Slots(f, stack', FrameSlots(f), j)
      <3>1. j - 1 \in Nat /\ j - 1 + 1 = j
        BY <1>6
      <3>2. Slots(f, <<regs[FrameRegs[j]]>> \o stack, FrameSlots(f), j - 1 + 1)
        BY <2>2, <2>3, <3>1, SlotPush
      <3> QED
        BY <2>1, <3>1, <3>2 DEF Goes
    <2>5. NoErrorCodeAt(f, j + 1, regs', stack')
      <3>1. /\ j + 1 \in 2..11 /\ j + 1 - 1 = j /\ j + 1 \in 2..19
            /\ j + 1 # 1 /\ j + 1 \notin 12..20 /\ j + 1 \notin 14..20 /\ j + 1 # 20
            /\ j + 1 \notin 21..31
        BY <1>6
      <3>2. regs' = regs
        BY <2>1 DEF Goes
      <3> QED
        BY <2>2, <2>4, <3>1, <3>2 DEF NoErrorCodeAt
    <2> QED
      BY <1>2, <1>3, <1>6, <2>1, <2>5, ToNoErrorCode DEF Goes
  <1>7. CASE j \in {11, 12, 13, 19}
    <2>1. /\ Slots(f, stack, FrameSlots(f), 10) /\ regs["eax"] = CFunction(f.handler)
          /\ j = 19 => Loaded(regs, 5, KernelData)
      BY <1>1, <1>7 DEF NoErrorCodeAt
    <2>2. \E x \in {"edx", "edi", "esi", "ebx"}, w \in Plain :
             /\ Goes(Following, With(x, w), stack)
             /\ j = 19 => x = "ebx" /\ w = regs["eax"]
      <3>1. CASE j = 11
        <4>1. Goes(Following, With("edx", Word("slot", "stack", Len(stack) - 11)), stack)
          <5>1. Code(at)[at[3]] = Lea("edx", 11)
            BY <1>3, <3>1, NoErrorCodeContents
          <5> QED
            BY <5>1, RunLea
        <4>2. Len(stack) - 11 \in Int
          BY <2>1 DEF Slots
        <4>3. Word("slot", "stack", Len(stack) - 11) \in Plain
          BY <4>2, WordFacts, NameFacts DEF Kinds
        <4> QED
          BY <3>1, <4>1, <4>3
      <3>2. CASE j = 12
        BY <1>3, <3>2, NoErrorCodeContents, RunMovReg, TypedReg
      <3>3. CASE j = 13
        <4>1. Word("number", "0", 0) \in Plain
          BY WordFacts, NameFacts DEF Kinds
        <4> QED
          BY <1>3, <3>3, <4>1, NoErrorCodeContents, RunMov
      <3>4. CASE j = 19
        BY <1>3, <3>4, NoErrorCodeContents, RunMovReg, TypedReg
      <3> QED
        BY <1>7, <3>1, <3>2, <3>3, <3>4
    <2>3. PICK x \in {"edx", "edi", "esi", "ebx"}, w \in Plain :
             /\ Goes(Following, With(x, w), stack)
             /\ j = 19 => x = "ebx" /\ w = regs["eax"]
      BY <2>2
    <2>4. /\ Typed(regs') /\ regs'[x] = w
          /\ \A y \in Regs : y # x => regs'[y] = regs[y]
      BY <2>3, TypedWith DEF Goes
    <2>5. NoErrorCodeAt(f, j + 1, regs', stack')
      BY <1>7, <2>1, <2>3, <2>4 DEF NoErrorCodeAt, Goes, Loaded
    <2> QED
      BY <1>2, <1>3, <1>7, <2>3, <2>4, <2>5, ToNoErrorCode DEF Goes
  <1>8. CASE j \in 14..18
    <2>1. /\ Slots(f, stack, FrameSlots(f), 10) /\ regs["eax"] = CFunction(f.handler)
          /\ Loaded(regs, j - 14, KernelData)
      BY <1>1, <1>8 DEF NoErrorCodeAt
    <2>2. j - 13 \in 1..5 /\ j - 13 - 1 = j - 14
      BY <1>8
    <2>3. /\ at' = Following /\ stack' = stack
          /\ UNCHANGED <<intFlag, nmiMasked, ldtLoaded, frames>>
          /\ Typed(regs') /\ Loaded(regs', j - 13, KernelData)
          /\ regs'["eax"] = regs["eax"]
      <3>1. Code(at)[at[3]] = LoadSegments(KernelData)[j - 13]
        BY <1>3, <1>8, NoErrorCodeContents
      <3>2. Loaded(regs, j - 13 - 1, KernelData)
        BY <2>1, <2>2
      <3> QED
        BY <2>2, <3>1, <3>2, RunLoad
    <2>4. NoErrorCodeAt(f, j + 1, regs', stack')
      <3>1. j + 1 - 14 = j - 13
        BY <1>8
      <3>2. j + 1 \in 15..19
        BY <1>8
      <3> QED
        BY <2>1, <2>3, <3>1, <3>2 DEF NoErrorCodeAt
    <2> QED
      BY <1>2, <1>3, <1>8, <2>3, <2>4, ToNoErrorCode
  <1>9. CASE j = 20
    <2>1. /\ Slots(f, stack, FrameSlots(f), 10) /\ regs["ebx"] = CFunction(f.handler)
          /\ Loaded(regs, 5, KernelData)
      BY <1>1, <1>9 DEF NoErrorCodeAt, Loaded
    <2>2. Goes(CFunction(f.handler), regs, <<Word("code", "no_error_code", 21)>> \o stack)
      BY <1>3, <1>9, <2>1, NoErrorCodeContents, RunCall
    <2>3. Word("code", "no_error_code", 21) \in AnyWord
      BY WordFacts, NameFacts DEF Kinds
    <2>4. Word("code", "no_error_code", 21) \in FrameSlots(f)[10 + 1]
      BY <1>2, FrameSlotFacts DEF BackTo
    <2>5. Slots(f, stack', FrameSlots(f), 11)
      <3>1. Slots(f, <<Word("code", "no_error_code", 21)>> \o stack, FrameSlots(f), 10 + 1)
        BY <2>1, <2>3, <2>4, SlotPush
      <3> QED
        BY <2>2, <3>1 DEF Goes
    <2>6. InC(f, at', regs', stack')
      BY <1>2, <2>1, <2>2, <2>5 DEF InC, Goes, CFunction
    <2> QED
      BY <2>2, <2>6 DEF Moves, Level, Goes
  <1>10. CASE j \in 21..30
    <2>1. Goes(Following, With(FrameRegs[31 - j], Head(stack)), Tail(stack))
      BY <1>3, <1>10, NoErrorCodeContents, RunPop
    <2>2. Slots(f, stack, FrameSlots(f), 31 - j) /\ Restored(f, regs, 31 - j)
      BY <1>1, <1>10 DEF NoErrorCodeAt
    <2> DEFINE n == 31 - j
    <2>3. n \in 1..10 /\ n \in Nat /\ n >= 1 /\ 31 - (j + 1) = n - 1 /\ j + 1 \in 22..31
      BY <1>10
    <2> HIDE DEF n
    <2>4. /\ Slots(f, Tail(stack), FrameSlots(f), n - 1)
          /\ Head(stack) = f.regs[FrameRegs[n]]
      BY <2>2, <2>3, SlotPop, FrameSlotFacts DEF n
    <2>5. FrameRegs[n] \in Regs /\ f.regs[FrameRegs[n]] \in Plain
          /\ (FrameRegs[n] \in SegmentRegs => f.regs[FrameRegs[n]] \in Selectors)
      BY <2>3, FrameRegFacts, TypedReg
    <2>6. /\ Typed(regs') /\ regs'[FrameRegs[n]] = f.regs[FrameRegs[n]]
          /\ \A y \in Regs : y # FrameRegs[n] => regs'[y] = regs[y]
      BY <2>1, <2>4, <2>5, TypedWith DEF Goes, n
    <2>7. Restored(f, regs', n - 1)
      <3>1. ASSUME NEW i \in n..10 PROVE regs'[FrameRegs[i]] = f.regs[FrameRegs[i]]
        <4>1. CASE i = n
          BY <2>6, <4>1
        <4>2. CASE i # n
          <5>1. i \in (n + 1)..10 /\ i \in 1..10
            BY <2>3, <4>2
          <5>2. FrameRegs[i] # FrameRegs[n] /\ FrameRegs[i] \in Regs
            BY <2>3, <4>2, <5>1, FrameRegFacts
          <5> QED
            BY <2>2, <2>6, <5>1, <5>2 DEF Restored, n
        <4> QED
          BY <4>1, <4>2
      <3>2. n - 1 + 1 = n
        BY <2>3
      <3> QED
        BY <3>1, <3>2 DEF Restored
    <2>8. NoErrorCodeAt(f, j + 1, regs', stack')
      BY <2>1, <2>3, <2>4, <2>7 DEF NoErrorCodeAt, Goes
    <2> QED
      BY <1>2, <1>3, <2>1, <2>3, <2>6, <2>8, ToNoErrorCode DEF Goes
  <1>11. CASE j = 31
    <2>1. Slots(f, stack, FrameSlots(f), 0) /\ Restored(f, regs, 0)
      BY <1>1, <1>11 DEF NoErrorCodeAt
    <2>2. \A x \in Regs : regs[x] = f.regs[x]
      BY <2>1, FrameRegFacts DEF Restored
    <2>3. regs = f.regs
      BY <2>2, SameRegs
    <2>4. f.handler \notin Unfinished /\ f.handler \notin {"device_not_available", "sys_call"}
      BY <1>2 DEF NoErrorStubs, Unfinished
    <2>5. regs = Final(f)
      BY <2>3, <2>4 DEF Final
    <2>6. Code(at)[at[3]] = Iret
      BY <1>3, <1>11, NoErrorCodeContents
    <2> QED
      BY <2>1, <2>4, <2>5, <2>6, RunIretBack
  <1> QED
    BY <1>5, <1>6, <1>7, <1>8, <1>9, <1>10, <1>11

LEMMA ToErrorCode ==
    ASSUME NEW f, f.handler \in ErrorStubs, NEW j \in 1..30,
           at' = Word("code", "error_code", j), Typed(regs'),
           ErrorCodeAt(f, j, regs', stack'),
           UNCHANGED <<intFlag, nmiMasked, ldtLoaded, frames>>
    PROVE  Moves(f)
  BY DEF Moves, Level, InErrorCode

LEMMA StepInErrorCode ==
    ASSUME NEW f \in FrameRecord, Typed(f.regs), Typed(regs), Step,
           InErrorCode(f, at, regs, stack)
    PROVE  Moves(f) \/ Comes(f)
  <1>1. PICK j \in 1..30 : at = Word("code", "error_code", j) /\ ErrorCodeAt(f, j, regs, stack)
    BY DEF InErrorCode
  <1>2. f.handler \in ErrorStubs /\ f.handler \in Handlers /\ f.handler \notin NoErrorStubs
    BY NameFacts DEF InErrorCode, ErrorStubs, NoErrorStubs
  <1>3. Code(at) = error_code /\ at[3] = j /\ Following = Word("code", "error_code", j + 1)
    BY <1>1, CodeOfRoutines DEF Word, Following
  <1> USE RegFacts, SelectorFacts, SelectorsArePlain
  <1>4. CFunction(f.handler) \in Plain /\ CFunction(f.handler) \in AnyWord
    BY <1>2, CFunctionFacts
  <1>5. CASE j = 1
    <2>1. Goes(Following, With("eax", stack[1 + 1]), [stack EXCEPT ![1 + 1] = regs["eax"]])
      <3>1. Code(at)[at[3]] = Xchg("eax", 1)
        BY <1>3, <1>5, ErrorCodeContents
      <3> QED
        BY <3>1, RunXchg
    <2>2. regs = f.regs /\ Slots(f, stack, <<Plain, {CFunction(f.handler)}>>, 2)
      BY <1>1, <1>2, <1>5 DEF ErrorCodeAt, StubSlots
    <2>3. regs["eax"] \in AnyWord
      BY TypedReg
    <2>4. /\ Slots(f, [stack EXCEPT ![1 + 1] = regs["eax"]], ExchangedSlots(f), 2)
          /\ stack[1 + 1] \in Plain
      <3> DEFINE A == <<Plain, {CFunction(f.handler)}>>
      <3>1. \A i \in 1..2 : i # 2 - 1 => A[i] \subseteq ExchangedSlots(f)[i]
        BY DEF ExchangedSlots
      <3>2. regs["eax"] \in ExchangedSlots(f)[2 - 1]
        BY <2>2 DEF ExchangedSlots
      <3>3. A[2 - 1] = Plain /\ Slots(f, stack, A, 2)
        BY <2>2
      <3> HIDE DEF A
      <3>4. /\ Slots(f, [stack EXCEPT ![1 + 1] = regs["eax"]], ExchangedSlots(f), 2)
            /\ stack[1 + 1] \in A[2 - 1]
        BY <2>3, <3>1, <3>2, <3>3, SlotXchg
      <3> QED
        BY <3>3, <3>4
    <2>5. /\ Typed(regs')
          /\ \A y \in Regs : y # "eax" => regs'[y] = f.regs[y]
      BY <2>1, <2>2, <2>4, TypedWith DEF Goes
    <2>6. ErrorCodeAt(f, 2, regs', stack')
      BY <2>1, <2>4, <2>5 DEF ErrorCodeAt, Goes
    <2>7. at' = Word("code", "error_code", 2) /\ UNCHANGED <<intFlag, nmiMasked, ldtLoaded, frames>>
      BY <1>3, <1>5, <2>1 DEF Goes
    <2> QED
      BY <1>2, <2>5, <2>6, <2>7, ToErrorCode
  <1>6. CASE j = 2
    <2>1. Goes(Following, With("ebx", stack[0 + 1]), [stack EXCEPT ![0 + 1] = regs["ebx"]])
      <3>1. Code(at)[at[3]] = Xchg("ebx", 0)
        BY <1>3, <1>6, ErrorCodeContents
      <3> QED
        BY <3>1, RunXchg
    <2>2. /\ Slots(f, stack, ExchangedSlots(f), 2)
          /\ \A x \in Regs \ {"eax"} : regs[x] = f.regs[x]
      BY <1>1, <1>6 DEF ErrorCodeAt
    <2>3. regs["ebx"] \in AnyWord
      BY TypedReg
    <2>4. /\ Slots(f, [stack EXCEPT ![0 + 1] = regs["ebx"]], FrameSlots(f), 2)
          /\ stack[0 + 1] = CFunction(f.handler)
      <3>1. \A i \in 1..2 : i # 2 - 0 => ExchangedSlots(f)[i] \subseteq FrameSlots(f)[i]
        BY FrameSlotFacts DEF ExchangedSlots, FrameRegs
      <3>2. regs["ebx"] \in FrameSlots(f)[2 - 0]
        BY <2>2, FrameSlotFacts DEF FrameRegs
      <3>3. ExchangedSlots(f)[2 - 0] = {CFunction(f.handler)}
        BY DEF ExchangedSlots
      <3>4. /\ Slots(f, [stack EXCEPT ![0 + 1] = regs["ebx"]], FrameSlots(f), 2)
            /\ stack[0 + 1] \in ExchangedSlots(f)[2 - 0]
        <4> DEFINE A == ExchangedSlots(f)
                   B == FrameSlots(f)
                   w == regs["ebx"]
        <4>1. Slots(f, stack, A, 2) /\ w \in AnyWord /\ w \in B[2 - 0]
          BY <2>2, <2>3, <3>2
        <4>2. \A i \in 1..2 : i # 2 - 0 => A[i] \subseteq B[i]
          BY <3>1
        <4> HIDE DEF A, B, w
        <4>3. Slots(f, [stack EXCEPT ![0 + 1] = w], B, 2) /\ stack[0 + 1] \in A[2 - 0]
          BY <4>1, <4>2, SlotXchg
        <4> QED
          BY <4>3 DEF A, B, w
      <3> QED
        BY <3>3, <3>4
    <2>5. /\ Typed(regs') /\ regs'["ebx"] = CFunction(f.handler)
          /\ \A y \in Regs : y # "ebx" => regs'[y] = regs[y]
      BY <1>4, <2>1, <2>4, TypedWith DEF Goes
    <2>6. ErrorCodeAt(f, 3, regs', stack')
      BY <2>1, <2>2, <2>4, <2>5 DEF ErrorCodeAt, Goes
    <2>7. at' = Word("code", "error_code", 3) /\ UNCHANGED <<intFlag, nmiMasked, ldtLoaded, frames>>
      BY <1>3, <1>6, <2>1 DEF Goes
    <2> QED
      BY <1>2, <2>5, <2>6, <2>7, ToErrorCode
  <1>7. CASE j \in 3..10
    <2>1. Goes(Following, regs, <<regs[FrameRegs[j]]>> \o stack)
      BY <1>3, <1>7, ErrorCodeContents, RunPush
    <2>2. /\ Slots(f, stack, FrameSlots(f), j - 1) /\ regs["ebx"] = CFunction(f.handler)
          /\ \A x \in Regs \ {"eax", "ebx"} : regs[x] = f.regs[x]
      BY <1>1, <1>7 DEF ErrorCodeAt
    <2>3. regs[FrameRegs[j]] \in FrameSlots(f)[j] /\ regs[FrameRegs[j]] \in AnyWord
      BY <1>7, <2>2, FrameRegFacts, FrameSlotFacts, TypedReg
    <2>4. Slots(f, stack', FrameSlots(f), j)
      <3>1. j - 1 \in Nat /\ j - 1 + 1 = j
        BY <1>7
      <3>2. Slots(f, <<regs[FrameRegs[j]]>> \o stack, FrameSlots(f), j - 1 + 1)
        BY <2>2, <2>3, <3>1, SlotPush
      <3> QED
        BY <2>1, <3>1, <3>2 DEF Goes
    <2>5. ErrorCodeAt(f, j + 1, regs', stack')
      <3>1. j + 1 \in 4..11 /\ j + 1 - 1 = j
        BY <1>7
      <3> QED
        <4>1. Slots(f, stack', FrameSlots(f), j + 1 - 1)
          BY <2>4, <3>1
        <4>2. regs' = regs
          BY <2>1 DEF Goes
        <4> QED
          BY <2>2, <3>1, <4>1, <4>2 DEF ErrorCodeAt
    <2> QED
      BY <1>2, <1>3, <1>7, <2>1, <2>5, ToErrorCode DEF Goes
  <1>8. CASE j \in {11, 12, 13}
    <2>1. Slots(f, stack, FrameSlots(f), 10) /\ regs["ebx"] = CFunction(f.handler)
      BY <1>1, <1>8 DEF ErrorCodeAt
    <2>2. \E x \in {"esi", "eax", "edi"}, w \in Plain : Goes(Following, With(x, w), stack)
      <3>1. CASE j = 12
        <4>1. Goes(Following, With("eax", Word("slot", "stack", Len(stack) - 11)), stack)
          <5>1. Code(at)[at[3]] = Lea("eax", 11)
            BY <1>3, <3>1, ErrorCodeContents
          <5> QED
            BY <5>1, RunLea
        <4>2. Len(stack) - 11 \in Int
          BY <2>1 DEF Slots
        <4>3. Word("slot", "stack", Len(stack) - 11) \in Plain
          BY <4>2, WordFacts, NameFacts DEF Kinds
        <4> QED
          BY <4>1, <4>3
      <3>2. CASE j = 11
        BY <1>3, <3>2, ErrorCodeContents, RunMovReg, TypedReg
      <3>3. CASE j = 13
        BY <1>3, <3>3, ErrorCodeContents, RunMovReg, TypedReg
      <3> QED
        BY <1>8, <3>1, <3>2, <3>3
    <2>3. PICK x \in {"esi", "eax", "edi"}, w \in Plain : Goes(Following, With(x, w), stack)
      BY <2>2
    <2>4. /\ Typed(regs') /\ regs'[x] = w
          /\ \A y \in Regs : y # x => regs'[y] = regs[y]
      BY <2>3, TypedWith DEF Goes
    <2>5. ErrorCodeAt(f, j + 1, regs', stack')
      BY <1>8, <2>1, <2>3, <2>4 DEF ErrorCodeAt, Goes, Loaded
    <2> QED
      BY <1>2, <1>3, <1>8, <2>3, <2>4, <2>5, ToErrorCode DEF Goes
  <1>9. CASE j \in 14..18
    <2>1. /\ Slots(f, stack, FrameSlots(f), 10) /\ regs["ebx"] = CFunction(f.handler)
          /\ Loaded(regs, j - 14, KernelData)
      BY <1>1, <1>9 DEF ErrorCodeAt
    <2>2. j - 13 \in 1..5 /\ j - 13 - 1 = j - 14
      BY <1>9
    <2>3. /\ at' = Following /\ stack' = stack
          /\ UNCHANGED <<intFlag, nmiMasked, ldtLoaded, frames>>
          /\ Typed(regs') /\ Loaded(regs', j - 13, KernelData)
          /\ regs'["ebx"] = regs["ebx"]
      <3>1. Code(at)[at[3]] = LoadSegments(KernelData)[j - 13]
        BY <1>3, <1>9, ErrorCodeContents
      <3>2. Loaded(regs, j - 13 - 1, KernelData)
        BY <2>1, <2>2
      <3> QED
        BY <2>2, <3>1, <3>2, RunLoad
    <2>4. ErrorCodeAt(f, j + 1, regs', stack')
      <3>1. j + 1 - 14 = j - 13
        BY <1>9
      <3>2. j + 1 \in 15..19
        BY <1>9
      <3> QED
        BY <2>1, <2>3, <3>1, <3>2 DEF ErrorCodeAt
    <2> QED
      BY <1>2, <1>3, <1>9, <2>3, <2>4, ToErrorCode
  <1>10. CASE j = 19
    <2>1. /\ Slots(f, stack, FrameSlots(f), 10) /\ regs["ebx"] = CFunction(f.handler)
          /\ Loaded(regs, 5, KernelData)
      BY <1>1, <1>10 DEF ErrorCodeAt
    <2>2. Goes(CFunction(f.handler), regs, <<Word("code", "error_code", 20)>> \o stack)
      BY <1>3, <1>10, <2>1, ErrorCodeContents, RunCall
    <2>3. Word("code", "error_code", 20) \in AnyWord
      BY WordFacts, NameFacts DEF Kinds
    <2>4. Word("code", "error_code", 20) \in FrameSlots(f)[10 + 1]
      BY <1>2, FrameSlotFacts DEF BackTo
    <2>5. Slots(f, stack', FrameSlots(f), 11)
      <3>1. Slots(f, <<Word("code", "error_code", 20)>> \o stack, FrameSlots(f), 10 + 1)
        BY <2>1, <2>3, <2>4, SlotPush
      <3> QED
        BY <2>2, <3>1 DEF Goes
    <2>6. InC(f, at', regs', stack')
      BY <1>2, <2>1, <2>2, <2>5 DEF InC, Goes, CFunction
    <2> QED
      BY <2>2, <2>6 DEF Moves, Level, Goes
  <1>11. CASE j \in 20..29
    <2>1. Goes(Following, With(FrameRegs[30 - j], Head(stack)), Tail(stack))
      BY <1>3, <1>11, ErrorCodeContents, RunPop
    <2>2. Slots(f, stack, FrameSlots(f), 30 - j) /\ Restored(f, regs, 30 - j)
      BY <1>1, <1>11 DEF ErrorCodeAt
    <2> DEFINE n == 30 - j
    <2>3. n \in 1..10 /\ n \in Nat /\ n >= 1 /\ 30 - (j + 1) = n - 1 /\ j + 1 \in 21..30
      BY <1>11
    <2> HIDE DEF n
    <2>4. /\ Slots(f, Tail(stack), FrameSlots(f), n - 1)
          /\ Head(stack) = f.regs[FrameRegs[n]]
      BY <2>2, <2>3, SlotPop, FrameSlotFacts DEF n
    <2>5. FrameRegs[n] \in Regs /\ f.regs[FrameRegs[n]] \in Plain
          /\ (FrameRegs[n] \in SegmentRegs => f.regs[FrameRegs[n]] \in Selectors)
      BY <2>3, FrameRegFacts, TypedReg
    <2>6. /\ Typed(regs') /\ regs'[FrameRegs[n]] = f.regs[FrameRegs[n]]
          /\ \A y \in Regs : y # FrameRegs[n] => regs'[y] = regs[y]
      BY <2>1, <2>4, <2>5, TypedWith DEF Goes, n
    <2>7. Restored(f, regs', n - 1)
      <3>1. ASSUME NEW i \in n..10 PROVE regs'[FrameRegs[i]] = f.regs[FrameRegs[i]]
        <4>1. CASE i = n
          BY <2>6, <4>1
        <4>2. CASE i # n
          <5>1. i \in (n + 1)..10 /\ i \in 1..10
            BY <2>3, <4>2
          <5>2. FrameRegs[i] # FrameRegs[n] /\ FrameRegs[i] \in Regs
            BY <2>3, <4>2, <5>1, FrameRegFacts
          <5> QED
            BY <2>2, <2>6, <5>1, <5>2 DEF Restored, n
        <4> QED
          BY <4>1, <4>2
      <3>2. n - 1 + 1 = n
        BY <2>3
      <3> QED
        BY <3>1, <3>2 DEF Restored
    <2>8. ErrorCodeAt(f, j + 1, regs', stack')
      BY <2>1, <2>3, <2>4, <2>7 DEF ErrorCodeAt, Goes
    <2> QED
      BY <1>2, <1>3, <2>1, <2>3, <2>6, <2>8, ToErrorCode DEF Goes
  <1>12. CASE j = 30
    <2>1. Slots(f, stack, FrameSlots(f), 0) /\ Restored(f, regs, 0)
      BY <1>1, <1>12 DEF ErrorCodeAt
    <2>2. \A x \in Regs : regs[x] = f.regs[x]
      BY <2>1, FrameRegFacts DEF Restored
    <2>3. regs = f.regs
      BY <2>2, SameRegs
    <2>4. f.handler \notin Unfinished /\ f.handler \notin {"device_not_available", "sys_call"}
      BY <1>2 DEF ErrorStubs, Unfinished
    <2>5. regs = Final(f)
      BY <2>3, <2>4 DEF Final
    <2>6. Code(at)[at[3]] = Iret
      BY <1>3, <1>12, ErrorCodeContents
    <2> QED
      BY <2>1, <2>4, <2>5, <2>6, RunIretBack
  <1> QED
    BY <1>5, <1>6, <1>7, <1>8, <1>9, <1>10, <1>11, <1>12

LEMMA StepInC ==
    ASSUME NEW f \in FrameRecord, Typed(f.regs), Typed(regs), Step,
           InC(f, at, regs, stack)
    PROVE  Moves(f)
  <1>1. PICK j \in 1..2 : at = Word("do_", f.handler, j)
    BY DEF InC
  <1>2. /\ f.handler \in NoErrorStubs \cup ErrorStubs
        /\ Slots(f, stack, FrameSlots(f), 11) /\ Loaded(regs, 5, KernelData)
    BY DEF InC
  <1>3. Code(at) = <<CBody, Ret>> /\ at[3] = j /\ Following = Word("do_", f.handler, j + 1)
    BY <1>1, CodeOfStubs DEF Word, Following
  <1> USE RegFacts
  <1>4. CASE j = 1
    <2> DEFINE w == Word("scratch", "c", 0)
               q == [x \in Regs |-> IF x = "eax" THEN w
                                    ELSE IF x \in {"ecx", "edx"} THEN w ELSE regs[x]]
    <2>1. CBody = CReturns(w)
      BY DEF CBody, CReturns
    <2>2. Code(at)[at[3]] = CReturns(w)
      BY <1>3, <1>4, <2>1
    <2>3. Goes(Following, q, stack)
      BY <2>2, RunC
    <2>4. w \in Plain
      BY WordFacts, NameFacts DEF Kinds
    <2> HIDE DEF w
    <2>5. Typed(q) /\ Loaded(q, 5, KernelData)
      BY <1>2, <2>4 DEF Typed, Loaded
    <2> HIDE DEF q
    <2>6. InC(f, at', regs', stack')
      BY <1>2, <1>3, <1>4, <2>3, <2>5 DEF InC, Goes
    <2> QED
      BY <2>3, <2>5, <2>6 DEF Moves, Level, Goes
  <1>5. CASE j = 2
    <2>1. Goes(Head(stack), regs, Tail(stack))
      BY <1>3, <1>5, RunRet
    <2>2. Slots(f, Tail(stack), FrameSlots(f), 10) /\ Head(stack) = BackTo(f)
      <3>1. Slots(f, Tail(stack), FrameSlots(f), 11 - 1) /\ Head(stack) \in FrameSlots(f)[11]
        BY <1>2, SlotPop
      <3> QED
        BY <3>1, FrameSlotFacts
    <2>3. CASE f.handler \in NoErrorStubs
      <3>1. NoErrorCodeAt(f, 21, regs', stack')
        BY <2>1, <2>2 DEF NoErrorCodeAt, Goes, Restored
      <3>2. at' = Word("code", "no_error_code", 21)
        BY <2>1, <2>2, <2>3 DEF BackTo, Goes
      <3> QED
        BY <2>1, <2>3, <3>1, <3>2, ToNoErrorCode DEF Goes
    <2>4. CASE f.handler \notin NoErrorStubs
      <3>1. ErrorCodeAt(f, 20, regs', stack')
        BY <2>1, <2>2 DEF ErrorCodeAt, Goes, Restored
      <3>2. at' = Word("code", "error_code", 20)
        BY <2>1, <2>2, <2>4 DEF BackTo, Goes
      <3> QED
        BY <1>2, <2>1, <2>4, <3>1, <3>2, ToErrorCode DEF Goes
    <2> QED
      BY <2>3, <2>4
  <1> QED
    BY <1>4, <1>5

LEMMA StepInStub ==
    ASSUME NEW f \in FrameRecord, Typed(f.regs), Typed(regs), Step,
           InStub(f, at, regs, stack)
    PROVE  Moves(f)
  <1> DEFINE clean == f.handler \in NoErrorStubs
             next == IF clean THEN "no_error_code" ELSE "error_code"
  <1>1. PICK j \in 1..2 : /\ at = Word("code", f.handler, j)
                          /\ Slots(f, stack, StubSlots(f), IF clean THEN j - 1 ELSE j)
    BY DEF InStub
  <1>2. f.handler \in NoErrorStubs \cup ErrorStubs /\ f.handler \in Handlers /\ regs = f.regs
    BY NameFacts DEF InStub
  <1>3. /\ Code(at) = <<PushWord(CFunction(f.handler)), Jmp(next)>>
        /\ at[3] = j /\ Following = Word("code", f.handler, j + 1)
    BY <1>1, <1>2, CodeOfStubs DEF Word, Following
  <1>4. CASE j = 1
    <2>1. Goes(Following, regs, <<CFunction(f.handler)>> \o stack)
      BY <1>3, <1>4, RunPushWord
    <2>2. CFunction(f.handler) \in AnyWord
      BY <1>2, CFunctionFacts
    <2>3. Slots(f, stack', StubSlots(f), IF clean THEN 1 ELSE 2)
      <3>1. CASE clean
        <4>1. CFunction(f.handler) \in StubSlots(f)[0 + 1]
          BY <3>1 DEF StubSlots
        <4>2. Slots(f, stack, StubSlots(f), 0)
          BY <1>1, <1>4, <3>1
        <4>3. Slots(f, <<CFunction(f.handler)>> \o stack, StubSlots(f), 0 + 1)
          BY <2>2, <4>1, <4>2, SlotPush
        <4> QED
          BY <2>1, <3>1, <4>3 DEF Goes
      <3>2. CASE ~clean
        <4>1. CFunction(f.handler) \in StubSlots(f)[1 + 1]
          BY <3>2 DEF StubSlots
        <4>2. Slots(f, stack, StubSlots(f), 1)
          BY <1>1, <1>4, <3>2
        <4>3. Slots(f, <<CFunction(f.handler)>> \o stack, StubSlots(f), 1 + 1)
          BY <2>2, <4>1, <4>2, SlotPush
        <4> QED
          BY <2>1, <3>2, <4>3 DEF Goes
      <3> QED
        BY <3>1, <3>2
    <2>4. InStub(f, at', regs', stack')
      BY <1>2, <1>3, <1>4, <2>1, <2>3 DEF InStub, Goes
    <2> QED
      BY <2>1, <2>4 DEF Moves, Level, Goes
  <1>5. CASE j = 2
    <2>1. Goes(Addr(next), regs, stack)
      BY <1>3, <1>5, RunJmp
    <2>2. CASE clean
      <3>1. NoErrorCodeAt(f, 1, regs', stack')
        BY <1>1, <1>2, <1>5, <2>1, <2>2 DEF NoErrorCodeAt, Goes
      <3> QED
        BY <2>1, <2>2, <3>1, ToNoErrorCode DEF Goes, Addr
    <2>3. CASE ~clean
      <3>1. ErrorCodeAt(f, 1, regs', stack')
        BY <1>1, <1>2, <1>5, <2>1, <2>3 DEF ErrorCodeAt, Goes
      <3> QED
        BY <1>2, <2>1, <2>3, <3>1, ToErrorCode DEF Goes, Addr
    <2> QED
      BY <2>2, <2>3
  <1> QED
    BY <1>4, <1>5

-----------------------------------------------------------------------------
(***************************************************************************)
(* The table of the system calls.                                          *)
(***************************************************************************)
LEMMA TableFacts ==
    /\ NR_syscalls = 87
    /\ \A n \in 1..87 : /\ sys_call_table[n] \in DOMAIN __NR
                        /\ __NR[sys_call_table[n]] = n - 1
    /\ \A g \in DOMAIN __NR : sys_call_table[__NR[g] + 1] = g
  BY DEF NR_syscalls, sys_call_table, __NR

\* Each function stands at its number.
LEMMA CallsInOrder ==
    ASSUME NEW n \in Nat, n < NR_syscalls
    PROVE  /\ (CHOOSE g \in DOMAIN __NR : __NR[g] = n) = FunctionOf(n)
           /\ FunctionOf(n) \in Names
  <1>1. n + 1 \in 1..87 /\ n + 1 - 1 = n
    BY TableFacts
  <1>2. FunctionOf(n) \in DOMAIN __NR /\ __NR[FunctionOf(n)] = n
    BY <1>1, TableFacts DEF FunctionOf
  <1>3. \A g \in DOMAIN __NR : __NR[g] = n => g = FunctionOf(n)
    BY TableFacts DEF FunctionOf
  <1>4. FunctionOf(n) \in Names
    BY <1>1, NameFacts, TableFacts DEF FunctionOf
  <1> QED
    BY <1>2, <1>3, <1>4

LEMMA AnswerFacts ==
    ASSUME NEW n \in Nat
    PROVE  /\ Answer(n) \in Plain
           /\ n >= NR_syscalls => Answer(n) = ENOSYS
           /\ n < NR_syscalls =>
                 Answer(n) = IF FunctionOf(n) \in AssemblerCalls THEN Word("call", "number", n)
                             ELSE Result(FunctionOf(n))
  <1>1. CASE n >= NR_syscalls
    <2>1. ENOSYS \in Plain
      BY WordFacts, NameFacts DEF Kinds, ENOSYS
    <2>2. ~(n < NR_syscalls)
      BY <1>1, TableFacts
    <2> QED
      BY <1>1, <2>1, <2>2 DEF Answer
  <1>2. CASE n < NR_syscalls
    <2>1. ~(n >= NR_syscalls)
      BY <1>2, TableFacts
    <2> DEFINE g == CHOOSE x \in DOMAIN __NR : __NR[x] = n
    <2>2. Answer(n) = IF g \in AssemblerCalls THEN Word("call", "number", n) ELSE Result(g)
      BY <2>1 DEF Answer
    <2>3. g = FunctionOf(n)
      BY <1>2, CallsInOrder
    <2> HIDE DEF g
    <2>4. Word("call", "number", n) \in Plain
      BY WordFacts, NameFacts DEF Kinds
    <2>5. Word("result", FunctionOf(n), 0) \in Plain
      BY <1>2, CallsInOrder, WordFacts DEF Kinds
    <2> QED
      BY <1>2, <2>1, <2>2, <2>3, <2>4, <2>5 DEF Result
  <1>3. n >= NR_syscalls \/ n < NR_syscalls
    BY TableFacts
  <1> QED
    BY <1>1, <1>2, <1>3

LEMMA FinalFacts ==
    ASSUME NEW f \in FrameRecord, Typed(f.regs), f.handler = "sys_call" => IsCall(f)
    PROVE  /\ Typed(Final(f))
           /\ \A x \in Regs : x # "eax" => Final(f)[x] = f.regs[x]
           /\ f.handler # "sys_call" => Final(f) = f.regs
           /\ f.handler = "sys_call" => /\ f.regs["eax"][3] \in Nat
                                        /\ f.regs["eax"] = Word("call", "number", f.regs["eax"][3])
                                        /\ Final(f)["eax"] = Answer(f.regs["eax"][3])
  <1>1. CASE f.handler # "sys_call"
    BY <1>1 DEF Final
  <1>2. CASE f.handler = "sys_call"
    <2>1. PICK n \in Calls : f.regs["eax"] = Word("call", "number", n)
      BY <1>2 DEF IsCall
    <2>2. n \in Nat /\ f.regs["eax"][3] = n
      BY <2>1, AddressAssumption DEF Word
    <2>3. Final(f) = [f.regs EXCEPT !["eax"] = Answer(n)] /\ Answer(n) \in Plain
      BY <1>2, <2>2, AnswerFacts DEF Final
    <2>4. /\ Typed(Final(f)) /\ Final(f)["eax"] = Answer(n)
          /\ \A x \in Regs : x # "eax" => Final(f)[x] = f.regs[x]
      BY <2>3, RegFacts DEF Typed
    <2> QED
      BY <1>2, <2>1, <2>2, <2>4
  <1> QED
    BY <1>1, <1>2

-----------------------------------------------------------------------------
(***************************************************************************)
(* The frame of the entries of sys_call.asm.                               *)
(***************************************************************************)
LEMMA SysSlotFacts ==
    ASSUME NEW f
    PROVE  /\ \A i \in 1..9 : SysSlots(f)[i] = SysSlot(f, i)
           /\ \A i \in 1..9 : SysSlots(f)[9 + i] = SysSlot(f, i)
           /\ SysSlot(f, 9) = {Addr("ret_from_sys_call")}
           /\ SysSlot(f, 4) = Plain
           /\ \A i \in (1..8) \ {4} :
                 /\ f.handler \notin Unfinished => SysSlot(f, i) = {Final(f)[SysRegs[i]]}
                 /\ f.handler \in Unfinished =>
                       SysSlot(f, i) = IF i < 4 THEN Selectors ELSE Plain
  BY DEF SysSlots, SysSlot

LEMMA SysRegFacts ==
    /\ \A i \in (1..8) \ {4} : SysRegs[i] \in Regs \ {"esi", "edi", "ebp"}
    /\ \A i \in 1..7 : SysRegs[i] # "eax"
    /\ SysRegs[8] = "eax" /\ SysRegs[1] = "ds" /\ SysRegs[2] = "es" /\ SysRegs[3] = "fs"
    /\ \A i \in (1..8) \ {4} : SysRegs[i] \in SegmentRegs <=> i < 4
    /\ \A i \in 1..8, k \in 1..8 : i # k => SysRegs[i] # SysRegs[k]
    /\ \A x \in Regs \ {"esi", "edi", "ebp"} : \E i \in (1..8) \ {4} : SysRegs[i] = x
  BY DEF SysRegs, Regs, GeneralRegs, SegmentRegs

\* A register fits the slot it is pushed into.
LEMMA SysSlotFits ==
    ASSUME NEW f \in FrameRecord, Typed(f.regs), Typed(regs), NEW i \in (1..8) \ {4},
           f.handler \notin Unfinished => regs[SysRegs[i]] = Final(f)[SysRegs[i]]
    PROVE  regs[SysRegs[i]] \in SysSlot(f, i) /\ regs[SysRegs[i]] \in AnyWord
  <1>1. /\ regs[SysRegs[i]] \in Plain /\ regs[SysRegs[i]] \in AnyWord
        /\ i < 4 => regs[SysRegs[i]] \in Selectors
    BY SysRegFacts, TypedReg
  <1> QED
    BY <1>1, SysSlotFacts

\* A step of the frame's making.
LEMMA StepOfFrame ==
    ASSUME NEW f \in FrameRecord, Typed(f.regs), Typed(regs), Step,
           f.handler # "sys_call", NEW o \in {0, 9}, NEW j \in 1..14, at[3] = j,
           SysFrameAt(ldtLoaded, f, o, j, regs, stack),
           j \in (1..8) \ {4} => Code(at)[j] = Push(SysRegs[j]),
           j = 4 => Code(at)[j] = PushWord(Word("number", "-1", 0)),
           j \in 9..13 => Code(at)[j] = LoadSegments(UserData)[j - 8],
           j = 14 => Code(at)[j] = PushWord(Addr("ret_from_sys_call"))
    PROVE  \/ FaultsHere
           \/ /\ at' = Following /\ UNCHANGED <<intFlag, nmiMasked, ldtLoaded, frames>>
              /\ Typed(regs') /\ SysFrameAt(ldtLoaded, f, o, j + 1, regs', stack')
              /\ \A y \in {"esi", "edi", "ebp"} : regs'[y] = regs[y]
  <1>1. /\ f.handler \notin Unfinished /\ j <= 9 => regs = f.regs
        /\ Slots(f, stack, SysSlots(f), o + (IF j <= 9 THEN j - 1 ELSE IF j <= 14 THEN 8 ELSE 9))
        /\ j \in 10..15 => Loaded(regs, j - 9, UserData)
        /\ j \in 14..15 => ldtLoaded
    BY DEF SysFrameAt
  <1>2. Final(f) = f.regs
    BY FinalFacts
  <1>3. CASE j \in 1..8
    <2> DEFINE w == IF j = 4 THEN Word("number", "-1", 0) ELSE regs[SysRegs[j]]
    <2>1. Goes(Following, regs, <<w>> \o stack)
      BY <1>3, RunPush, RunPushWord
    <2>2. w \in AnyWord /\ w \in SysSlot(f, j)
      <3>1. CASE j = 4
        <4>1. Word("number", "-1", 0) \in Plain
          BY WordFacts, NameFacts DEF Kinds
        <4> QED
          BY <3>1, <4>1, SysSlotFacts, SelectorsArePlain
      <3>2. CASE j # 4
        BY <1>1, <1>2, <1>3, <3>2, SysSlotFits
      <3> QED
        BY <3>1, <3>2
    <2>3. SysSlots(f)[o + j] = SysSlot(f, j)
      BY <1>3, SysSlotFacts
    <2> HIDE DEF w
    <2>4. Slots(f, stack', SysSlots(f), o + j)
      <3>1. o + (j - 1) \in Nat /\ o + (j - 1) + 1 = o + j
        BY <1>3
      <3>2. Slots(f, stack, SysSlots(f), o + (j - 1))
        BY <1>1, <1>3
      <3>3. Slots(f, <<w>> \o stack, SysSlots(f), o + (j - 1) + 1)
        BY <2>2, <2>3, <3>1, <3>2, SlotPush
      <3> QED
        BY <2>1, <3>1, <3>3 DEF Goes
    <2>5. SysFrameAt(ldtLoaded, f, o, j + 1, regs', stack')
      <3>1. j + 1 \in 2..9 /\ j + 1 - 1 = j /\ j <= 9
        BY <1>3
      <3>2. regs' = regs
        BY <2>1 DEF Goes
      <3> QED
        BY <1>1, <2>4, <3>1, <3>2 DEF SysFrameAt
    <2> QED
      BY <2>1, <2>5 DEF Goes
  <1>4. CASE j \in 9..13
    <2>1. Slots(f, stack, SysSlots(f), o + 8)
      BY <1>1, <1>4
    <2>2. j - 8 \in 1..5 /\ Loaded(regs, j - 8 - 1, UserData)
      <3>1. CASE j = 9
        BY <3>1 DEF Loaded
      <3>2. CASE j \in 10..13
        <4>1. j - 8 - 1 = j - 9 /\ j - 8 \in 1..5
          BY <3>2
        <4> QED
          BY <1>1, <3>2, <4>1
      <3> QED
        BY <1>4, <3>1, <3>2
    <2>3. \/ FaultsHere
          \/ /\ at' = Following /\ stack' = stack
             /\ UNCHANGED <<intFlag, nmiMasked, ldtLoaded, frames>>
             /\ Typed(regs') /\ Loaded(regs', j - 8, UserData)
             /\ \A y \in {"esi", "edi", "ebp"} : regs'[y] = regs[y]
             /\ j - 8 = 5 => ldtLoaded
      <3>1. Code(at)[at[3]] = LoadSegments(UserData)[j - 8]
        BY <1>4
      <3> QED
        BY <2>2, <3>1, RunLoad
    <2>4. CASE FaultsHere
      BY <2>4
    <2>5. CASE /\ at' = Following /\ stack' = stack
               /\ UNCHANGED <<intFlag, nmiMasked, ldtLoaded, frames>>
               /\ Typed(regs') /\ Loaded(regs', j - 8, UserData)
               /\ \A y \in {"esi", "edi", "ebp"} : regs'[y] = regs[y]
               /\ j - 8 = 5 => ldtLoaded
      <3>1. /\ j + 1 \in 10..14 /\ j + 1 - 9 = j - 8 /\ (j + 1 = 14 => j - 8 = 5)
        BY <1>4
      <3>2. SysFrameAt(ldtLoaded, f, o, j + 1, regs', stack')
        BY <2>1, <2>5, <3>1 DEF SysFrameAt
      <3> QED
        BY <2>5, <3>2
    <2> QED
      BY <2>3, <2>4, <2>5
  <1>5. CASE j = 14
    <2> DEFINE w == Addr("ret_from_sys_call")
    <2>1. Goes(Following, regs, <<w>> \o stack)
      BY <1>5, RunPushWord
    <2>2. w \in AnyWord /\ w \in SysSlots(f)[o + 9]
      <3>1. w \in AnyWord
        <4>1. "ret_from_sys_call" \in Names
          BY NameFacts
        <4> QED
          BY <4>1, WordFacts DEF Kinds, Addr
      <3> QED
        BY <3>1, SysSlotFacts
    <2>3. Slots(f, stack, SysSlots(f), o + 8) /\ Loaded(regs, 5, UserData) /\ ldtLoaded
      BY <1>1, <1>5
    <2> HIDE DEF w
    <2>4. Slots(f, stack', SysSlots(f), o + 9)
      <3>1. Slots(f, <<w>> \o stack, SysSlots(f), o + 8 + 1)
        BY <2>2, <2>3, SlotPush
      <3> QED
        BY <2>1, <3>1 DEF Goes
    <2>5. SysFrameAt(ldtLoaded, f, o, 15, regs', stack')
      BY <2>1, <2>3, <2>4 DEF SysFrameAt, Goes, Loaded
    <2> QED
      BY <1>5, <2>1, <2>5 DEF Goes
  <1> QED
    BY <1>3, <1>4, <1>5

LEMMA HandlerKinds ==
    /\ \A h \in NoErrorStubs \cup ErrorStubs :
          h \notin {"coprocessor_error", "irq13", "device_not_available", "sys_call",
                    "parallel_interrupt", "ignore_int"}
    /\ Unfinished = {"ignore_int", "coprocessor_error", "irq13"}
    /\ "general_protection" \in ErrorStubs
  BY DEF NoErrorStubs, ErrorStubs, Unfinished

LEMMA StepInCoprocessor ==
    ASSUME NEW f \in FrameRecord, Typed(f.regs), Typed(regs), Step,
           InCoprocessor(ldtLoaded, f, at, regs, stack)
    PROVE  FaultsHere \/ Moves(f)
  <1>1. PICK j \in 1..15 : /\ at = Word("code", "coprocessor_error", j)
                           /\ SysFrameAt(ldtLoaded, f, 0, j, regs, stack)
    BY DEF InCoprocessor
  <1>2. f.handler \in {"coprocessor_error", "irq13"} /\ f.handler \in Unfinished
    BY HandlerKinds DEF InCoprocessor
  <1>3. /\ Code(at) = coprocessor_error /\ at[3] = j
        /\ Following = Word("code", "coprocessor_error", j + 1)
    BY <1>1, CodeOfRoutines DEF Word, Following
  <1>4. CASE j \in 1..14
    <2>1. \/ FaultsHere
          \/ /\ at' = Following /\ UNCHANGED <<intFlag, nmiMasked, ldtLoaded, frames>>
             /\ Typed(regs') /\ SysFrameAt(ldtLoaded, f, 0, j + 1, regs', stack')
      <3>1. /\ j \in (1..8) \ {4} => Code(at)[j] = Push(SysRegs[j])
            /\ j = 4 => Code(at)[j] = PushWord(Word("number", "-1", 0))
            /\ j \in 9..13 => Code(at)[j] = LoadSegments(UserData)[j - 8]
            /\ j = 14 => Code(at)[j] = PushWord(Addr("ret_from_sys_call"))
        BY <1>3, CoprocessorContents
      <3>2. f.handler # "sys_call" /\ 0 \in {0, 9}
        BY <1>2
      <3> QED
        BY <1>1, <1>3, <1>4, <3>1, <3>2, StepOfFrame
    <2>2. CASE /\ at' = Following /\ UNCHANGED <<intFlag, nmiMasked, ldtLoaded, frames>>
               /\ Typed(regs') /\ SysFrameAt(ldtLoaded, f, 0, j + 1, regs', stack')
      <3>1. j + 1 \in 1..15
        BY <1>4
      <3>2. InCoprocessor(ldtLoaded, f, at', regs', stack')
        BY <1>2, <1>3, <2>2, <3>1 DEF InCoprocessor
      <3> QED
        BY <2>2, <3>2 DEF Moves, Level
    <2> QED
      BY <2>1, <2>2
  <1>5. CASE j = 15
    <2>1. Goes(Addr("device_not_available"), regs, stack)
      BY <1>3, <1>5, CoprocessorContents, RunJmp
    <2>2. Slots(f, stack, SysSlots(f), 9)
      <3>1. 0 + (IF 15 <= 9 THEN 15 - 1 ELSE IF 15 <= 14 THEN 8 ELSE 9) = 9
        OBVIOUS
      <3> QED
        BY <1>1, <1>5, <3>1 DEF SysFrameAt
    <2>3. Below2(f) = 9
      BY <1>2 DEF Below2
    <2>4. SysFrameAt(ldtLoaded, f, Below2(f), 1, regs', stack')
      <3>1. 9 + (IF 1 <= 9 THEN 1 - 1 ELSE IF 1 <= 14 THEN 8 ELSE 9) = 9
        OBVIOUS
      <3> QED
        BY <1>2, <2>1, <2>2, <2>3, <3>1 DEF SysFrameAt, Goes
    <2>5. InDevice(ldtLoaded, f, at', regs', stack')
      BY <1>2, <2>1, <2>4 DEF InDevice, Untouched, Goes, Addr
    <2> QED
      BY <2>1, <2>5 DEF Moves, Level, Goes
  <1> QED
    BY <1>4, <1>5

LEMMA StepInDevice ==
    ASSUME NEW f \in FrameRecord, Typed(f.regs), Typed(regs), Step,
           InDevice(ldtLoaded, f, at, regs, stack)
    PROVE  FaultsHere \/ Moves(f)
  <1> DEFINE o == Below2(f)
  <1>1. PICK j \in 1..15 : /\ at = Word("code", "device_not_available", j)
                           /\ SysFrameAt(ldtLoaded, f, o, j, regs, stack)
    BY DEF InDevice
  <1>2. /\ f.handler \in {"device_not_available", "coprocessor_error", "irq13"}
        /\ Untouched(f, regs) /\ o \in {0, 9}
    BY DEF InDevice, Below2
  <1>3. /\ Code(at) = device_not_available /\ at[3] = j
        /\ Following = Word("code", "device_not_available", j + 1)
    BY <1>1, CodeOfRoutines DEF Word, Following
  <1> HIDE DEF o
  <1>4. CASE j \in 1..14
    <2>1. \/ FaultsHere
          \/ /\ at' = Following /\ UNCHANGED <<intFlag, nmiMasked, ldtLoaded, frames>>
             /\ Typed(regs') /\ SysFrameAt(ldtLoaded, f, o, j + 1, regs', stack')
             /\ \A y \in {"esi", "edi", "ebp"} : regs'[y] = regs[y]
      <3>1. /\ j \in (1..8) \ {4} => Code(at)[j] = Push(SysRegs[j])
            /\ j = 4 => Code(at)[j] = PushWord(Word("number", "-1", 0))
            /\ j \in 9..13 => Code(at)[j] = LoadSegments(UserData)[j - 8]
            /\ j = 14 => Code(at)[j] = PushWord(Addr("ret_from_sys_call"))
        BY <1>3, DeviceContents
      <3>2. f.handler # "sys_call"
        BY <1>2
      <3> QED
        BY <1>1, <1>2, <1>3, <1>4, <3>1, <3>2, StepOfFrame
    <2>2. CASE /\ at' = Following /\ UNCHANGED <<intFlag, nmiMasked, ldtLoaded, frames>>
               /\ Typed(regs') /\ SysFrameAt(ldtLoaded, f, o, j + 1, regs', stack')
               /\ \A y \in {"esi", "edi", "ebp"} : regs'[y] = regs[y]
      <3>1. j + 1 \in 1..15
        BY <1>4
      <3>2. Untouched(f, regs')
        BY <1>2, <2>2 DEF Untouched
      <3>3. InDevice(ldtLoaded, f, at', regs', stack')
        BY <1>2, <1>3, <2>2, <3>1, <3>2 DEF InDevice, o
      <3> QED
        BY <2>2, <3>3 DEF Moves, Level
    <2> QED
      BY <2>1, <2>2
  <1>5. CASE j = 15
    <2>1. Goes(Head(stack), regs, Tail(stack))
      BY <1>3, <1>5, DeviceContents, RunRet
    <2>2. Slots(f, stack, SysSlots(f), o + 9) /\ ldtLoaded
      <3>1. (IF 15 <= 9 THEN 15 - 1 ELSE IF 15 <= 14 THEN 8 ELSE 9) = 9
        OBVIOUS
      <3> QED
        BY <1>1, <1>5, <3>1 DEF SysFrameAt
    <2>3. /\ Slots(f, Tail(stack), SysSlots(f), o + 8)
          /\ Head(stack) = Addr("ret_from_sys_call")
      <3>1. o + 9 \in Nat /\ o + 9 >= 1 /\ o + 9 - 1 = o + 8
        BY <1>2
      <3>2. Slots(f, Tail(stack), SysSlots(f), o + 9 - 1) /\ Head(stack) \in SysSlots(f)[o + 9]
        <4> DEFINE n == o + 9
        <4>1. n \in Nat /\ n >= 1 /\ Slots(f, stack, SysSlots(f), n)
          BY <2>2, <3>1
        <4>2. n - 1 = o + 9 - 1
          BY <1>2
        <4> HIDE DEF n
        <4>3. Slots(f, Tail(stack), SysSlots(f), n - 1) /\ Head(stack) \in SysSlots(f)[n]
          BY <4>1, SlotPop
        <4>4. Slots(f, Tail(stack), SysSlots(f), o + 9 - 1)
          BY <4>2, <4>3
        <4> QED
          BY <4>3, <4>4 DEF n
      <3>3. SysSlots(f)[o + 9] = SysSlot(f, 9)
        BY <1>2, SysSlotFacts
      <3> QED
        BY <3>1, <3>2, <3>3, SysSlotFacts
    <2>4. ReturnAt(f, 1, regs', stack')
      <3>1. o + 9 - 1 = o + 8 /\ (10 - 1)..8 = {}
        BY <1>2
      <3> QED
        BY <2>1, <2>3, <3>1 DEF ReturnAt, Goes, o
    <2>5. InReturn(ldtLoaded, f, at', regs', stack')
      BY <1>2, <2>1, <2>2, <2>3, <2>4 DEF InReturn, Untouched, Goes, Addr
    <2> QED
      BY <2>1, <2>5 DEF Moves, Level, Goes
  <1> QED
    BY <1>4, <1>5

LEMMA StepInReturn ==
    ASSUME NEW f \in FrameRecord, Typed(f.regs), Typed(regs), Step,
           InReturn(ldtLoaded, f, at, regs, stack)
    PROVE  Moves(f) \/ Comes(f) \/ Ends(f)
  <1> DEFINE o == Below2(f)
  <1>1. PICK j \in 1..9 :
          /\ \/ at = Word("code", "ret_from_sys_call", j)
             \/ f.handler = "sys_call" /\ at = Word("code", "sys_call", j + 15)
          /\ ReturnAt(f, j, regs, stack)
    BY DEF InReturn
  <1>2. /\ f.handler \in {"device_not_available", "coprocessor_error", "irq13", "sys_call"}
        /\ Untouched(f, regs) /\ ldtLoaded /\ o \in {0, 9}
        /\ f.handler \in Unfinished <=> o = 9
        /\ f.handler \in {"device_not_available", "coprocessor_error", "irq13"} \/ IsCall(f)
    BY HandlerKinds DEF InReturn, IsCall, Below2
  <1>3. /\ Slots(f, stack, SysSlots(f), o + 9 - j)
        /\ \A i \in (10 - j)..8 : i # 4 => regs[SysRegs[i]] \in SysSlot(f, i)
    BY <1>1 DEF ReturnAt
  <1>4. /\ Code(at)[at[3]] = ret_from_sys_call[j]
        /\ \/ Following = Word("code", "ret_from_sys_call", j + 1)
           \/ f.handler = "sys_call" /\ Following = Word("code", "sys_call", j + 1 + 15)
    <2>1. CASE at = Word("code", "ret_from_sys_call", j)
      BY <2>1, CodeOfRoutines DEF Word, Following
    <2>2. CASE f.handler = "sys_call" /\ at = Word("code", "sys_call", j + 15)
      <3>1. Code(at) = sys_call /\ at[3] = j + 15
        BY <2>2, CodeOfRoutines DEF Word
      <3>2. Following = Word("code", "sys_call", j + 1 + 15)
        <4>1. j + 15 + 1 = j + 1 + 15
          OBVIOUS
        <4> QED
          BY <2>2, <4>1 DEF Word, Following
      <3>3. sys_call[j + 15] = ret_from_sys_call[j]
        <4>1. CASE j = 5
          BY <4>1, ReturnContents, SysCallContents
        <4>2. CASE j = 9
          BY <4>2, ReturnContents, SysCallContents
        <4>3. CASE j \in (1..8) \ {5}
          BY <4>3, ReturnContents, SysCallContents
        <4> QED
          BY <4>1, <4>2, <4>3
      <3> QED
        BY <2>2, <3>1, <3>2, <3>3
    <2> QED
      BY <1>1, <2>1, <2>2
  <1> HIDE DEF o
  <1>5. Typed(Final(f)) /\ \A x \in {"esi", "edi", "ebp"} : Final(f)[x] = f.regs[x]
    BY <1>2, FinalFacts, RegFacts
  <1>6. ASSUME j \in 1..8, at' = Following, stack' = Tail(stack), Typed(regs'),
               \A y \in {"esi", "edi", "ebp"} : regs'[y] = regs[y],
               \A i \in (9 - j)..8 : i # 4 => regs'[SysRegs[i]] \in SysSlot(f, i),
               UNCHANGED <<intFlag, nmiMasked, ldtLoaded, frames>>
        PROVE  Moves(f)
    <2>1. /\ j + 1 \in 1..9 /\ o + 9 - j - 1 = o + 9 - (j + 1) /\ 10 - (j + 1) = 9 - j
          /\ o + 9 - j \in Nat /\ o + 9 - j >= 1
      BY <1>2, <1>6
    <2>2. Slots(f, stack', SysSlots(f), o + 9 - (j + 1))
      <3> DEFINE n == o + 9 - j
      <3>1. n \in Nat /\ n >= 1 /\ n - 1 = o + 9 - (j + 1)
        BY <1>2, <1>6
      <3>2. Slots(f, stack, SysSlots(f), n)
        BY <1>3
      <3> HIDE DEF n
      <3>3. Slots(f, Tail(stack), SysSlots(f), n - 1)
        BY <3>1, <3>2, SlotPop
      <3> QED
        BY <1>6, <3>1, <3>3
    <2>3. ReturnAt(f, j + 1, regs', stack')
      BY <1>6, <2>1, <2>2 DEF ReturnAt, o
    <2>4. Untouched(f, regs')
      BY <1>2, <1>6 DEF Untouched
    <2>5. InReturn(ldtLoaded, f, at', regs', stack')
      BY <1>2, <1>4, <1>6, <2>1, <2>3, <2>4 DEF InReturn
    <2> QED
      BY <1>6, <2>5 DEF Moves, Level
  <1>7. CASE j \in (1..8) \ {5}
    <2> DEFINE i == 9 - j
    <2>1. i \in (1..8) \ {4} /\ i = 9 - j
      BY <1>7
    <2> HIDE DEF i
    <2>2. Goes(Following, With(SysRegs[i], Head(stack)), Tail(stack))
      BY <1>4, <1>7, <2>1, ReturnContents, RunPop
    <2>3. Head(stack) \in SysSlot(f, i)
      <3>1. o + 9 - j \in Nat /\ o + 9 - j >= 1 /\ o + 9 - j = o + i /\ i \in 1..9
        BY <1>2, <2>1
      <3>2. Head(stack) \in SysSlots(f)[o + i]
        BY <1>3, <3>1, SlotPop
      <3>3. SysSlots(f)[o + i] = SysSlot(f, i)
        BY <1>2, <3>1, SysSlotFacts
      <3> QED
        BY <3>2, <3>3
    <2>4. SysRegs[i] \in Regs \ {"esi", "edi", "ebp"} /\ (SysRegs[i] \in SegmentRegs <=> i < 4)
      BY <2>1, SysRegFacts
    <2>5. Head(stack) \in Plain /\ (SysRegs[i] \in SegmentRegs => Head(stack) \in Selectors)
      <3>1. CASE f.handler \in Unfinished
        BY <2>1, <2>3, <2>4, <3>1, SysSlotFacts, SelectorsArePlain
      <3>2. CASE f.handler \notin Unfinished
        BY <1>5, <2>1, <2>3, <2>4, <3>2, SysSlotFacts, TypedReg
      <3> QED
        BY <3>1, <3>2
    <2>6. /\ Typed(regs') /\ regs'[SysRegs[i]] = Head(stack)
          /\ \A y \in Regs : y # SysRegs[i] => regs'[y] = regs[y]
      BY <2>2, <2>4, <2>5, TypedWith DEF Goes
    <2>7. ASSUME NEW k \in (9 - j)..8, k # 4 PROVE regs'[SysRegs[k]] \in SysSlot(f, k)
      <3>1. CASE k = i
        BY <2>3, <2>6, <3>1
      <3>2. CASE k # i
        <4>1. k \in (10 - j)..8 /\ k \in (1..8) \ {4} /\ i \in 1..8 /\ k \in 1..8
          BY <2>1, <2>7, <3>2
        <4>2. SysRegs[k] # SysRegs[i] /\ SysRegs[k] \in Regs
          BY <3>2, <4>1, SysRegFacts
        <4> QED
          BY <1>3, <2>6, <2>7, <4>1, <4>2
      <3> QED
        BY <3>1, <3>2
    <2>8. \A y \in {"esi", "edi", "ebp"} : regs'[y] = regs[y]
      BY <2>4, <2>6, RegFacts
    <2> QED
      BY <1>6, <1>7, <2>2, <2>6, <2>7, <2>8 DEF Goes
  <1>8. CASE j = 5
    <2>1. Goes(Following, regs, Tail(stack))
      BY <1>4, <1>8, ReturnContents, RunSkip
    <2>2. ASSUME NEW k \in (9 - j)..8, k # 4 PROVE regs'[SysRegs[k]] \in SysSlot(f, k)
      <3>1. k \in (10 - j)..8
        BY <1>8, <2>2
      <3> QED
        BY <1>3, <2>1, <2>2, <3>1 DEF Goes
    <2> QED
      BY <1>6, <1>8, <2>1, <2>2 DEF Goes
  <1>9. CASE j = 9
    <2>1. Code(at)[at[3]] = Iret
      BY <1>4, <1>9, ReturnContents
    <2>2. Slots(f, stack, SysSlots(f), o)
      <3>1. o + 9 - 9 = o
        BY <1>2
      <3> QED
        BY <1>3, <1>9, <3>1
    <2>3. CASE f.handler \in Unfinished
      <3>1. o = 9
        BY <1>2, <2>3
      <3>2. SysSlots(f)[9 - 2] \subseteq Plain
        BY <2>3, SysSlotFacts
      <3> QED
        BY <2>1, <2>2, <2>3, <3>1, <3>2, RunIretLost
    <2>4. CASE f.handler \notin Unfinished
      <3>1. o = 0
        BY <1>2, <2>4
      <3>2. \A k \in (1..8) \ {4} : regs[SysRegs[k]] = Final(f)[SysRegs[k]]
        BY <1>3, <1>9, <2>4, SysSlotFacts
      <3>3. \A x \in {"esi", "edi", "ebp"} : regs[x] = Final(f)[x]
        BY <1>2, <1>5, <2>4 DEF Untouched
      <3>4. regs = Final(f)
        BY <1>5, <3>2, <3>3, SysRegFacts, SameRegs
      <3> QED
        BY <1>2, <2>1, <2>2, <2>4, <3>1, <3>4, RunIretBack
    <2> QED
      BY <2>3, <2>4
  <1> QED
    BY <1>7, <1>8, <1>9

LEMMA CallFacts ==
    ASSUME NEW f \in FrameRecord, Typed(f.regs), IsCall(f)
    PROVE  /\ f.handler = "sys_call" /\ f.handler \notin Unfinished
           /\ Typed(Final(f)) /\ Below2(f) = 0
           /\ \A x \in Regs : x # "eax" => Final(f)[x] = f.regs[x]
           /\ f.regs["eax"][3] \in Nat
           /\ f.regs["eax"] = Word("call", "number", f.regs["eax"][3])
           /\ Final(f)["eax"] = Answer(f.regs["eax"][3])
           /\ \A i \in (1..8) \ {4} : SysSlot(f, i) = {Final(f)[SysRegs[i]]}
  <1>1. f.handler = "sys_call" /\ f.handler \notin Unfinished /\ Below2(f) = 0
    BY HandlerKinds DEF IsCall, Below2
  <1> QED
    BY <1>1, FinalFacts, SysSlotFacts

LEMMA ToSysCall ==
    ASSUME NEW f, IsCall(f), NEW j \in 1..15, at' = Word("code", "sys_call", j), Typed(regs'),
           Untouched(f, regs'), SysCallAt(ldtLoaded, f, j, regs', stack'),
           UNCHANGED <<intFlag, nmiMasked, ldtLoaded, frames>>
    PROVE  Moves(f)
  BY DEF Moves, Level, InSysCall

\* The call is made, and its result is pushed.
LEMMA ToReturn ==
    ASSUME NEW f, IsCall(f), ldtLoaded, Below2(f) = 0,
           at' = Word("code", "ret_from_sys_call", 1) \/ at' = Word("code", "sys_call", 16),
           Typed(regs'), Untouched(f, regs'), Slots(f, stack', SysSlots(f), 8),
           UNCHANGED <<intFlag, nmiMasked, ldtLoaded, frames>>
    PROVE  Moves(f)
  <1>1. 0 + 9 - 1 = 8 /\ (10 - 1)..8 = {} /\ 1 + 15 = 16
    OBVIOUS
  <1>2. ReturnAt(f, 1, regs', stack')
    BY <1>1 DEF ReturnAt
  <1>3. InReturn(ldtLoaded, f, at', regs', stack')
    BY <1>1, <1>2 DEF InReturn, IsCall
  <1> QED
    BY <1>3 DEF Moves, Level

LEMMA StepInSysCall ==
    ASSUME NEW f \in FrameRecord, Typed(f.regs), Typed(regs), Step,
           InSysCall(ldtLoaded, f, at, regs, stack)
    PROVE  FaultsHere \/ Moves(f) \/ Strays(f)
  <1>1. PICK j \in 1..15 : at = Word("code", "sys_call", j) /\ SysCallAt(ldtLoaded, f, j, regs, stack)
    BY DEF InSysCall
  <1>2. IsCall(f) /\ Untouched(f, regs)
    BY DEF InSysCall
  <1>3. Code(at) = sys_call /\ at[3] = j /\ Following = Word("code", "sys_call", j + 1)
    BY <1>1, CodeOfRoutines DEF Word, Following
  <1>4. CASE j \in 1..7
    <2> DEFINE x == IF j = 4 THEN "eax" ELSE SysRegs[j]
    <2>1. Goes(Following, regs, <<regs[x]>> \o stack)
      <3>1. Code(at)[at[3]] = Push(x)
        BY <1>3, <1>4, SysCallContents
      <3> QED
        BY <3>1, RunPush
    <2>2. regs = f.regs /\ Slots(f, stack, SysSlots(f), j - 1) /\ regs["eax"] = f.regs["eax"]
      BY <1>1, <1>4 DEF SysCallAt
    <2>3. regs[x] \in SysSlots(f)[j] /\ regs[x] \in AnyWord
      <3>1. CASE j = 4
        BY <3>1, SysSlotFacts, TypedReg, RegFacts
      <3>2. CASE j # 4
        <4>1. j \in (1..8) \ {4} /\ SysRegs[j] # "eax" /\ SysRegs[j] \in Regs /\ x = SysRegs[j]
          BY <1>4, <3>2, SysRegFacts
        <4> QED
          BY <1>2, <2>2, <4>1, CallFacts, SysSlotFacts, TypedReg
      <3> QED
        BY <3>1, <3>2
    <2> HIDE DEF x
    <2>4. Slots(f, stack', SysSlots(f), j)
      <3>1. j - 1 \in Nat /\ j - 1 + 1 = j
        BY <1>4
      <3>2. Slots(f, <<regs[x]>> \o stack, SysSlots(f), j - 1 + 1)
        BY <2>2, <2>3, <3>1, SlotPush
      <3> QED
        BY <2>1, <3>1, <3>2 DEF Goes
    <2>5. SysCallAt(ldtLoaded, f, j + 1, regs', stack')
      <3>1. j + 1 \in 2..8 /\ j + 1 - 1 = j /\ j + 1 \notin 9..14 /\ j + 1 \notin 13..15
        BY <1>4
      <3>2. regs' = regs
        BY <2>1 DEF Goes
      <3> QED
        BY <2>2, <2>4, <3>1, <3>2 DEF SysCallAt
    <2> QED
      BY <1>2, <1>3, <1>4, <2>1, <2>5, ToSysCall DEF Goes
  <1>5. CASE j \in 8..12
    <2>1. Slots(f, stack, SysSlots(f), 7) /\ regs["eax"] = f.regs["eax"]
      BY <1>1, <1>5 DEF SysCallAt
    <2>2. j - 7 \in 1..5 /\ Loaded(regs, j - 7 - 1, UserData)
      <3>1. CASE j = 8
        BY <3>1 DEF Loaded
      <3>2. CASE j \in 9..12
        <4>1. j - 7 - 1 = j - 8 /\ j - 7 \in 1..5
          BY <3>2
        <4> QED
          BY <1>1, <3>2, <4>1 DEF SysCallAt
      <3> QED
        BY <1>5, <3>1, <3>2
    <2>3. \/ FaultsHere
          \/ /\ at' = Following /\ stack' = stack
             /\ UNCHANGED <<intFlag, nmiMasked, ldtLoaded, frames>>
             /\ Typed(regs') /\ Loaded(regs', j - 7, UserData)
             /\ \A y \in {"eax", "esi", "edi", "ebp"} : regs'[y] = regs[y]
             /\ j - 7 = 5 => ldtLoaded
      <3>1. Code(at)[at[3]] = LoadSegments(UserData)[j - 7]
        BY <1>3, <1>5, SysCallContents
      <3> QED
        BY <2>2, <3>1, RunLoad
    <2>4. CASE /\ at' = Following /\ stack' = stack
               /\ UNCHANGED <<intFlag, nmiMasked, ldtLoaded, frames>>
               /\ Typed(regs') /\ Loaded(regs', j - 7, UserData)
               /\ \A y \in {"eax", "esi", "edi", "ebp"} : regs'[y] = regs[y]
               /\ j - 7 = 5 => ldtLoaded
      <3>1. /\ j + 1 \in 9..13 /\ j + 1 - 8 = j - 7 /\ (j + 1 = 13 => j - 7 = 5)
        BY <1>5
      <3>2. SysCallAt(ldtLoaded, f, j + 1, regs', stack')
        BY <2>1, <2>4, <3>1 DEF SysCallAt
      <3>3. Untouched(f, regs')
        BY <1>2, <2>4 DEF Untouched
      <3> QED
        BY <1>2, <1>3, <2>4, <3>1, <3>2, <3>3, ToSysCall
    <2> QED
      BY <2>3, <2>4
  <1>6. CASE j = 13
    <2> DEFINE n == f.regs["eax"][3]
    <2>1. /\ Slots(f, stack, SysSlots(f), 7) /\ regs["eax"] = f.regs["eax"]
          /\ Loaded(regs, 5, UserData) /\ ldtLoaded
      BY <1>1, <1>6 DEF SysCallAt
    <2>2. Goes(IF n >= AddressOfNR_syscalls THEN Addr("bad_sys_call") ELSE Following, regs, stack)
      BY <1>3, <1>6, <2>1, SysCallContents, RunJumpFrom
    <2>3. CASE n >= AddressOfNR_syscalls
      <3>1. Slots(f, stack', SysSlots(f), 6 + 1)
        BY <2>1, <2>2 DEF Goes
      <3>2. InBadCall(ldtLoaded, f, at', regs', stack')
        BY <1>2, <2>1, <2>2, <2>3, <3>1 DEF InBadCall, Goes, Addr
      <3> QED
        BY <2>2, <3>2 DEF Moves, Level, Goes
    <2>4. CASE ~(n >= AddressOfNR_syscalls)
      <3>1. n < AddressOfNR_syscalls
        BY <1>2, <2>4, CallFacts, AddressAssumption
      <3>2. SysCallAt(ldtLoaded, f, 14, regs', stack')
        BY <2>1, <2>2, <3>1 DEF SysCallAt, Goes, Loaded
      <3> QED
        BY <1>2, <1>3, <1>6, <2>2, <2>4, <3>2, ToSysCall DEF Goes
    <2> QED
      BY <2>3, <2>4
  <1>7. CASE j = 14
    <2> DEFINE n == f.regs["eax"][3]
               back == Word("code", "sys_call", 15)
    <2>1. /\ Slots(f, stack, SysSlots(f), 7) /\ regs["eax"] = f.regs["eax"]
          /\ Loaded(regs, 5, UserData) /\ ldtLoaded
      BY <1>1, <1>7 DEF SysCallAt, Loaded
    <2>2. Goes(Entry(n), regs, <<back>> \o stack)
      BY <1>3, <1>7, <2>1, SysCallContents, RunCallTable
    <2>3. back \in AnyWord
      <3>1. "sys_call" \in Names
        BY NameFacts
      <3> QED
        BY <3>1, WordFacts DEF Kinds
    <2>4. CASE n < NR_syscalls
      <3>1. at' = Word("sys_", FunctionOf(n), 1)
        BY <2>2, <2>4 DEF Entry, Goes
      <3>2. /\ CallSlots(f)[8] = {back}
            /\ \A i \in 1..7 : SysSlots(f)[i] \subseteq CallSlots(f)[i]
        BY DEF CallSlots, SysSlots
      <3>3. Slots(f, stack, CallSlots(f), 7)
        BY <2>1, <3>2, SlotsWiden
      <3> HIDE DEF back
      <3>4. Slots(f, <<back>> \o stack, CallSlots(f), 7 + 1)
        BY <2>3, <3>2, <3>3, SlotPush
      <3>5. Slots(f, stack', CallSlots(f), 8)
        BY <2>2, <3>4 DEF Goes
      <3>6. InFunction(ldtLoaded, f, at', regs', stack')
        BY <1>2, <2>1, <2>2, <2>4, <3>1, <3>5 DEF InFunction, Goes
      <3> QED
        BY <2>2, <3>6 DEF Moves, Level, Goes
    <2>5. CASE ~(n < NR_syscalls)
      <3> HIDE DEF back
      <3>1. f.stack \in Seq(AnyWord) /\ stack \in Seq(AnyWord) /\ Under(f.stack, stack)
        BY <2>1, FrameFields DEF Slots
      <3>2. <<back>> \o stack \in Seq(AnyWord) /\ Under(f.stack, <<back>> \o stack)
        BY <2>3, <3>1, UnderPush, PushCells
      <3> QED
        BY <2>2, <2>5, <3>2 DEF Strays, Goes, Entry
    <2> QED
      BY <2>4, <2>5
  <1>8. CASE j = 15
    <2>1. Slots(f, stack, SysSlots(f), 7) /\ ldtLoaded /\ regs["eax"] = Final(f)["eax"]
      BY <1>1, <1>8 DEF SysCallAt
    <2>2. Goes(Word("code", "sys_call", 16), regs, <<regs["eax"]>> \o stack)
      BY <1>3, <1>8, SysCallContents, RunPush
    <2>3. regs["eax"] \in SysSlots(f)[7 + 1] /\ regs["eax"] \in AnyWord
      <3>1. SysSlots(f)[8] = {Final(f)["eax"]}
        BY <1>2, CallFacts, SysSlotFacts, SysRegFacts
      <3> QED
        BY <2>1, <3>1, TypedReg, RegFacts
    <2>4. Slots(f, stack', SysSlots(f), 8)
      <3>1. Slots(f, <<regs["eax"]>> \o stack, SysSlots(f), 7 + 1)
        BY <2>1, <2>3, SlotPush
      <3> QED
        BY <2>2, <3>1 DEF Goes
    <2> QED
      BY <1>2, <2>1, <2>2, <2>4, CallFacts, ToReturn DEF Goes
  <1> QED
    BY <1>4, <1>5, <1>6, <1>7, <1>8

LEMMA StepInFunction ==
    ASSUME NEW f \in FrameRecord, Typed(f.regs), Typed(regs), Step,
           InFunction(ldtLoaded, f, at, regs, stack)
    PROVE  Moves(f)
  <1> DEFINE n == f.regs["eax"][3]
             name == FunctionOf(n)
             back == Word("code", "sys_call", 15)
  <1>1. PICK j \in 1..2 :
          /\ n < NR_syscalls
          /\ at = Word("sys_", name, j)
          /\ name \in AssemblerCalls => j = 1 /\ regs["eax"] = f.regs["eax"]
          /\ name \notin AssemblerCalls /\ j = 2 => regs["eax"] = Result(name)
    BY DEF InFunction
  <1>2. /\ IsCall(f) /\ Untouched(f, regs) /\ ldtLoaded
        /\ Slots(f, stack, CallSlots(f), 8) /\ Loaded(regs, 5, UserData)
    BY DEF InFunction
  <1>3. Code(at) = sys_(name) /\ at[3] = j /\ Following = Word("sys_", name, j + 1)
    BY <1>1, CodeOfStubs DEF Word, Following
  <1>4. n \in Nat /\ f.regs["eax"] = Word("call", "number", n) /\ Final(f)["eax"] = Answer(n)
    BY <1>2, CallFacts
  <1>5. Answer(n) = IF name \in AssemblerCalls THEN Word("call", "number", n) ELSE Result(name)
    BY <1>1, <1>4, AnswerFacts
  <1>6. name \in Names
    BY <1>1, <1>4, CallsInOrder
  <1> HIDE DEF n, name
  <1> USE RegFacts
  <1>7. CASE Code(at)[at[3]] = Ret /\ regs["eax"] = Answer(n)
    <2>1. Goes(Head(stack), regs, Tail(stack))
      BY <1>7, RunRet
    <2>2. /\ CallSlots(f)[8] = {back}
          /\ \A i \in 1..7 : CallSlots(f)[i] \subseteq SysSlots(f)[i]
      BY DEF CallSlots, SysSlots
    <2>3. Slots(f, Tail(stack), CallSlots(f), 8 - 1) /\ Head(stack) = back
      BY <1>2, <2>2, SlotPop
    <2>4. Slots(f, stack', SysSlots(f), 7)
      <3>1. Slots(f, Tail(stack), CallSlots(f), 7)
        BY <2>3
      <3> QED
        BY <2>1, <2>2, <3>1, SlotsWiden DEF Goes
    <2>5. SysCallAt(ldtLoaded, f, 15, regs', stack')
      BY <1>2, <1>4, <1>7, <2>1, <2>4 DEF SysCallAt, Goes
    <2>6. at' = Word("code", "sys_call", 15) /\ regs' = regs
      BY <2>1, <2>3 DEF Goes
    <2>7. UNCHANGED <<intFlag, nmiMasked, ldtLoaded, frames>>
      BY <2>1 DEF Goes
    <2>8. Typed(regs') /\ Untouched(f, regs')
      BY <1>2, <2>6
    <2> QED
      <3>1. 15 \in 1..15
        OBVIOUS
      <3> HIDE DEF back
      <3> QED
        BY <1>2, <2>5, <2>6, <2>7, <2>8, <3>1, ToSysCall
  <1>8. CASE name \in AssemblerCalls
    <2>1. Code(at)[at[3]] = Ret
      BY <1>1, <1>3, <1>8 DEF sys_
    <2> QED
      BY <1>1, <1>4, <1>5, <1>7, <1>8, <2>1
  <1>9. CASE name \notin AssemblerCalls /\ j = 1
    <2> DEFINE w == Result(name)
               s == Word("scratch", "c", 0)
               q == [x \in Regs |-> IF x = "eax" THEN w
                                    ELSE IF x \in {"ecx", "edx"} THEN s ELSE regs[x]]
    <2>1. Code(at)[at[3]] = CReturns(w)
      BY <1>3, <1>9 DEF sys_
    <2>2. Goes(Following, q, stack)
      BY <2>1, RunC
    <2>3. w \in Plain /\ s \in Plain
      BY <1>6, WordFacts, NameFacts DEF Kinds, Result
    <2> HIDE DEF w, s
    <2>4. /\ Typed(q) /\ Loaded(q, 5, UserData) /\ q["eax"] = w
          /\ \A y \in {"esi", "edi", "ebp"} : q[y] = regs[y]
      BY <1>2, <2>3 DEF Typed, Loaded
    <2> HIDE DEF q
    <2>5. Untouched(f, q)
      BY <1>2, <2>4 DEF Untouched
    <2>6. at' = Word("sys_", name, 2) /\ regs' = q /\ stack' = stack
      BY <1>3, <1>9, <2>2 DEF Goes
    <2>7. InFunction(ldtLoaded, f, at', regs', stack')
      BY <1>1, <1>2, <1>9, <2>4, <2>5, <2>6 DEF InFunction, w, n, name
    <2> QED
      BY <2>2, <2>4, <2>6, <2>7 DEF Moves, Level, Goes
  <1>10. CASE name \notin AssemblerCalls /\ j = 2
    <2>1. Code(at)[at[3]] = Ret
      BY <1>3, <1>10 DEF sys_
    <2> QED
      BY <1>1, <1>5, <1>7, <1>10, <2>1
  <1> QED
    BY <1>8, <1>9, <1>10

LEMMA StepInBadCall ==
    ASSUME NEW f \in FrameRecord, Typed(f.regs), Typed(regs), Step,
           InBadCall(ldtLoaded, f, at, regs, stack)
    PROVE  Moves(f)
  <1>1. PICK j \in 1..2 : /\ at = Word("code", "bad_sys_call", j)
                          /\ Slots(f, stack, SysSlots(f), 6 + j)
    BY DEF InBadCall
  <1>2. /\ IsCall(f) /\ Untouched(f, regs) /\ ldtLoaded
        /\ f.regs["eax"][3] >= AddressOfNR_syscalls
    BY DEF InBadCall
  <1>3. Code(at) = bad_sys_call /\ at[3] = j /\ Following = Word("code", "bad_sys_call", j + 1)
    BY <1>1, CodeOfRoutines DEF Word, Following
  <1>4. CASE j = 1
    <2>1. Goes(Following, regs, <<ENOSYS>> \o stack)
      BY <1>3, <1>4, ShortContents, RunPushWord
    <2>2. ENOSYS \in AnyWord
      BY WordFacts, NameFacts DEF Kinds, ENOSYS
    <2>3. ENOSYS \in SysSlots(f)[7 + 1]
      <3>1. f.regs["eax"][3] >= NR_syscalls
        BY <1>2, CallFacts, AddressAssumption, TableFacts
      <3>2. Final(f)["eax"] = ENOSYS
        BY <1>2, <3>1, CallFacts, AnswerFacts
      <3>3. SysSlots(f)[8] = {Final(f)["eax"]}
        BY <1>2, CallFacts, SysSlotFacts, SysRegFacts
      <3> QED
        BY <3>2, <3>3
    <2>4. Slots(f, stack', SysSlots(f), 8)
      <3>1. Slots(f, stack, SysSlots(f), 7)
        BY <1>1, <1>4
      <3>2. Slots(f, <<ENOSYS>> \o stack, SysSlots(f), 7 + 1)
        BY <2>2, <2>3, <3>1, SlotPush
      <3> QED
        BY <2>1, <3>2 DEF Goes
    <2>5. InBadCall(ldtLoaded, f, at', regs', stack')
      BY <1>2, <1>3, <1>4, <2>1, <2>4 DEF InBadCall, Goes
    <2> QED
      BY <2>1, <2>5 DEF Moves, Level, Goes
  <1>5. CASE j = 2
    <2>1. Goes(Addr("ret_from_sys_call"), regs, stack)
      BY <1>3, <1>5, ShortContents, RunJmp
    <2>2. Slots(f, stack, SysSlots(f), 8)
      BY <1>1, <1>5
    <2> QED
      BY <1>2, <2>1, <2>2, CallFacts, ToReturn DEF Goes, Addr
  <1> QED
    BY <1>4, <1>5

LEMMA StepInParallel ==
    ASSUME NEW f \in FrameRecord, Typed(f.regs), Typed(regs), Step,
           InParallel(f, at, regs, stack)
    PROVE  Moves(f) \/ Comes(f)
  <1> DEFINE A == <<{f.regs["eax"]}>>
  <1>1. PICK j \in 1..4 : /\ at = Word("code", "parallel_interrupt", j)
                          /\ ParallelAt(f, j, regs, stack)
    BY DEF InParallel
  <1>2. /\ f.handler = "parallel_interrupt" /\ f.handler \notin Unfinished
        /\ f.handler \notin {"device_not_available", "sys_call"}
    BY HandlerKinds DEF InParallel
  <1>3. /\ Code(at) = parallel_interrupt /\ at[3] = j
        /\ Following = Word("code", "parallel_interrupt", j + 1)
    BY <1>1, CodeOfRoutines DEF Word, Following
  <1>4. /\ Slots(f, stack, A, IF j \in {2, 3} THEN 1 ELSE 0)
        /\ \A x \in Regs \ {"eax"} : regs[x] = f.regs[x]
        /\ j # 3 => regs["eax"] = f.regs["eax"]
    BY <1>1 DEF ParallelAt
  <1> USE RegFacts
  <1>5. A[1] = {f.regs["eax"]}
    OBVIOUS
  <1> HIDE DEF A
  <1>6. ASSUME j \in 1..3, at' = Following, Typed(regs'), ParallelAt(f, j + 1, regs', stack'),
               UNCHANGED <<intFlag, nmiMasked, ldtLoaded, frames>>
        PROVE  Moves(f)
    <2>1. InParallel(f, at', regs', stack')
      BY <1>2, <1>3, <1>6 DEF InParallel
    <2> QED
      BY <1>6, <2>1 DEF Moves, Level
  <1>7. CASE j = 1
    <2>1. Goes(Following, regs, <<regs["eax"]>> \o stack)
      BY <1>3, <1>7, ShortContents, RunPush
    <2>2. Slots(f, stack, A, 0) /\ regs["eax"] \in A[0 + 1] /\ regs["eax"] \in AnyWord
      BY <1>4, <1>5, <1>7, TypedReg
    <2>3. Slots(f, <<regs["eax"]>> \o stack, A, 0 + 1)
      BY <2>2, SlotPush
    <2>4. ParallelAt(f, 2, regs', stack')
      BY <1>4, <1>7, <2>1, <2>3 DEF ParallelAt, Goes, A
    <2> QED
      BY <1>6, <1>7, <2>1, <2>4 DEF Goes
  <1>8. CASE j = 2
    <2> DEFINE w == Word("number", "0x20", 0)
    <2>1. Goes(Following, With("eax", w), stack)
      BY <1>3, <1>8, ShortContents, RunMov
    <2>2. w \in Plain
      BY WordFacts, NameFacts DEF Kinds
    <2> HIDE DEF w
    <2>3. Typed(regs') /\ \A y \in Regs : y # "eax" => regs'[y] = regs[y]
      BY <2>1, <2>2, TypedWith DEF Goes
    <2>4. ParallelAt(f, 3, regs', stack')
      BY <1>4, <1>8, <2>1, <2>3 DEF ParallelAt, Goes, A
    <2> QED
      BY <1>6, <1>8, <2>1, <2>3, <2>4 DEF Goes
  <1>9. CASE j = 3
    <2>1. Goes(Following, With("eax", Head(stack)), Tail(stack))
      BY <1>3, <1>9, ShortContents, RunPop
    <2>2. Slots(f, Tail(stack), A, 1 - 1) /\ Head(stack) = f.regs["eax"]
      <3>1. Slots(f, stack, A, 1)
        BY <1>4, <1>9
      <3> QED
        BY <1>5, <3>1, SlotPop
    <2>3. f.regs["eax"] \in Plain
      BY TypedReg
    <2>4. /\ Typed(regs') /\ regs'["eax"] = f.regs["eax"]
          /\ \A y \in Regs : y # "eax" => regs'[y] = regs[y]
      BY <2>1, <2>2, <2>3, TypedWith DEF Goes
    <2>5. ParallelAt(f, 4, regs', stack')
      BY <1>4, <1>9, <2>1, <2>2, <2>4 DEF ParallelAt, Goes, A
    <2> QED
      BY <1>6, <1>9, <2>1, <2>4, <2>5 DEF Goes
  <1>10. CASE j = 4
    <2>1. Code(at)[at[3]] = Iret /\ Slots(f, stack, A, 0)
      BY <1>3, <1>4, <1>10, ShortContents
    <2>2. \A x \in Regs : regs[x] = f.regs[x]
      BY <1>4, <1>10
    <2>3. regs = Final(f)
      BY <1>2, <2>2, SameRegs DEF Final
    <2> QED
      BY <1>2, <2>1, <2>3, RunIretBack
  <1> QED
    BY <1>7, <1>8, <1>9, <1>10

LEMMA StepInIrq13 ==
    ASSUME NEW f \in FrameRecord, Typed(f.regs), Typed(regs), Step,
           InIrq13(f, at, regs, stack)
    PROVE  Moves(f)
  <1> DEFINE A == <<Plain>>
  <1>1. PICK j \in 1..4 : /\ at = Word("code", "irq13", j)
                          /\ Slots(f, stack, A, IF j \in {2, 3} THEN 1 ELSE 0)
    BY DEF InIrq13
  <1>2. f.handler = "irq13" /\ f.handler \in Unfinished
    BY HandlerKinds DEF InIrq13
  <1>3. Code(at) = irq13 /\ at[3] = j /\ Following = Word("code", "irq13", j + 1)
    BY <1>1, CodeOfRoutines DEF Word, Following
  <1> USE RegFacts
  <1>4. A[1] = Plain
    OBVIOUS
  <1> HIDE DEF A
  <1>5. ASSUME j \in 1..3, at' = Following, Typed(regs'),
               Slots(f, stack', A, IF j + 1 \in {2, 3} THEN 1 ELSE 0),
               UNCHANGED <<intFlag, nmiMasked, ldtLoaded, frames>>
        PROVE  Moves(f)
    <2>1. InIrq13(f, at', regs', stack')
      BY <1>2, <1>3, <1>5 DEF InIrq13, A
    <2> QED
      BY <1>5, <2>1 DEF Moves, Level
  <1>6. CASE j = 1
    <2>1. Goes(Following, regs, <<regs["eax"]>> \o stack)
      BY <1>3, <1>6, ShortContents, RunPush
    <2>2. Slots(f, stack, A, 0) /\ regs["eax"] \in A[0 + 1] /\ regs["eax"] \in AnyWord
      BY <1>1, <1>4, <1>6, TypedReg
    <2>3. Slots(f, <<regs["eax"]>> \o stack, A, 0 + 1)
      BY <2>2, SlotPush
    <2> QED
      BY <1>5, <1>6, <2>1, <2>3 DEF Goes
  <1>7. CASE j = 2
    <2> DEFINE w == Word("number", "0x20", 0)
    <2>1. Goes(Following, With("eax", w), stack)
      BY <1>3, <1>7, ShortContents, RunMov
    <2>2. w \in Plain
      BY WordFacts, NameFacts DEF Kinds
    <2> HIDE DEF w
    <2>3. Typed(regs')
      BY <2>1, <2>2, TypedWith DEF Goes
    <2> QED
      BY <1>1, <1>5, <1>7, <2>1, <2>3 DEF Goes
  <1>8. CASE j = 3
    <2>1. Goes(Following, With("eax", Head(stack)), Tail(stack))
      BY <1>3, <1>8, ShortContents, RunPop
    <2>2. Slots(f, Tail(stack), A, 1 - 1) /\ Head(stack) \in Plain
      <3>1. Slots(f, stack, A, 1)
        BY <1>1, <1>8
      <3> QED
        BY <1>4, <3>1, SlotPop
    <2>3. Typed(regs')
      BY <2>1, <2>2, TypedWith DEF Goes
    <2> QED
      BY <1>5, <1>8, <2>1, <2>2, <2>3 DEF Goes
  <1>9. CASE j = 4
    <2>1. Goes(Addr("coprocessor_error"), regs, stack)
      BY <1>3, <1>9, ShortContents, RunJmp
    <2>2. Slots(f, stack, SysSlots(f), 0)
      <3>1. Slots(f, stack, A, 0)
        BY <1>1, <1>9
      <3> QED
        BY <3>1, SlotsWiden
    <2>3. SysFrameAt(ldtLoaded, f, 0, 1, regs', stack')
      <3>1. 0 + (IF 1 <= 9 THEN 1 - 1 ELSE IF 1 <= 14 THEN 8 ELSE 9) = 0
        OBVIOUS
      <3> QED
        BY <1>2, <2>1, <2>2, <3>1 DEF SysFrameAt, Goes
    <2>4. InCoprocessor(ldtLoaded, f, at', regs', stack')
      BY <1>2, <2>1, <2>3 DEF InCoprocessor, Goes, Addr
    <2> QED
      BY <2>1, <2>4 DEF Moves, Level, Goes
  <1> QED
    BY <1>6, <1>7, <1>8, <1>9

LEMMA StepInIgnoreInt ==
    ASSUME NEW f \in FrameRecord, Typed(f.regs), Typed(regs), Step,
           InIgnoreInt(f, at, regs, stack)
    PROVE  Moves(f) \/ Ends(f)
  <1> DEFINE A(m) == [i \in 1..m |-> Plain]
  <1>1. PICK j \in 1..19, n \in 0..Len(stack) :
          at = Word("code", "ignore_int", j) /\ IgnoreAt(f, j, n, regs, stack)
    BY DEF InIgnoreInt
  <1>2. f.handler = "ignore_int" /\ f.handler \in Unfinished
    BY HandlerKinds DEF InIgnoreInt
  <1>3. Code(at) = ignore_int /\ at[3] = j /\ Following = Word("code", "ignore_int", j + 1)
    BY <1>1, CodeOfRoutines DEF Word, Following
  <1>4. /\ Slots(f, stack, A(n), n) /\ n \in Nat
        /\ j \in 8..10 => regs["eax"] = KernelData
        /\ n >= IF j = 12 THEN 7 ELSE IF j <= 7 THEN j - 1 ELSE 6
    BY <1>1 DEF IgnoreAt
  <1> USE RegFacts, SelectorFacts
  <1>5. \A m \in Nat, k \in Nat : \A i \in 1..m : i \in 1..k => A(k)[i] = Plain
    OBVIOUS
  <1> HIDE DEF A
  <1>6. ASSUME j \in 1..18, at' = Following, Typed(regs'), NEW m \in Nat,
               Slots(f, stack', A(m), m), j + 1 \in 8..10 => regs'["eax"] = KernelData,
               m >= IF j + 1 = 12 THEN 7 ELSE IF j + 1 <= 7 THEN j + 1 - 1 ELSE 6,
               UNCHANGED <<intFlag, nmiMasked, ldtLoaded, frames>>
        PROVE  Moves(f)
    <2>1. IgnoreAt(f, j + 1, m, regs', stack')
      BY <1>6 DEF IgnoreAt, A
    <2>2. m \in 0..Len(stack')
      <3> DEFINE b == Len(f.stack)
                 l == Len(stack')
      <3>1. l = b + 3 + m /\ b \in Nat
        BY <1>6, FrameFields DEF Slots
      <3> HIDE DEF b, l
      <3>2. m \in 0..l
        BY <3>1
      <3> QED
        BY <3>2 DEF l
    <2>3. InIgnoreInt(f, at', regs', stack')
      BY <1>2, <1>3, <1>6, <2>1, <2>2 DEF InIgnoreInt
    <2> QED
      BY <1>6, <2>3 DEF Moves, Level
  <1>7. ASSUME NEW w \in Plain PROVE Slots(f, <<w>> \o stack, A(n + 1), n + 1)
    <2>1. \A i \in 1..n : A(n)[i] \subseteq A(n + 1)[i]
      <3>1. \A i \in 1..n : i \in 1..(n + 1)
        BY <1>4
      <3> QED
        BY <1>4, <1>5, <3>1
    <2>2. Slots(f, stack, A(n + 1), n)
      BY <1>4, <2>1, SlotsWiden
    <2>3. w \in A(n + 1)[n + 1] /\ w \in AnyWord
      BY <1>4, <1>5, <1>7, SelectorsArePlain
    <2> QED
      BY <1>4, <2>2, <2>3, SlotPush
  <1>8. CASE j \in (1..6) \cup (13..18)
    <2> DEFINE x == IF j <= 6 THEN IgnoreRegs[j] ELSE IgnoreRegs[19 - j]
    <2>1. Code(at)[at[3]] = Push(x) /\ x \in Regs
      <3>1. Code(at)[at[3]] = Push(x)
        <4>1. CASE j \in 1..6
          BY <1>3, <4>1, IgnoreContents
        <4>2. CASE j \in 13..18
          <5>1. ~(j <= 6)
            BY <4>2
          <5> QED
            BY <1>3, <4>2, <5>1, IgnoreContents
        <4> QED
          BY <1>8, <4>1, <4>2
      <3>2. \A i \in 1..6 : IgnoreRegs[i] \in Regs
        BY DEF IgnoreRegs
      <3>3. j <= 6 => j \in 1..6
        BY <1>8
      <3>4. ~(j <= 6) => 19 - j \in 1..6
        BY <1>8
      <3> QED
        BY <3>1, <3>2, <3>3, <3>4
    <2> HIDE DEF x
    <2>2. Goes(Following, regs, <<regs[x]>> \o stack) /\ regs[x] \in Plain
      BY <2>1, RunPush, TypedReg
    <2>3. Slots(f, stack', A(n + 1), n + 1)
      BY <1>7, <2>2 DEF Goes
    <2>4. /\ j \in 1..18 /\ n + 1 \in Nat /\ j + 1 \notin 8..10
          /\ n + 1 >= IF j + 1 = 12 THEN 7 ELSE IF j + 1 <= 7 THEN j + 1 - 1 ELSE 6
      BY <1>4, <1>8
    <2> QED
      BY <1>6, <2>2, <2>3, <2>4 DEF Goes
  <1>9. CASE j = 7
    <2>1. Goes(Following, With("eax", KernelData), stack)
      BY <1>3, <1>9, IgnoreContents, RunMov
    <2>2. Typed(regs') /\ regs'["eax"] = KernelData
      BY <2>1, TypedWith DEF Goes
    <2> QED
      BY <1>4, <1>6, <1>9, <2>1, <2>2 DEF Goes
  <1>10. CASE j \in 8..10
    <2> DEFINE x == <<"ds", "es", "fs">>[j - 7]
    <2>1. Code(at)[at[3]] = MovReg(x, "eax") /\ x \in SegmentRegs /\ regs["eax"] = KernelData
      <3>1. Code(at)[at[3]] = MovReg(x, "eax")
        BY <1>3, <1>10, IgnoreContents
      <3>2. x \in SegmentRegs
        BY <1>10 DEF SegmentRegs
      <3> QED
        BY <1>4, <1>10, <3>1, <3>2
    <2> HIDE DEF x
    <2>2. Goes(Following, With(x, KernelData), stack)
      BY <2>1, RunMovReg
    <2>3. Typed(regs') /\ regs'["eax"] = KernelData
      BY <2>1, <2>2, TypedWith DEF Goes
    <2> QED
      BY <1>4, <1>6, <1>10, <2>2, <2>3 DEF Goes
  <1>11. CASE j = 11
    <2> DEFINE w == Word("address", "int_msg", 0)
    <2>1. Goes(Following, regs, <<w>> \o stack)
      BY <1>3, <1>11, IgnoreContents, RunPushWord
    <2>2. w \in Plain
      BY WordFacts, NameFacts DEF Kinds
    <2> HIDE DEF w
    <2>3. Slots(f, stack', A(n + 1), n + 1)
      BY <1>7, <2>1, <2>2 DEF Goes
    <2>4. n + 1 \in Nat /\ n + 1 >= 7
      BY <1>4, <1>11
    <2> QED
      BY <1>6, <1>11, <2>1, <2>3, <2>4 DEF Goes
  <1>12. CASE j = 12
    <2>1. Goes(Following, With("eax", Head(stack)), Tail(stack))
      BY <1>3, <1>12, IgnoreContents, RunPop
    <2>2. n >= 7 /\ n >= 1 /\ n - 1 \in Nat /\ n - 1 >= 6 /\ n \in 1..n
      BY <1>4, <1>12
    <2>3. Slots(f, Tail(stack), A(n), n - 1) /\ Head(stack) \in Plain
      BY <1>4, <1>5, <2>2, SlotPop
    <2>4. Slots(f, Tail(stack), A(n - 1), n - 1)
      <3>1. \A i \in 1..(n - 1) : i \in 1..n
        BY <1>4
      <3>2. \A i \in 1..(n - 1) : A(n)[i] \subseteq A(n - 1)[i]
        BY <1>4, <1>5, <2>2, <3>1
      <3> QED
        BY <2>2, <2>3, <3>2, SlotsWiden
    <2>5. Typed(regs')
      BY <2>1, <2>3, TypedWith DEF Goes
    <2> QED
      BY <1>6, <1>12, <2>1, <2>2, <2>4, <2>5 DEF Goes
  <1>13. CASE j = 19
    <2>1. Code(at)[at[3]] = Iret
      BY <1>3, <1>13, IgnoreContents
    <2>2. n >= 3 /\ n - 2 \in 1..n
      BY <1>4, <1>13
    <2>3. A(n)[n - 2] \subseteq Plain
      BY <1>4, <1>5, <2>2
    <2> QED
      BY <1>2, <1>4, <2>1, <2>2, <2>3, RunIretLost
  <1> QED
    BY <1>8, <1>9, <1>10, <1>11, <1>12, <1>13

-----------------------------------------------------------------------------
(***************************************************************************)
(* A handler that goes on is at one of its instructions.                   *)
(***************************************************************************)
Placed(f, p, r, s) ==
    /\ p \in AnyWord /\ p # Kernel /\ p # Word("wild", "nowhere", 1)
    /\ Len(Code(p)) >= p[3]
    /\ s \in Seq(AnyWord) /\ Under(f.stack, s)
    /\ p[1] \in {"do_", "sys_"} =>
          /\ r["ds"] = KernelData /\ r["es"] = KernelData
          /\ r["fs"] = IF p[1] = "do_" THEN KernelData ELSE UserData

LEMMA RoutineIsPlaced ==
    ASSUME NEW f, NEW l \in DOMAIN Routines, NEW j \in Nat, j <= Len(Routines[l]),
           NEW r, NEW s, NEW A, NEW n, Slots(f, s, A, n)
    PROVE  Placed(f, Word("code", l, j), r, s)
  <1>1. Code(Word("code", l, j)) = Routines[l]
    <2>1. l \notin NoErrorStubs \cup ErrorStubs
      BY NameFacts DEF NoErrorStubs, ErrorStubs
    <2> QED
      BY <2>1 DEF Code, Word
  <1>2. /\ Word("code", l, j) \in AnyWord /\ Word("code", l, j)[1] = "code"
        /\ Word("code", l, j)[3] = j
    <2>1. l \in Names /\ "code" \in Kinds /\ j \in Int
      BY NameFacts DEF Kinds
    <2> QED
      BY <2>1, WordFacts
  <1>3. Len(Code(Word("code", l, j))) >= j
    <2>1. Len(Routines[l]) \in Nat
      BY NameFacts, NoErrorCodeContents, ErrorCodeContents, DeviceContents, CoprocessorContents,
         ReturnContents, SysCallContents, IgnoreContents, ShortContents DEF Routines
    <2> QED
      BY <1>1, <2>1
  <1>4. Kernel[1] = "kernel" /\ Word("wild", "nowhere", 1)[1] = "wild"
    BY DEF Kernel, Word
  <1> QED
    BY <1>2, <1>3, <1>4 DEF Placed, Slots

LEMMA RoutineLengths ==
    /\ Len(Routines["no_error_code"]) = 31 /\ Len(Routines["error_code"]) = 30
    /\ Len(Routines["irq13"]) = 4 /\ Len(Routines["ret_from_sys_call"]) = 9
    /\ Len(Routines["device_not_available"]) = 15 /\ Len(Routines["coprocessor_error"]) = 15
    /\ Len(Routines["sys_call"]) = 24 /\ Len(Routines["bad_sys_call"]) = 2
    /\ Len(Routines["parallel_interrupt"]) = 4 /\ Len(Routines["ignore_int"]) = 19
  <1>1. Len(irq13) = 4 /\ Len(bad_sys_call) = 2 /\ Len(parallel_interrupt) = 4
    BY ShortContents
  <1>2. /\ Len(no_error_code) = 31 /\ Len(error_code) = 30 /\ Len(ret_from_sys_call) = 9
        /\ Len(device_not_available) = 15 /\ Len(coprocessor_error) = 15
        /\ Len(sys_call) = 24 /\ Len(ignore_int) = 19
    BY NoErrorCodeContents, ErrorCodeContents, DeviceContents, CoprocessorContents,
       ReturnContents, SysCallContents, IgnoreContents
  <1> QED
    BY <1>1, <1>2 DEF Routines

LEMMA LevelPlace ==
    ASSUME NEW f \in FrameRecord, NEW ldt, NEW p, NEW r, NEW s, Typed(f.regs),
           Level(ldt, f, p, r, s)
    PROVE  Placed(f, p, r, s)
  <1>1. /\ "code" \in Kinds /\ "do_" \in Kinds /\ "sys_" \in Kinds
         /\ f.handler \in Names
    BY NameFacts, FrameFields DEF Kinds
  <1>2. Kernel[1] = "kernel" /\ Word("wild", "nowhere", 1)[1] = "wild"
    BY DEF Kernel, Word
  <1>3. CASE InStub(f, p, r, s)
    <2>1. PICK j \in 1..2, n \in Nat : p = Word("code", f.handler, j) /\ Slots(f, s, StubSlots(f), n)
      BY <1>3 DEF InStub
    <2>2. f.handler \in NoErrorStubs \cup ErrorStubs
      BY <1>3 DEF InStub
    <2>3. /\ p \in AnyWord /\ p[1] = "code" /\ p[3] = j
      BY <1>1, <2>1, WordFacts
    <2>4. Len(Code(p)) = 2
      BY <2>1, <2>2, CodeOfStubs
    <2>5. p # Kernel /\ p # Word("wild", "nowhere", 1) /\ Len(Code(p)) >= p[3]
      BY <1>2, <2>3, <2>4
    <2> QED
      BY <2>1, <2>3, <2>5 DEF Placed, Slots
  <1>4. CASE InC(f, p, r, s)
    <2>1. PICK j \in 1..2 : p = Word("do_", f.handler, j)
      BY <1>4 DEF InC
    <2>2. /\ Slots(f, s, FrameSlots(f), 11) /\ Loaded(r, 5, KernelData)
      BY <1>4 DEF InC
    <2>3. /\ p \in AnyWord /\ p[1] = "do_" /\ p[3] = j
      BY <1>1, <2>1, WordFacts
    <2>4. Len(Code(p)) = 2
      BY <2>1, CodeOfStubs
    <2>5. p # Kernel /\ p # Word("wild", "nowhere", 1) /\ Len(Code(p)) >= p[3]
      BY <1>2, <2>3, <2>4
    <2> QED
      BY <2>2, <2>3, <2>5 DEF Placed, Slots, Loaded
  <1>5. CASE InFunction(ldt, f, p, r, s)
    <2> DEFINE name == FunctionOf(f.regs["eax"][3])
    <2>1. PICK j \in 1..2 : /\ p = Word("sys_", name, j)
                            /\ name \in AssemblerCalls => j = 1
      BY <1>5 DEF InFunction
    <2>2. /\ Slots(f, s, CallSlots(f), 8) /\ Loaded(r, 5, UserData)
          /\ IsCall(f) /\ f.regs["eax"][3] < NR_syscalls
      BY <1>5 DEF InFunction
    <2>3. name \in Names
      BY <2>2, CallFacts, CallsInOrder
    <2> HIDE DEF name
    <2>4. /\ p \in AnyWord /\ p[1] = "sys_" /\ p[3] = j
      BY <1>1, <2>1, <2>3, WordFacts
    <2>5. Len(Code(p)) >= j
      <3>1. Code(p) = sys_(name)
        BY <2>1, CodeOfStubs
      <3>2. name \in AssemblerCalls => Len(sys_(name)) = 1
        BY DEF sys_
      <3>3. name \notin AssemblerCalls => Len(sys_(name)) = 2
        BY DEF sys_
      <3> QED
        BY <2>1, <3>1, <3>2, <3>3
    <2>6. /\ p # Kernel /\ p # Word("wild", "nowhere", 1) /\ Len(Code(p)) >= p[3]
      BY <1>2, <2>4, <2>5
    <2>7. r["ds"] = KernelData /\ r["es"] = KernelData /\ r["fs"] = UserData
      BY <2>2 DEF Loaded
    <2>8. s \in Seq(AnyWord) /\ Under(f.stack, s)
      BY <2>2 DEF Slots
    <2> QED
      BY <2>4, <2>6, <2>7, <2>8 DEF Placed
  <1>6. ASSUME NEW l \in DOMAIN Routines, NEW j \in Nat, j <= Len(Routines[l]),
                p = Word("code", l, j), \E A, n : Slots(f, s, A, n)
         PROVE  Placed(f, p, r, s)
    <2>1. PICK A, n : Slots(f, s, A, n)
      BY <1>6
    <2> QED
      BY <1>6, <2>1, RoutineIsPlaced
  <1>7. CASE InNoErrorCode(f, p, r, s)
    <2>1. PICK j \in 1..31 : p = Word("code", "no_error_code", j) /\ NoErrorCodeAt(f, j, r, s)
      BY <1>7 DEF InNoErrorCode
    <2>2. \E A, n : Slots(f, s, A, n)
      <3>1. j = 1 \/ j \in 2..11 \/ j \in 12..20 \/ j \in 21..31
        OBVIOUS
      <3> QED
        BY <2>1, <3>1 DEF NoErrorCodeAt
    <2>3. "no_error_code" \in DOMAIN Routines /\ j \in Nat /\ j <= Len(Routines["no_error_code"])
      BY NameFacts, RoutineLengths
    <2> QED
      BY <1>6, <2>1, <2>2, <2>3
  <1>8. CASE InErrorCode(f, p, r, s)
    <2>1. PICK j \in 1..30 : p = Word("code", "error_code", j) /\ ErrorCodeAt(f, j, r, s)
      BY <1>8 DEF InErrorCode
    <2>2. \E A, n : Slots(f, s, A, n)
      <3>1. j = 1 \/ j = 2 \/ j \in 3..11 \/ j \in 12..19 \/ j \in 20..30
        OBVIOUS
      <3> QED
        BY <2>1, <3>1 DEF ErrorCodeAt
    <2>3. "error_code" \in DOMAIN Routines /\ j \in Nat /\ j <= Len(Routines["error_code"])
      BY NameFacts, RoutineLengths
    <2> QED
      BY <1>6, <2>1, <2>2, <2>3
  <1>9. CASE InCoprocessor(ldt, f, p, r, s) \/ InDevice(ldt, f, p, r, s)
    <2>1. PICK l \in {"coprocessor_error", "device_not_available"}, j \in 1..15 :
             p = Word("code", l, j) /\ \E A, n : Slots(f, s, A, n)
      BY <1>9 DEF InCoprocessor, InDevice, SysFrameAt
    <2>2. l \in DOMAIN Routines /\ j \in Nat /\ j <= Len(Routines[l])
      <3>1. l \in DOMAIN Routines
        BY NameFacts
      <3>2. j <= Len(Routines[l])
        <4>1. Len(Routines[l]) = 15
          BY RoutineLengths
        <4> QED
          BY <4>1
      <3> QED
        BY <3>1, <3>2
    <2> QED
      BY <1>6, <2>1, <2>2
  <1>10. CASE InReturn(ldt, f, p, r, s)
    <2>1. PICK j \in 1..9 : /\ \/ p = Word("code", "ret_from_sys_call", j)
                               \/ p = Word("code", "sys_call", j + 15)
                            /\ ReturnAt(f, j, r, s)
      BY <1>10 DEF InReturn
    <2>2. \E A, n : Slots(f, s, A, n)
      BY <2>1 DEF ReturnAt
    <2>3. /\ "ret_from_sys_call" \in DOMAIN Routines /\ "sys_call" \in DOMAIN Routines
          /\ j \in Nat /\ j <= Len(Routines["ret_from_sys_call"])
          /\ j + 15 \in Nat /\ j + 15 <= Len(Routines["sys_call"])
      BY NameFacts, RoutineLengths
    <2> QED
      BY <1>6, <2>1, <2>2, <2>3
  <1>11. CASE InSysCall(ldt, f, p, r, s) \/ InBadCall(ldt, f, p, r, s)
    <2>1. PICK l \in {"sys_call", "bad_sys_call"}, j \in 1..15 :
             /\ p = Word("code", l, j) /\ (l = "bad_sys_call" => j <= 2)
             /\ \E A, n : Slots(f, s, A, n)
      BY <1>11 DEF InSysCall, InBadCall, SysCallAt
    <2>2. l \in DOMAIN Routines /\ j \in Nat /\ j <= Len(Routines[l])
      <3>1. l \in DOMAIN Routines
        BY NameFacts
      <3>2. j <= Len(Routines[l])
        <4>1. CASE l = "sys_call"
          BY <4>1, RoutineLengths
        <4>2. CASE l = "bad_sys_call"
          BY <2>1, <4>2, RoutineLengths
        <4> QED
          BY <4>1, <4>2
      <3> QED
        BY <3>1, <3>2
    <2> QED
      BY <1>6, <2>1, <2>2
  <1>12. CASE InParallel(f, p, r, s) \/ InIrq13(f, p, r, s)
    <2>1. PICK l \in {"parallel_interrupt", "irq13"}, j \in 1..4 :
             p = Word("code", l, j) /\ \E A, n : Slots(f, s, A, n)
      BY <1>12 DEF InParallel, InIrq13, ParallelAt
    <2>2. l \in DOMAIN Routines /\ j \in Nat /\ j <= Len(Routines[l])
      <3>1. l \in DOMAIN Routines
        BY NameFacts
      <3>2. j <= Len(Routines[l])
        <4>1. Len(Routines[l]) = 4
          BY RoutineLengths
        <4> QED
          BY <4>1
      <3> QED
        BY <3>1, <3>2
    <2> QED
      BY <1>6, <2>1, <2>2
  <1>13. CASE InIgnoreInt(f, p, r, s)
    <2>1. PICK j \in 1..19 : p = Word("code", "ignore_int", j) /\ \E A, n : Slots(f, s, A, n)
      BY <1>13 DEF InIgnoreInt, IgnoreAt
    <2>2. "ignore_int" \in DOMAIN Routines /\ j \in Nat /\ j <= Len(Routines["ignore_int"])
      BY NameFacts, RoutineLengths
    <2> QED
      BY <1>6, <2>1, <2>2
  <1> QED
    BY <1>3, <1>4, <1>5, <1>7, <1>8, <1>9, <1>10, <1>11, <1>12, <1>13 DEF Level

\* A step of a handler.
LEMMA StepOfHandler ==
    ASSUME NEW f \in FrameRecord, Typed(f.regs), Step, Level(ldtLoaded, f, at, regs, stack)
    PROVE  \/ FaultsHere /\ f.handler # "general_protection"
           \/ Moves(f) \/ Strays(f) \/ Comes(f) \/ Ends(f)
  <1>1. Typed(regs)
    BY DEF Level
  <1>2. /\ InCoprocessor(ldtLoaded, f, at, regs, stack) => f.handler # "general_protection"
        /\ InDevice(ldtLoaded, f, at, regs, stack) => f.handler # "general_protection"
        /\ InSysCall(ldtLoaded, f, at, regs, stack) => f.handler # "general_protection"
    BY DEF InCoprocessor, InDevice, InSysCall, IsCall
  <1> QED
    BY <1>1, <1>2, StepInStub, StepInNoErrorCode, StepInErrorCode, StepInC, StepInCoprocessor,
       StepInDevice, StepInReturn, StepInSysCall, StepInFunction, StepInBadCall,
       StepInParallel, StepInIrq13, StepInIgnoreInt DEF Level

-----------------------------------------------------------------------------
(***************************************************************************)
(* Entering a handler.                                                     *)
(***************************************************************************)
\* Handler h may stand in the gate of vector v.
Fits(v, h) ==
    \/ h \in ErrorStubs /\ HasErrorCode(v)
    \/ h \in NoErrorStubs \cup {"device_not_available", "coprocessor_error", "irq13",
                                "parallel_interrupt", "sys_call"} /\ ~HasErrorCode(v)
    \/ h = "ignore_int"

LEMMA GateFacts ==
    ASSUME NEW v \in 0..255
    PROVE  Fits(v, Gate(v)) /\ Gate(v) # "sys_call"
  <1> DEFINE named == <<"divide_error", "debug", "nmi", "int3", "overflow", "bounds",
                        "invalid_op", "device_not_available", "double_fault",
                        "coprocessor_segment_overrun", "invalid_TSS",
                        "segment_not_present", "stack_segment", "general_protection",
                        "ignore_int", "reserved", "coprocessor_error", "alignment_check">>
  <1>1. CASE v \in 0..17
    <2>1. Gate(v) = named[v + 1]
      BY <1>1 DEF Gate
    <2>2. \A i \in 1..18 :
             /\ i \in {9, 11, 12, 13, 14, 18} => named[i] \in ErrorStubs
             /\ i \in {1, 2, 3, 4, 5, 6, 7, 10, 16} => named[i] \in NoErrorStubs
             /\ named[8] = "device_not_available" /\ named[17] = "coprocessor_error"
             /\ named[15] = "ignore_int"
             /\ named[i] # "sys_call"
      BY DEF ErrorStubs, NoErrorStubs
    <2> HIDE DEF named
    <2>3. /\ v + 1 \in 1..18
          /\ HasErrorCode(v) <=> v + 1 \in {9, 11, 12, 13, 14, 15, 18}
          /\ \/ v + 1 \in {9, 11, 12, 13, 14, 18}
             \/ v + 1 \in {1, 2, 3, 4, 5, 6, 7, 10, 16}
             \/ v + 1 \in {8, 15, 17}
      BY <1>1 DEF HasErrorCode
    <2>4. v + 1 \in {9, 11, 12, 13, 14, 18} =>
             named[v + 1] \in ErrorStubs /\ HasErrorCode(v)
      BY <2>2, <2>3
    <2>5. v + 1 \in {1, 2, 3, 4, 5, 6, 7, 10, 16} =>
             named[v + 1] \in NoErrorStubs /\ ~HasErrorCode(v)
      BY <2>2, <2>3
    <2>6. v + 1 \in {8, 15, 17} =>
             \/ named[v + 1] = "ignore_int"
             \/ named[v + 1] \in {"device_not_available", "coprocessor_error"} /\ ~HasErrorCode(v)
      BY <2>2, <2>3
    <2>7. named[v + 1] # "sys_call"
      BY <2>2, <2>3
    <2> QED
      BY <2>1, <2>3, <2>4, <2>5, <2>6, <2>7 DEF Fits
  <1>2. CASE v \in 18..255
    <2>1. ~HasErrorCode(v)
      BY <1>2 DEF HasErrorCode
    <2>2. Gate(v) \in {"irq13", "parallel_interrupt", "reserved", "ignore_int"}
      BY <1>2 DEF Gate
    <2>3. "reserved" \in NoErrorStubs
      BY DEF NoErrorStubs
    <2> QED
      BY <2>1, <2>2, <2>3 DEF Fits
  <1> QED
    BY <1>1, <1>2

LEMMA ThreeWords ==
    ASSUME NEW a \in AnyWord, NEW b \in AnyWord, NEW c \in AnyWord
    PROVE  <<a, b, c>> = <<a>> \o <<b, c>> /\ <<b, c>> = <<b>> \o <<c>>
  <1> DEFINE u == <<a>> \o <<b, c>>
             v == <<b>> \o <<c>>
  <1>1. /\ <<a>> \in Seq(AnyWord) /\ <<b>> \in Seq(AnyWord) /\ <<c>> \in Seq(AnyWord)
        /\ <<b, c>> \in Seq(AnyWord) /\ <<a, b, c>> \in Seq(AnyWord)
    OBVIOUS
  <1>2. v \in Seq(AnyWord) /\ Len(v) = 2 /\ v[1] = b /\ v[2] = c
    BY <1>1, SMT
  <1>3. u \in Seq(AnyWord) /\ Len(u) = 3 /\ u[1] = a /\ u[2] = b /\ u[3] = c
    BY <1>1, SMT
  <1> HIDE DEF u, v
  <1>4. v = <<b, c>>
    <2> DEFINE w == <<b, c>>
    <2>1. Len(w) = 2 /\ w[1] = b /\ w[2] = c /\ w \in Seq(AnyWord)
      BY <1>1
    <2> HIDE DEF w
    <2>2. \A i \in 1..2 : v[i] = w[i]
      BY <1>2, <2>1
    <2>3. v = w
      BY <1>2, <2>1, <2>2, SeqEqual
    <2> QED
      BY <2>3 DEF w
  <1>5. u = <<a, b, c>>
    <2> DEFINE w == <<a, b, c>>
    <2>1. Len(w) = 3 /\ w[1] = a /\ w[2] = b /\ w[3] = c /\ w \in Seq(AnyWord)
      BY <1>1
    <2> HIDE DEF w
    <2>2. \A i \in 1..3 : u[i] = w[i]
      BY <1>3, <2>1
    <2>3. u = w
      BY <1>3, <2>1, <2>2, SeqEqual
    <2> QED
      BY <2>3 DEF w
  <1> QED
    BY <1>4, <1>5 DEF u, v

\* What the CPU pushes.
LEMMA EntrySlots ==
    ASSUME NEW f \in FrameRecord, NEW A
    PROVE  Slots(f, <<f.at, KernelCode, Flags(f.intFlag)>> \o f.stack, A, 0)
  <1> DEFINE a == f.at
             b == KernelCode
             c == Flags(f.intFlag)
             s == f.stack
             l == Len(s)
             t1 == <<c>> \o s
             t2 == <<b>> \o t1
             t3 == <<a>> \o t2
  <1>1. a \in AnyWord /\ b \in AnyWord /\ c \in AnyWord /\ s \in Seq(AnyWord) /\ l \in Nat
    BY FrameFields, FlagsFacts, SelectorFacts
  <1> HIDE DEF a, b, c, s
  <1>2. <<a, b, c>> \o s = t3
    <2>1. <<a>> \in Seq(AnyWord) /\ <<b>> \in Seq(AnyWord) /\ <<c>> \in Seq(AnyWord)
          /\ <<b, c>> \in Seq(AnyWord)
      BY <1>1
    <2>2. <<a, b, c>> = <<a>> \o <<b, c>> /\ <<b, c>> = <<b>> \o <<c>>
      BY <1>1, ThreeWords
    <2>3. /\ (<<a>> \o <<b, c>>) \o s = <<a>> \o (<<b, c>> \o s)
          /\ (<<b>> \o <<c>>) \o s = <<b>> \o (<<c>> \o s)
      BY <1>1, <2>1, ConcatAssociative
    <2> QED
      BY <2>2, <2>3
  <1>3. /\ t1 \in Seq(AnyWord) /\ Len(t1) = l + 1 /\ Cell(t1, l + 1) = c
        /\ \A h \in 1..l : Cell(t1, h) = Cell(s, h)
    BY <1>1, PushCells
  <1> HIDE DEF t1
  <1>4. /\ t2 \in Seq(AnyWord) /\ Len(t2) = Len(t1) + 1 /\ Cell(t2, Len(t1) + 1) = b
        /\ \A h \in 1..Len(t1) : Cell(t2, h) = Cell(t1, h)
    BY <1>1, <1>3, PushCells
  <1> HIDE DEF t2
  <1>5. /\ t3 \in Seq(AnyWord) /\ Len(t3) = Len(t2) + 1 /\ Cell(t3, Len(t2) + 1) = a
        /\ \A h \in 1..Len(t2) : Cell(t3, h) = Cell(t2, h)
    BY <1>1, <1>4, PushCells
  <1> HIDE DEF t3, l
  <1>6. /\ Len(t1) = l + 1 /\ Len(t2) = l + 2 /\ Len(t3) = l + 3
        /\ \A h \in 1..l : h \in 1..(l + 1) /\ h \in 1..(l + 2)
        /\ l + 1 \in 1..(l + 1) /\ l + 1 \in 1..(l + 2) /\ l + 2 \in 1..(l + 2)
        /\ l + 1 + 1 = l + 2 /\ l + 2 + 1 = l + 3
        /\ l <= l + 3 /\ l + 3 = l + 3 + 0 /\ 1..0 = {}
    BY <1>1, <1>3, <1>4, <1>5
  <1>7. /\ Cell(t3, l + 1) = c /\ Cell(t3, l + 2) = b /\ Cell(t3, l + 3) = a
        /\ \A h \in 1..l : Cell(t3, h) = Cell(s, h)
    BY <1>3, <1>4, <1>5, <1>6
  <1>8. Under(s, t3)
    BY <1>6, <1>7 DEF Under, l
  <1> QED
    BY <1>2, <1>5, <1>6, <1>7, <1>8 DEF Slots, a, b, c, s, l

\* The first instruction of each handler.
LEMMA EnterLevel ==
    ASSUME NEW f \in FrameRecord, Typed(f.regs), NEW v, Fits(v, f.handler),
           f.handler = "sys_call" => IsCall(f), NEW s,
           s = (IF HasErrorCode(v) THEN <<Word("error", "code", 0)>> ELSE <<>>)
               \o <<f.at, KernelCode, Flags(f.intFlag)>> \o f.stack
    PROVE  Level(ldtLoaded, f, Addr(f.handler), f.regs, s)
  <1> DEFINE e == Word("error", "code", 0)
             t == <<f.at, KernelCode, Flags(f.intFlag)>> \o f.stack
  <1>1. e \in Plain /\ e \in AnyWord
    BY WordFacts, NameFacts DEF Kinds
  <1>2. s = IF HasErrorCode(v) THEN <<e>> \o t ELSE t
    <2> DEFINE a == f.at
               b == KernelCode
               c == Flags(f.intFlag)
               u == f.stack
    <2>1. a \in AnyWord /\ b \in AnyWord /\ c \in AnyWord /\ u \in Seq(AnyWord)
      BY FrameFields, FlagsFacts, SelectorFacts
    <2>2. s = (IF HasErrorCode(v) THEN <<e>> ELSE <<>>) \o <<a, b, c>> \o u
      OBVIOUS
    <2> HIDE DEF a, b, c, u, e
    <2>3. CASE HasErrorCode(v)
      <3>1. s = <<e>> \o <<a, b, c>> \o u
        BY <2>2, <2>3
      <3>2. <<e>> \o <<a, b, c>> \o u = <<e>> \o (<<a, b, c>> \o u)
        <4>1. /\ <<a, b, c>> \in Seq(AnyWord) /\ <<e>> \in Seq(AnyWord)
          BY <1>1, <2>1
        <4> QED
          BY <2>1, <4>1, ConcatAssociative
      <3> QED
        BY <2>3, <3>1, <3>2 DEF a, b, c, u
    <2>4. CASE ~HasErrorCode(v)
      <3>1. s = <<>> \o <<a, b, c>> \o u
        BY <2>2, <2>4
      <3>2. <<>> \o <<a, b, c>> = <<a, b, c>>
        BY <2>1
      <3> QED
        BY <2>4, <3>1, <3>2 DEF a, b, c, u
    <2> QED
      BY <2>3, <2>4
  <1>3. \A A : Slots(f, t, A, 0)
    BY EntrySlots
  <1>4. ~HasErrorCode(v) => \A A : Slots(f, s, A, 0)
    BY <1>2, <1>3
  <1> HIDE DEF t, e
  <1>5. CASE f.handler \in ErrorStubs /\ HasErrorCode(v)
    <2>1. f.handler \notin NoErrorStubs
      BY <1>5 DEF ErrorStubs, NoErrorStubs
    <2>2. e \in StubSlots(f)[0 + 1]
      BY <1>1, <2>1 DEF StubSlots
    <2>3. Slots(f, <<e>> \o t, StubSlots(f), 0 + 1)
      BY <1>1, <1>3, <2>2, SlotPush
    <2>4. Slots(f, s, StubSlots(f), 1)
      <3>1. Slots(f, <<e>> \o t, StubSlots(f), 1)
        BY <2>3
      <3> QED
        BY <1>2, <1>5, <3>1
    <2>5. InStub(f, Addr(f.handler), f.regs, s)
      BY <1>5, <2>1, <2>4 DEF InStub, Addr
    <2> QED
      BY <2>5 DEF Level
  <1>6. CASE f.handler \in NoErrorStubs /\ ~HasErrorCode(v)
    <2>1. Slots(f, s, StubSlots(f), 0)
      BY <1>4, <1>6
    <2>2. InStub(f, Addr(f.handler), f.regs, s)
      <3>1. 1 - 1 = 0
        OBVIOUS
      <3> QED
        BY <1>6, <2>1, <3>1 DEF InStub, Addr
    <2> QED
      BY <2>2 DEF Level
  <1>7. CASE f.handler \in {"device_not_available", "coprocessor_error"} /\ ~HasErrorCode(v)
    <2>1. SysFrameAt(ldtLoaded, f, 0, 1, f.regs, s)
      <3>1. 0 + (IF 1 <= 9 THEN 1 - 1 ELSE IF 1 <= 14 THEN 8 ELSE 9) = 0
        OBVIOUS
      <3> QED
        <4>1. Slots(f, s, SysSlots(f), 0)
          BY <1>4, <1>7
        <4> QED
          BY <3>1, <4>1 DEF SysFrameAt
    <2>2. CASE f.handler = "coprocessor_error"
      <3>1. InCoprocessor(ldtLoaded, f, Addr(f.handler), f.regs, s)
        BY <2>1, <2>2 DEF InCoprocessor, Addr
      <3> QED
        BY <3>1 DEF Level
    <2>3. CASE f.handler = "device_not_available"
      <3>1. Below2(f) = 0
        BY <2>3 DEF Below2
      <3>2. InDevice(ldtLoaded, f, Addr(f.handler), f.regs, s)
        BY <2>1, <2>3, <3>1 DEF InDevice, Untouched, Addr
      <3> QED
        BY <3>2 DEF Level
    <2> QED
      BY <1>7, <2>2, <2>3
  <1>8. CASE f.handler = "irq13" /\ ~HasErrorCode(v)
    <2>1. Slots(f, s, <<Plain>>, 0)
      BY <1>4, <1>8
    <2>2. InIrq13(f, Addr(f.handler), f.regs, s)
      BY <1>8, <2>1 DEF InIrq13, Addr
    <2> QED
      BY <2>2 DEF Level
  <1>9. CASE f.handler = "parallel_interrupt" /\ ~HasErrorCode(v)
    <2>1. Slots(f, s, <<{f.regs["eax"]}>>, 0)
      BY <1>4, <1>9
    <2>2. InParallel(f, Addr(f.handler), f.regs, s)
      BY <1>9, <2>1 DEF InParallel, ParallelAt, Addr
    <2> QED
      BY <2>2 DEF Level
  <1>10. CASE f.handler = "sys_call" /\ ~HasErrorCode(v)
    <2>1. SysCallAt(ldtLoaded, f, 1, f.regs, s)
      <3>1. (IF 1 <= 8 THEN 1 - 1 ELSE 7) = 0
        OBVIOUS
      <3> QED
        <4>1. Slots(f, s, SysSlots(f), 0)
          BY <1>4, <1>10
        <4> QED
          BY <3>1, <4>1 DEF SysCallAt
    <2>2. InSysCall(ldtLoaded, f, Addr(f.handler), f.regs, s)
      BY <1>10, <2>1 DEF InSysCall, Untouched, Addr
    <2> QED
      BY <2>2 DEF Level
  <1>11. CASE f.handler = "ignore_int"
    <2> DEFINE n == IF HasErrorCode(v) THEN 1 ELSE 0
               A == [i \in 1..n |-> Plain]
    <2>1. Slots(f, s, A, n)
      <3>1. CASE HasErrorCode(v)
        <4>1. e \in A[0 + 1] /\ n = 0 + 1
          BY <1>1, <3>1
        <4> HIDE DEF A
        <4>2. Slots(f, <<e>> \o t, A, 0 + 1)
          BY <1>1, <1>3, <4>1, SlotPush
        <4> QED
          BY <1>2, <3>1, <4>1, <4>2
      <3>2. CASE ~HasErrorCode(v)
        BY <1>2, <1>3, <3>2
      <3> QED
        BY <3>1, <3>2
    <2>2. n \in 0..Len(s)
      <3> DEFINE b == Len(f.stack)
                 l == Len(s)
      <3>1. l = b + 3 + n /\ b \in Nat /\ n \in {0, 1}
        BY <2>1, FrameFields DEF Slots
      <3> HIDE DEF b, l, n
      <3>2. n \in 0..l
        BY <3>1
      <3> QED
        BY <3>2 DEF l
    <2>3. IgnoreAt(f, 1, n, f.regs, s)
      BY <2>1 DEF IgnoreAt
    <2> HIDE DEF n
    <2>4. InIgnoreInt(f, Addr(f.handler), f.regs, s)
      <3>1. Addr(f.handler) = Word("code", "ignore_int", 1) /\ 1 \in 1..19
        BY <1>11 DEF Addr
      <3> QED
        BY <1>11, <2>2, <2>3, <3>1 DEF InIgnoreInt
    <2> QED
      BY <2>4 DEF Level
  <1> QED
    BY <1>5, <1>6, <1>7, <1>8, <1>9, <1>10, <1>11 DEF Fits

-----------------------------------------------------------------------------
(***************************************************************************)
(* The invariant is inductive.                                             *)
(***************************************************************************)
LEMMA HandlersFit ==
    ASSUME NEW v, NEW h, Fits(v, h)
    PROVE  h \in Handlers /\ h \in Names
  BY NameFacts DEF Fits

\* The CPU enters a handler.
LEMMA EnterKeepsIInv ==
    ASSUME IInv, ~Lost, NEW v \in 0..255, NEW h, Fits(v, h), NEW keeps \in BOOLEAN,
           NEW r, Typed(r), EnterVia(v, h, keeps, r), frames # <<>> => r = regs,
           h = "sys_call" =>
              /\ frames = <<>>
              /\ \E n \in Calls : r["eax"] = Word("call", "number", n),
           \/ Len(frames) < MaxDepth
           \/ Len(frames) = MaxDepth /\ h = "general_protection"
    PROVE  IInv'
  <1> DEFINE g == [handler |-> h, regs |-> r, stack |-> stack, at |-> at, intFlag |-> intFlag]
             n == Len(frames)
             e == Word("error", "code", 0)
             w == <<at, KernelCode, Flags(intFlag)>> \o stack
             s == (IF HasErrorCode(v) THEN <<e>> ELSE <<>>)
                  \o <<at, KernelCode, Flags(intFlag)>> \o stack
  <1>1. /\ frames' = <<g>> \o frames /\ regs' = r /\ stack' = s /\ at' = Addr(h)
        /\ intFlag' = (intFlag /\ keeps) /\ nmiMasked' = (nmiMasked \/ v = 2)
        /\ ldtLoaded' = ldtLoaded
    BY DEF EnterVia
  <1>2. /\ Typed(regs) /\ stack \in Seq(AnyWord) /\ at \in AnyWord
        /\ intFlag \in BOOLEAN /\ nmiMasked \in BOOLEAN /\ ldtLoaded \in BOOLEAN
        /\ frames \in Seq(FrameRecord)
        /\ \A k \in DOMAIN frames : Typed(frames[k].regs)
    BY DEF IInv, MachineOK
  <1>3. MaxDepth \in Nat \ {0} /\ Calls \subseteq Nat
    BY AddressAssumption
  <1>4. g \in FrameRecord
    BY <1>2, HandlersFit DEF FrameRecord, Typed
  <1>5. /\ g.handler = h /\ g.regs = r /\ g.stack = stack /\ g.at = at /\ g.intFlag = intFlag
    OBVIOUS
  <1>6. Level(ldtLoaded, g, Addr(h), r, s)
    <2>1. h = "sys_call" => IsCall(g)
      BY <1>5 DEF IsCall
    <2>2. Level(ldtLoaded, g, Addr(g.handler), g.regs, s)
      BY <1>4, <1>5, <2>1, EnterLevel
    <2> QED
      BY <1>5, <2>2
  <1>7. Placed(g, Addr(h), r, s)
    BY <1>4, <1>5, <1>6, LevelPlace
  <1>8. Under(stack, s) /\ s \in Seq(AnyWord)
    BY <1>5, <1>7 DEF Placed
  <1> HIDE DEF g, s, n
  <1>9. /\ frames' \in Seq(FrameRecord) /\ Len(frames') = n + 1 /\ n \in Nat
        /\ DOMAIN frames = 1..n /\ DOMAIN frames' = 1..(n + 1)
        /\ frames'[1] = g /\ \A k \in 1..n : frames'[k + 1] = frames[k]
    <2>1. n \in Nat /\ n = Len(frames)
      BY <1>2 DEF n
    <2>2. DOMAIN frames = 1..n
      BY <1>2, <2>1
    <2>3. <<g>> \in Seq(FrameRecord) /\ Len(<<g>>) = 1
      BY <1>4
    <2>4. frames' \in Seq(FrameRecord) /\ Len(frames') = n + 1
      BY <1>1, <1>2, <2>1, <2>3
    <2>5. frames'[1] = g /\ \A k \in 1..n : frames'[k + 1] = frames[k]
      BY <1>1, <1>2, <2>1, <2>3
    <2>6. DOMAIN frames' = 1..(n + 1)
      BY <2>1, <2>4
    <2> QED
      BY <2>1, <2>2, <2>4, <2>5, <2>6
  <1>10. \A k \in 1..(n + 1) : k = 1 \/ (k - 1 \in 1..n /\ k = (k - 1) + 1)
    BY <1>9
  <1>11. \A k \in 1..(n + 1) : k = 1 \/ (k - 1 \in 1..n /\ frames'[k] = frames[k - 1])
    BY <1>9, <1>10
  <1>12. MachineOK'
    <2>1. nmiMasked' \in BOOLEAN
      BY <1>1, <1>2, Zenon
    <2>2. intFlag' \in BOOLEAN
      BY <1>1, <1>2, Zenon
    <2>3. \A k \in DOMAIN frames' : Typed(frames'[k].regs)
      BY <1>2, <1>5, <1>9, <1>11
    <2>4. Typed(regs') /\ stack' \in Seq(AnyWord) /\ at' \in AnyWord /\ ldtLoaded' \in BOOLEAN
      BY <1>1, <1>2, <1>7, <1>8 DEF Placed
    <2> QED
      BY <1>9, <2>1, <2>2, <2>3, <2>4 DEF MachineOK
  <1>13. StacksNest'
    <2>1. \A k \in 1..n : frames[k].stack \in Seq(AnyWord)
      BY <1>2, <1>9, FrameFields
    <2>2. \A k \in 1..n : Under(frames[k].stack, stack)
      BY <1>9 DEF IInv, StacksNest
    <2>3. \A k \in 1..n : Under(frames[k].stack, s)
      BY <1>2, <1>8, <2>1, <2>2, UnderTransitive
    <2>4. ASSUME NEW k \in 1..(n + 1)
          PROVE  /\ Under(frames'[k].stack, stack')
                 /\ \A m \in 1..(n + 1) : m > k => Under(frames'[m].stack, frames'[k].stack)
      <3>1. CASE k = 1
        <4>1. \A m \in 1..(n + 1) : m > 1 => m - 1 \in 1..n
          BY <1>9
        <4> QED
          BY <1>1, <1>5, <1>8, <1>9, <1>11, <2>2, <3>1, <4>1
      <3>2. CASE k - 1 \in 1..n /\ frames'[k] = frames[k - 1]
        <4>1. Under(frames'[k].stack, stack')
          BY <1>1, <2>3, <3>2
        <4>2. \A m \in 1..(n + 1) : m > k => m - 1 \in 1..n /\ m - 1 > k - 1 /\ m # 1
          BY <1>9, <3>2
        <4>3. \A m \in 1..n : m > k - 1 => Under(frames[m].stack, frames[k - 1].stack)
          BY <1>9, <3>2 DEF IInv, StacksNest
        <4> QED
          BY <1>11, <3>2, <4>1, <4>2, <4>3
      <3> QED
        BY <1>11, <3>1, <3>2
    <2> QED
      BY <1>9, <2>4 DEF StacksNest
  <1>14. DepthOK'
    <2>1. n < MaxDepth \/ (n = MaxDepth /\ h = "general_protection")
      BY DEF n
    <2>2. n + 1 <= MaxDepth + 1 /\ (n + 1 = MaxDepth + 1 => n = MaxDepth /\ ~(n < MaxDepth))
      BY <1>3, <1>9, <2>1
    <2> QED
      BY <1>5, <1>9, <2>1, <2>2 DEF DepthOK
  <1>15. Chained'
    <2>1. frames' # <<>> /\ at' # Kernel /\ ~Lost'
      <3>1. Len(frames') # 0
        BY <1>9
      <3>2. frames' # <<>>
        BY <3>1
      <3> QED
        BY <1>1, <1>7, <3>2 DEF Placed, Lost
    <2>2. frames'[n + 1].at = Kernel
      <3>1. CASE n = 0
        <4>1. frames = <<>>
          BY <1>2, <3>1 DEF n
        <4>2. at = Kernel
          BY <4>1 DEF IInv, Chained
        <4> QED
          BY <1>5, <1>9, <3>1, <4>2
      <3>2. CASE n # 0
        <4>1. n \in 1..n /\ frames # <<>>
          BY <1>9, <3>2 DEF n
        <4>2. frames[n].at = Kernel
          BY <4>1 DEF IInv, Chained, n
        <4> QED
          BY <1>9, <4>1, <4>2
      <3> QED
        BY <3>1, <3>2
    <2>3. ASSUME NEW k \in 1..(n + 1), frames'[k].handler = "sys_call" PROVE k = n + 1
      <3>1. CASE k = 1
        <4>1. frames = <<>>
          BY <1>5, <1>9, <2>3, <3>1
        <4>2. n = 0
          BY <4>1 DEF n
        <4> QED
          BY <3>1, <4>2
      <3>2. CASE k - 1 \in 1..n /\ frames'[k] = frames[k - 1]
        <4>1. k - 1 = n
          BY <1>9, <2>3, <3>2 DEF IInv, Chained, n
        <4> QED
          BY <4>1, <1>9
      <3> QED
        BY <1>11, <3>1, <3>2
    <2>4. ASSUME NEW k \in 1..n
          PROVE  Level(ldtLoaded, frames'[k + 1], frames'[k].at, frames'[k].regs,
                       frames'[k].stack)
      <3>1. frames'[k + 1] = frames[k]
        BY <1>9
      <3>2. CASE k = 1
        <4>1. frames # <<>>
          BY <1>9, <3>2 DEF n
        <4>2. Level(ldtLoaded, frames[1], at, regs, stack) /\ r = regs
          BY <4>1 DEF IInv, Chained
        <4> QED
          BY <1>5, <1>9, <3>1, <3>2, <4>2
      <3>3. CASE k # 1
        <4>1. k - 1 \in 1..(n - 1) /\ k - 1 \in 1..n /\ (k - 1) + 1 = k /\ k \in 1..(n + 1)
          BY <1>9, <3>3
        <4>2. frames'[k] = frames[k - 1]
          BY <1>9, <4>1
        <4>3. Level(ldtLoaded, frames[(k - 1) + 1], frames[k - 1].at, frames[k - 1].regs,
                    frames[k - 1].stack)
          BY <4>1 DEF IInv, Chained, n
        <4> QED
          BY <3>1, <4>1, <4>2, <4>3
      <3> QED
        BY <3>2, <3>3
    <2>5. Level(ldtLoaded', frames'[1], at', regs', stack')
      BY <1>1, <1>6, <1>9
    <2>6. 1..(n + 1 - 1) = 1..n
      BY <1>9
    <2> QED
      BY <1>1, <1>9, <2>1, <2>2, <2>3, <2>4, <2>5, <2>6 DEF Chained
  <1> QED
    BY <1>12, <1>13, <1>14, <1>15 DEF IInv

-----------------------------------------------------------------------------
LEMMA LevelOfCall ==
    ASSUME NEW f, NEW ldt, NEW p, NEW r, NEW s, Level(ldt, f, p, r, s), f.handler = "sys_call"
    PROVE  IsCall(f)
  <1>1. "sys_call" \notin NoErrorStubs \cup ErrorStubs
    BY DEF NoErrorStubs, ErrorStubs
  <1> QED
    BY <1>1 DEF Level, InStub, InNoErrorCode, InErrorCode, InC, InCoprocessor, InDevice, InReturn,
                InSysCall, InFunction, InBadCall, InParallel, InIrq13, InIgnoreInt

\* The handler of the last frame goes on, or is lost.
LEMMA MovesKeepsIInv ==
    ASSUME IInv, NEW f \in FrameRecord, f = frames[1], 1 \in DOMAIN frames,
           Moves(f) \/ Strays(f)
    PROVE  IInv'
  <1>1. UNCHANGED <<intFlag, nmiMasked, ldtLoaded, frames>>
    BY DEF Moves, Strays
  <1>2. Typed(f.regs) /\ frames # <<>>
    BY DEF IInv, MachineOK
  <1>3. /\ Typed(regs') /\ stack' \in Seq(AnyWord) /\ at' \in AnyWord /\ at' # Kernel
        /\ Under(f.stack, stack')
        /\ Lost' \/ Level(ldtLoaded, f, at', regs', stack')
    <2>1. CASE Moves(f)
      <3>1. Level(ldtLoaded, f, at', regs', stack')
        BY <2>1 DEF Moves
      <3>2. Placed(f, at', regs', stack')
        BY <1>2, <3>1, LevelPlace
      <3> QED
        BY <3>1, <3>2 DEF Placed, Level
    <2>2. CASE Strays(f)
      <3>1. Word("wild", "nowhere", 1) \in AnyWord /\ Word("wild", "nowhere", 1)[1] = "wild"
        BY WordFacts, NameFacts DEF Kinds
      <3>2. Kernel[1] = "kernel"
        BY DEF Kernel, Word
      <3> QED
        BY <2>2, <3>1, <3>2 DEF Strays, Lost
    <2> QED
      BY <2>1, <2>2
  <1>4. MachineOK'
    BY <1>1, <1>3 DEF IInv, MachineOK
  <1>5. StacksNest'
    <2>1. \A k \in DOMAIN frames : frames[k].stack \in Seq(AnyWord)
      <3>1. \A k \in DOMAIN frames : frames[k] \in FrameRecord
        BY DEF IInv, MachineOK
      <3> QED
        BY <3>1, FrameFields
    <2>2. \A k \in DOMAIN frames : k # 1 => Under(frames[k].stack, f.stack)
      <3>1. \A k \in DOMAIN frames : k # 1 => k > 1
        BY DEF IInv, MachineOK
      <3> QED
        BY <3>1 DEF IInv, StacksNest
    <2>3. \A k \in DOMAIN frames : Under(frames[k].stack, stack')
      BY <1>3, <2>1, <2>2, UnderTransitive
    <2> QED
      BY <1>1, <2>3 DEF IInv, StacksNest
  <1>6. DepthOK'
    BY <1>1 DEF IInv, DepthOK
  <1>7. Chained'
    BY <1>1, <1>2, <1>3 DEF IInv, Chained
  <1> QED
    BY <1>4, <1>5, <1>6, <1>7 DEF IInv

\* It comes back, or its iret leads nowhere.
LEMMA ReturnKeepsIInv ==
    ASSUME IInv, NEW f \in FrameRecord, f = frames[1], 1 \in DOMAIN frames,
           Level(ldtLoaded, f, at, regs, stack), Comes(f) \/ Ends(f)
    PROVE  IInv'
  <1> DEFINE n == Len(frames)
  <1>1. ldtLoaded' = ldtLoaded /\ nmiMasked' = FALSE /\ frames' = Tail(frames)
    BY DEF Comes, Ends
  <1>2. /\ Typed(f.regs) /\ Typed(regs) /\ ldtLoaded \in BOOLEAN
        /\ frames \in Seq(FrameRecord)
        /\ f.stack \in Seq(AnyWord) /\ f.at \in AnyWord /\ f.intFlag \in BOOLEAN
    BY FrameFields DEF IInv, MachineOK
  <1>3. /\ n \in Nat /\ n >= 1 /\ DOMAIN frames = 1..n /\ frames # <<>>
        /\ frames' \in Seq(FrameRecord) /\ Len(frames') = n - 1
        /\ \A k \in 1..(n - 1) : frames'[k] = frames[k + 1]
    <2>1. n \in Nat /\ DOMAIN frames = 1..n /\ frames # <<>>
      BY <1>2
    <2>2. /\ frames' \in Seq(FrameRecord) /\ Len(frames') = n - 1
          /\ \A k \in 1..(n - 1) : frames'[k] = frames[k + 1]
      BY <1>1, <1>2, <2>1
    <2>3. n >= 1
      <3>1. 1 \in 1..n
        BY <2>1
      <3> HIDE DEF n
      <3> QED
        BY <2>1, <3>1
    <2> QED
      BY <2>1, <2>2, <2>3
  <1>4. \A k \in 1..n : Typed(frames[k].regs) /\ frames[k] \in FrameRecord
    BY <1>2, <1>3 DEF IInv, MachineOK
  <1>5. frames[n].at = Kernel
    BY <1>3 DEF IInv, Chained
  <1>6. /\ \A k \in 1..n : frames[k].handler = "sys_call" => k = n
        /\ \A k \in 1..(n - 1) :
              Level(ldtLoaded, frames[k + 1], frames[k].at, frames[k].regs, frames[k].stack)
    BY <1>3 DEF IInv, Chained
  <1>7. \A k, m \in 1..n : m > k => Under(frames[m].stack, frames[k].stack)
    BY <1>3 DEF IInv, StacksNest
  <1>8. n <= MaxDepth + 1 /\ MaxDepth \in Nat
    BY AddressAssumption DEF IInv, DepthOK
  <1> HIDE DEF n
  <1>9. n - 1 \in Nat /\ DOMAIN frames' = 1..(n - 1)
    BY <1>3
  <1>10. \A k \in 1..(n - 1) : k \in 1..n /\ k + 1 \in 1..n /\ k + 1 > 1
    BY <1>3
  <1>11. n = 1 => frames' = <<>>
    <2>1. n = 1 => Len(frames') = 0
      BY <1>3
    <2> QED
      BY <1>3, <2>1
  <1>12. frames' # <<>> => n > 1 /\ 1 \in 1..(n - 1)
    BY <1>3, <1>11
  <1>13. frames' = <<>> => n = 1
    <2>1. frames' = <<>> => Len(frames') = 0
      OBVIOUS
    <2> QED
      BY <1>3, <2>1
  <1>14. Comes(f) => Typed(Final(f))
    BY <1>2, LevelOfCall, FinalFacts
  <1>15. /\ Typed(regs') /\ stack' \in Seq(AnyWord) /\ at' \in AnyWord
         /\ intFlag' \in BOOLEAN /\ Under(f.stack, stack')
         /\ (Comes(f) /\ at' = f.at) \/ (Ends(f) /\ Lost' /\ at' # Kernel)
    <2>1. CASE Comes(f)
      <3>1. Under(f.stack, f.stack)
        BY <1>2 DEF Under
      <3> QED
        BY <1>2, <1>14, <2>1, <3>1 DEF Comes
    <2>2. CASE Ends(f)
      <3>1. Word("wild", "nowhere", 1) \in AnyWord /\ Word("wild", "nowhere", 1)[1] = "wild"
        BY WordFacts, NameFacts DEF Kinds
      <3>2. Kernel[1] = "kernel"
        BY DEF Kernel, Word
      <3> QED
        BY <1>2, <2>2, <3>1, <3>2 DEF Ends, Lost
    <2> QED
      BY <2>1, <2>2
  <1>16. MachineOK'
    <2>1. \A k \in 1..(n - 1) : Typed(frames'[k].regs)
      BY <1>3, <1>4, <1>10
    <2> QED
      BY <1>1, <1>2, <1>3, <1>9, <1>15, <2>1 DEF MachineOK
  <1>17. StacksNest'
    <2>1. ASSUME NEW k \in 1..(n - 1)
          PROVE  /\ Under(frames'[k].stack, stack')
                 /\ \A m \in 1..(n - 1) : m > k => Under(frames'[m].stack, frames'[k].stack)
      <3>1. frames[k + 1] \in FrameRecord /\ frames'[k] = frames[k + 1]
        BY <1>3, <1>4, <1>10
      <3>2. frames[k + 1].stack \in Seq(AnyWord) /\ Under(frames[k + 1].stack, f.stack)
        <4>1. 1 \in 1..n /\ k + 1 \in 1..n /\ k + 1 > 1
          BY <1>3, <1>10
        <4> QED
          BY <1>7, <3>1, <4>1, FrameFields
      <3>3. Under(frames'[k].stack, stack')
        BY <1>2, <1>15, <3>1, <3>2, UnderTransitive
      <3>4. \A m \in 1..(n - 1) : m > k => Under(frames[m + 1].stack, frames[k + 1].stack)
        <4>1. \A m \in 1..(n - 1) : m > k => m + 1 > k + 1
          OBVIOUS
        <4> QED
          BY <1>7, <1>10, <4>1
      <3> QED
        BY <1>3, <3>1, <3>3, <3>4
    <2> QED
      BY <1>9, <2>1 DEF StacksNest
  <1>18. DepthOK'
    <2>1. n - 1 <= MaxDepth + 1 /\ n - 1 # MaxDepth + 1
      BY <1>3, <1>8
    <2> QED
      BY <1>3, <2>1 DEF DepthOK
  <1>19. Chained'
    <2>1. frames' = <<>> => at' = Kernel \/ Lost'
      BY <1>5, <1>13, <1>15
    <2>2. ASSUME frames' # <<>>
          PROVE  /\ at' # Kernel
                 /\ Lost' \/ Level(ldtLoaded, frames'[1], at', regs', stack')
      <3>1. CASE Ends(f) /\ Lost' /\ at' # Kernel
        BY <3>1
      <3>2. CASE Comes(f) /\ at' = f.at
        <4>1. f.handler # "sys_call"
          <5>1. 1 \in 1..n /\ 1 # n
            BY <1>3, <1>12, <2>2
          <5> QED
            BY <1>6, <5>1
        <4>2. regs' = f.regs /\ stack' = f.stack
          BY <3>2, <4>1 DEF Comes, Final
        <4>3. Level(ldtLoaded, frames[2], f.at, f.regs, f.stack) /\ frames'[1] = frames[2]
          <5>1. 1 \in 1..(n - 1) /\ 1 + 1 = 2
            BY <1>12, <2>2
          <5> QED
            BY <1>3, <1>6, <5>1
        <4>4. frames[2] \in FrameRecord /\ Typed(frames[2].regs)
          <5>1. 2 \in 1..n
            BY <1>3, <1>12, <2>2
          <5> QED
            BY <1>4, <5>1
        <4>5. Placed(frames[2], f.at, f.regs, f.stack)
          BY <4>3, <4>4, LevelPlace
        <4> QED
          BY <3>2, <4>2, <4>3, <4>5 DEF Placed
      <3> QED
        BY <1>15, <3>1, <3>2
    <2>3. frames' # <<>> => frames'[n - 1].at = Kernel
      <3>1. frames' # <<>> => n - 1 \in 1..(n - 1) /\ n - 1 + 1 = n
        BY <1>3, <1>12
      <3> QED
        BY <1>3, <1>5, <3>1
    <2>4. \A k \in 1..(n - 1) : frames'[k].handler = "sys_call" => k = n - 1
      <3>1. \A k \in 1..(n - 1) : k + 1 = n => k = n - 1
        BY <1>3
      <3> QED
        BY <1>3, <1>6, <1>10, <3>1
    <2>5. ASSUME NEW k \in 1..(n - 1 - 1)
          PROVE  Level(ldtLoaded, frames'[k + 1], frames'[k].at, frames'[k].regs,
                       frames'[k].stack)
      <3>1. k \in 1..(n - 1) /\ k + 1 \in 1..(n - 1)
        BY <1>3
      <3> QED
        BY <1>3, <1>6, <3>1
    <2> QED
      BY <1>1, <1>3, <1>9, <2>1, <2>2, <2>3, <2>4, <2>5 DEF Chained
  <1> QED
    BY <1>16, <1>17, <1>18, <1>19 DEF IInv

-----------------------------------------------------------------------------
LEMMA InitIInv == Init => IInv
  <1> SUFFICES ASSUME Init PROVE IInv
    OBVIOUS
  <1>1. /\ frames = <<>> /\ at = Kernel /\ intFlag = TRUE /\ nmiMasked = FALSE
        /\ ldtLoaded \in BOOLEAN /\ stack = <<Word("value", "stack", 0)>>
    BY DEF Init
  <1>2. Typed(regs)
    <2>1. PICK fs \in {KernelData, UserData} :
             regs = [r \in Regs |-> IF r = "fs" THEN fs
                                    ELSE IF r \in SegmentRegs THEN KernelData
                                    ELSE Word("value", r, 0)]
      BY DEF Init
    <2>2. \A x \in Regs : Word("value", x, 0) \in Plain
      BY WordFacts, NameFacts DEF Kinds
    <2>3. SegmentRegs \subseteq Regs
      BY RegFacts
    <2> QED
      BY <2>1, <2>2, <2>3, SelectorFacts DEF Typed
  <1>3. at \in AnyWord /\ Word("value", "stack", 0) \in AnyWord
    <2>1. /\ "kernel" \in Kinds /\ "program" \in Names
          /\ "value" \in Kinds /\ "stack" \in Names
      BY NameFacts DEF Kinds
    <2>2. Word("kernel", "program", 1) \in AnyWord
      BY <2>1, WordFacts
    <2>3. Word("value", "stack", 0) \in AnyWord
      BY <2>1, WordFacts
    <2> QED
      BY <1>1, <2>2, <2>3 DEF Kernel
  <1>4. stack \in Seq(AnyWord) /\ frames \in Seq(FrameRecord) /\ DOMAIN frames = {}
        /\ Len(frames) = 0
    BY <1>1, <1>3
  <1>5. MaxDepth \in Nat \ {0}
    BY AddressAssumption
  <1>6. MachineOK /\ StacksNest
    BY <1>1, <1>2, <1>3, <1>4 DEF MachineOK, StacksNest
  <1>7. DepthOK
    BY <1>4, <1>5 DEF DepthOK
  <1>8. Chained
    <2>1. 1..(0 - 1) = {}
      OBVIOUS
    <2> QED
      BY <1>1, <1>4, <2>1 DEF Chained
  <1> QED
    BY <1>6, <1>7, <1>8 DEF IInv

\* The invariant of the frame whose handler runs.
LEMMA TopFrame ==
    ASSUME IInv, frames # <<>>
    PROVE  /\ 1 \in DOMAIN frames /\ frames[1] \in FrameRecord /\ Head(frames) = frames[1]
           /\ Typed(frames[1].regs)
           /\ Lost \/ Level(ldtLoaded, frames[1], at, regs, stack)
  BY DEF IInv, MachineOK, Chained

LEMMA InTheProgram ==
    ASSUME IInv, at = Kernel
    PROVE  frames = <<>> /\ Len(frames) = 0 /\ ~Lost /\ Len(frames) < MaxDepth
  <1>1. Kernel[1] = "kernel" /\ Word("wild", "nowhere", 1)[1] = "wild"
    BY DEF Kernel, Word
  <1>2. frames = <<>>
    BY DEF IInv, Chained
  <1> QED
    BY <1>1, <1>2, AddressAssumption DEF Lost

LEMMA NobodyIsLost ==
    ASSUME Running
    PROVE  ~Lost
  <1>1. /\ Word("wild", "nowhere", 1)[1] = "wild" /\ Word("wild", "nowhere", 1)[3] = 1
        /\ Kernel[1] = "kernel"
    BY DEF Kernel, Word
  <1>2. Len(Code(Word("wild", "nowhere", 1))) = 0
    BY <1>1 DEF Code
  <1> QED
    BY <1>1, <1>2 DEF Running, Lost

LEMMA GateKeepsIInv ==
    ASSUME IInv, ~Lost, NEW v \in 0..255, Enter(v),
           \/ Len(frames) < MaxDepth
           \/ Len(frames) = MaxDepth /\ Gate(v) = "general_protection"
    PROVE  IInv'
  <1>1. Fits(v, Gate(v)) /\ Gate(v) # "sys_call"
    BY GateFacts
  <1>2. TrapGate(v) \in BOOLEAN
    BY DEF TrapGate
  <1>3. Typed(regs)
    BY DEF IInv, MachineOK
  <1>4. EnterVia(v, Gate(v), TrapGate(v), regs)
    BY DEF Enter
  <1> QED
    BY <1>1, <1>2, <1>3, <1>4, EnterKeepsIInv

LEMMA TrapKeepsIInv ==
    ASSUME IInv, NEW v \in Vectors, Trap(v)
    PROVE  IInv'
  BY InTheProgram, GateKeepsIInv, AddressAssumption DEF Trap, InProgram

LEMMA InterruptKeepsIInv ==
    ASSUME IInv, NEW v \in Irqs, Interrupt(v)
    PROVE  IInv'
  BY NobodyIsLost, GateKeepsIInv, AddressAssumption DEF Interrupt

LEMMA SystemCallKeepsIInv ==
    ASSUME IInv, NEW n \in Calls, SystemCall(n)
    PROVE  IInv'
  <1> DEFINE r == With("eax", Word("call", "number", n))
  <1>1. at = Kernel /\ EnterVia(128, "sys_call", TRUE, r)
    BY DEF SystemCall, InProgram
  <1>2. frames = <<>> /\ ~Lost /\ Len(frames) < MaxDepth
    BY <1>1, InTheProgram
  <1>3. Word("call", "number", n) \in Plain
    <2>1. n \in Int /\ "number" \in Names
      BY AddressAssumption, NameFacts
    <2> QED
      BY <2>1, WordFacts DEF Kinds
  <1>4. Typed(r) /\ r["eax"] = Word("call", "number", n)
    <2>1. "eax" \in Regs /\ "eax" \notin SegmentRegs
      BY RegFacts
    <2> QED
      BY <1>3, <2>1, TypedWith DEF IInv, MachineOK
  <1>5. Fits(128, "sys_call")
    BY DEF Fits, HasErrorCode
  <1>6. 128 \in 0..255 /\ TRUE \in BOOLEAN /\ (frames # <<>> => r = regs)
    BY <1>2
  <1>7. \E m \in Calls : r["eax"] = Word("call", "number", m)
    BY <1>4
  <1> HIDE DEF r
  <1> QED
    BY <1>1, <1>2, <1>4, <1>5, <1>6, <1>7, EnterKeepsIInv

LEMMA TakeResultKeepsIInv ==
    ASSUME IInv, TakeResult
    PROVE  IInv'
  <1>1. /\ frames = <<>> /\ at = Kernel
        /\ UNCHANGED <<stack, at, intFlag, nmiMasked, ldtLoaded, frames>>
        /\ regs' = With("eax", Word("value", "eax", 0))
    BY InTheProgram DEF TakeResult
  <1>2. Typed(regs')
    <2>1. "eax" \in Regs /\ "eax" \notin SegmentRegs /\ Word("value", "eax", 0) \in Plain
      BY RegFacts, NameFacts, WordFacts DEF Kinds
    <2> QED
      BY <1>1, <2>1, TypedWith DEF IInv, MachineOK
  <1>3. MachineOK' /\ StacksNest' /\ DepthOK'
    BY <1>1, <1>2 DEF IInv, MachineOK, StacksNest, DepthOK
  <1>4. Chained'
    BY <1>1 DEF IInv, Chained
  <1> QED
    BY <1>3, <1>4 DEF IInv

\* A step of a handler is a step of the handler of the last frame.
LEMMA StepOfTop ==
    ASSUME IInv, Step
    PROVE  /\ frames # <<>> /\ Level(ldtLoaded, frames[1], at, regs, stack)
           /\ \/ FaultsHere /\ frames[1].handler # "general_protection"
              \/ Moves(frames[1]) \/ Strays(frames[1]) \/ Comes(frames[1]) \/ Ends(frames[1])
  <1>1. at # Kernel /\ ~Lost
    BY NobodyIsLost DEF Step
  <1>2. frames # <<>>
    BY <1>1 DEF IInv, Chained
  <1>3. PICK f \in FrameRecord : f = frames[1]
    BY <1>2, TopFrame
  <1>4. Level(ldtLoaded, f, at, regs, stack) /\ Typed(f.regs)
    BY <1>1, <1>2, <1>3, TopFrame
  <1>5. \/ FaultsHere /\ f.handler # "general_protection"
        \/ Moves(f) \/ Strays(f) \/ Comes(f) \/ Ends(f)
    BY <1>4, StepOfHandler
  <1> QED
    BY <1>2, <1>3, <1>4, <1>5

LEMMA StepKeepsIInv ==
    ASSUME IInv, Step
    PROVE  IInv'
  <1>1. frames # <<>> /\ ~Lost
    BY StepOfTop, NobodyIsLost DEF Step
  <1>2. PICK f \in FrameRecord : f = frames[1] /\ 1 \in DOMAIN frames
    BY <1>1, TopFrame
  <1>3. /\ Level(ldtLoaded, f, at, regs, stack)
        /\ \/ FaultsHere /\ f.handler # "general_protection"
           \/ Moves(f) \/ Strays(f) \/ Comes(f) \/ Ends(f)
    BY <1>2, StepOfTop
  <1>4. CASE FaultsHere /\ f.handler # "general_protection"
    <2>1. Gate(13) = "general_protection" /\ 13 \in 0..255
      BY DEF Gate
    <2>2. Len(frames) < MaxDepth \/ Len(frames) = MaxDepth
      <3>1. Len(frames) <= MaxDepth + 1 /\ Len(frames) # MaxDepth + 1
        BY <1>2, <1>4 DEF IInv, DepthOK
      <3>2. Len(frames) \in Nat /\ MaxDepth \in Nat
        BY AddressAssumption DEF IInv, MachineOK
      <3> QED
        BY <3>1, <3>2
    <2> QED
      BY <1>1, <1>4, <2>1, <2>2, GateKeepsIInv DEF FaultsHere
  <1>5. CASE Moves(f) \/ Strays(f)
    BY <1>2, <1>5, MovesKeepsIInv
  <1>6. CASE Comes(f) \/ Ends(f)
    BY <1>2, <1>3, <1>6, ReturnKeepsIInv
  <1> QED
    BY <1>3, <1>4, <1>5, <1>6

LEMMA NextIInv == IInv /\ [Next]_vars => IInv'
  <1> SUFFICES ASSUME IInv, [Next]_vars PROVE IInv'
    OBVIOUS
  <1>1. CASE UNCHANGED vars
    BY <1>1 DEF vars, IInv, MachineOK, StacksNest, DepthOK, Chained, Lost
  <1> QED
    BY <1>1, TrapKeepsIInv, InterruptKeepsIInv, SystemCallKeepsIInv, TakeResultKeepsIInv,
       StepKeepsIInv DEF Next

\* What every handler has on the stack and in the registers at each of its
\* instructions, and every handler it interrupted had at the instruction it was
\* interrupted at (asm.asm, sys_call.asm, ignore_int of head.asm).
THEOREM InterruptInvariant == Spec => []IInv
  BY InitIInv, NextIInv, PTL DEF Spec

-----------------------------------------------------------------------------
(***************************************************************************)
(* The theorems.                                                           *)
(***************************************************************************)
\* Whatever interrupts what, execution stands at an instruction of a routine or
\* is lost, segment registers hold selectors, and handlers nest no deeper than
\* interrupts and one fault allow (every entry of asm.asm and sys_call.asm).
THEOREM InterruptTypeCorrect == Spec => []TypeOK
  <1>1. IInv => TypeOK
    <2> SUFFICES ASSUME IInv PROVE TypeOK
      OBVIOUS
    <2>1. DOMAIN regs = Regs /\ \A x \in SegmentRegs : regs[x][1] = "selector"
      BY DEF IInv, MachineOK, Typed, Selectors
    <2>2. Running \/ at[1] = "wild"
      <3>1. CASE Lost
        BY <3>1 DEF Lost, Word
      <3>2. CASE at = Kernel
        BY <3>2 DEF Running
      <3>3. CASE frames # <<>> /\ ~Lost
        <4>1. PICK f \in FrameRecord : Typed(f.regs) /\ Level(ldtLoaded, f, at, regs, stack)
          BY <3>3, TopFrame
        <4>2. Placed(f, at, regs, stack)
          BY <4>1, LevelPlace
        <4> QED
          BY <4>2 DEF Placed, Running
      <3> QED
        BY <3>1, <3>2, <3>3 DEF IInv, Chained
    <2>3. Len(frames) \in 0..(MaxDepth + 1)
      <3>1. Len(frames) \in Nat /\ Len(frames) <= MaxDepth + 1 /\ MaxDepth \in Nat
        BY AddressAssumption DEF IInv, MachineOK, DepthOK
      <3> QED
        BY <3>1
    <2> QED
      BY <2>1, <2>2, <2>3 DEF TypeOK, IInv, MachineOK
  <1> QED
    BY <1>1, InterruptInvariant, PTL

\* However the handlers interrupt each other, none of them disturbs a word of
\* what lay on the stack when it came in, not even those that do not come back
\* (the xchg instructions and the pops of asm.asm and sys_call.asm).
THEOREM StackStaysIntact == Spec => []StackBelowIntact
  <1>1. IInv => StackBelowIntact
    <2> SUFFICES ASSUME IInv, NEW k \in DOMAIN frames PROVE IsSuffix(frames[k].stack, stack)
      BY DEF StackBelowIntact
    <2>1. frames[k] \in FrameRecord /\ stack \in Seq(AnyWord)
      BY DEF IInv, MachineOK
    <2>2. frames[k].stack \in Seq(AnyWord)
      BY <2>1, FrameFields
    <2>3. Under(frames[k].stack, stack)
      BY DEF IInv, StacksNest
    <2> QED
      BY <2>1, <2>2, <2>3, SuffixIsUnder
  <1> QED
    BY <1>1, InterruptInvariant, PTL

\* A C handler always has the kernel's data in DS, ES and FS, and a system call's
\* function its caller's data in FS, from its first instruction to its last
\* (LoadSegments of the entries, and every return into a C function).
THEOREM SegmentsAreTheKernels == Spec => []KernelSegmentsInC
  <1>1. IInv => KernelSegmentsInC
    <2> SUFFICES ASSUME IInv, at[1] \in {"do_", "sys_"}
                 PROVE  /\ regs["ds"] = KernelData /\ regs["es"] = KernelData
                        /\ regs["fs"] = IF at[1] = "do_" THEN KernelData ELSE UserData
      BY DEF KernelSegmentsInC
    <2>1. ~Lost /\ at # Kernel
      <3>1. Kernel[1] = "kernel" /\ Word("wild", "nowhere", 1)[1] = "wild"
        BY DEF Kernel, Word
      <3> QED
        BY <3>1 DEF Lost
    <2>2. PICK f \in FrameRecord : Typed(f.regs) /\ Level(ldtLoaded, f, at, regs, stack)
      <3>1. frames # <<>>
        BY <2>1 DEF IInv, Chained
      <3> QED
        BY <2>1, <3>1, TopFrame
    <2>3. Placed(f, at, regs, stack)
      BY <2>2, LevelPlace
    <2> QED
      BY <2>3 DEF Placed
  <1> QED
    BY <1>1, InterruptInvariant, PTL

\* Only the function of a system call is at an address of the table.
LEMMA FunctionPlace ==
    ASSUME NEW f, NEW ldt, NEW p, NEW r, NEW s, Level(ldt, f, p, r, s), p[1] = "sys_"
    PROVE  InFunction(ldt, f, p, r, s)
  <1>1. \A l, j : Word("code", l, j)[1] # "sys_" /\ Word("do_", l, j)[1] # "sys_"
    BY DEF Word
  <1>2. ~InStub(f, p, r, s) /\ ~InNoErrorCode(f, p, r, s) /\ ~InErrorCode(f, p, r, s)
    BY <1>1 DEF InStub, InNoErrorCode, InErrorCode
  <1>3. ~InC(f, p, r, s) /\ ~InCoprocessor(ldt, f, p, r, s) /\ ~InDevice(ldt, f, p, r, s)
    BY <1>1 DEF InC, InCoprocessor, InDevice
  <1>4. ~InReturn(ldt, f, p, r, s) /\ ~InSysCall(ldt, f, p, r, s) /\ ~InBadCall(ldt, f, p, r, s)
    BY <1>1 DEF InReturn, InSysCall, InBadCall
  <1>5. ~InParallel(f, p, r, s) /\ ~InIrq13(f, p, r, s) /\ ~InIgnoreInt(f, p, r, s)
    BY <1>1 DEF InParallel, InIrq13, InIgnoreInt
  <1> QED
    BY <1>2, <1>3, <1>4, <1>5 DEF Level

\* The function of a system call finds the arguments that its caller put into
\* the registers, in their order, from its first instruction to its last and
\* after every interrupt in between (the pushes of sys_call).
THEOREM ArgumentsArrive == Spec => []ArgumentsInPlace
  <1>1. IInv => ArgumentsInPlace
    <2> DEFINE f == Head(frames)
    <2> SUFFICES ASSUME IInv, at[1] = "sys_"
                 PROVE  /\ stack[2] = f.regs["ebx"] /\ stack[3] = f.regs["ecx"]
                        /\ stack[4] = f.regs["edx"]
      BY DEF ArgumentsInPlace
    <2>1. ~Lost /\ at # Kernel
      <3>1. Kernel[1] = "kernel" /\ Word("wild", "nowhere", 1)[1] = "wild"
        BY DEF Kernel, Word
      <3> QED
        BY <3>1 DEF Lost
    <2>2. f \in FrameRecord /\ Typed(f.regs) /\ Level(ldtLoaded, f, at, regs, stack)
      <3>1. frames # <<>>
        BY <2>1 DEF IInv, Chained
      <3> QED
        BY <2>1, <3>1, TopFrame
    <2> HIDE DEF f
    <2>3. InFunction(ldtLoaded, f, at, regs, stack)
      BY <2>2, FunctionPlace
    <2>4. Slots(f, stack, CallSlots(f), 8) /\ f.handler = "sys_call"
      BY <2>3 DEF InFunction, IsCall
    <2>5. /\ CallSlots(f)[7] = {f.regs["ebx"]} /\ CallSlots(f)[6] = {f.regs["ecx"]}
          /\ CallSlots(f)[5] = {f.regs["edx"]}
      <3>1. \A i \in 5..7 : CallSlots(f)[i] = SysSlot(f, i)
        BY DEF CallSlots, SysSlots
      <3>2. \A i \in 5..7 : SysSlot(f, i) = {Final(f)[SysRegs[i]]}
        BY <2>4 DEF SysSlot, Unfinished
      <3>3. SysRegs[5] = "edx" /\ SysRegs[6] = "ecx" /\ SysRegs[7] = "ebx"
        BY DEF SysRegs
      <3>4. \A x \in {"ebx", "ecx", "edx"} : Final(f)[x] = f.regs[x]
        BY <2>2, <2>4 DEF Final, Typed, Regs, GeneralRegs
      <3> QED
        BY <3>1, <3>2, <3>3, <3>4
    <2> DEFINE n == Len(f.stack)
    <2>6. n \in Nat
      BY <2>2, FrameFields
    <2>7. Len(stack) = n + 11
      BY <2>4, <2>6 DEF Slots
    <2>8. \A i \in 5..7 : Cell(stack, n + 3 + i) \in CallSlots(f)[i]
      <3>1. \A i \in 1..8 : Cell(stack, n + 3 + i) \in CallSlots(f)[i]
        BY <2>4 DEF Slots
      <3>2. \A i \in 5..7 : i \in 1..8
        OBVIOUS
      <3> QED
        BY <3>1, <3>2, Zenon
    <2> HIDE DEF n
    <2>9. \A i \in 5..7 : Cell(stack, n + 3 + i) = stack[9 - i]
      BY <2>6, <2>7 DEF Cell
    <2> QED
      BY <2>5, <2>8, <2>9
  <1> QED
    BY <1>1, InterruptInvariant, PTL

\* Only an iret ends a handler: the one that came in last comes back, or is one
\* of those that do not.
LEMMA OnlyIretEnds ==
    ASSUME IInv, [Next]_vars, Len(frames') < Len(frames)
    PROVE  Head(frames) = frames[1] /\ (Comes(frames[1]) \/ Ends(frames[1]))
  <1>1. Len(frames) \in Nat
    BY DEF IInv, MachineOK
  <1>2. ASSUME NEW v, NEW h, NEW keeps, NEW r, EnterVia(v, h, keeps, r) PROVE FALSE
    <2> DEFINE g == [handler |-> h, regs |-> r, stack |-> stack, at |-> at, intFlag |-> intFlag]
    <2>1. frames' = <<g>> \o frames
      BY <1>2 DEF EnterVia
    <2> HIDE DEF g
    <2>2. Len(frames') = 1 + Len(frames)
      BY <2>1 DEF IInv, MachineOK
    <2> QED
      BY <1>1, <2>2
  <1>3. frames' # frames
    BY <1>1
  <1>4. Step
    BY <1>2, <1>3 DEF Next, vars, Trap, Interrupt, SystemCall, Enter, TakeResult
  <1>5. ~FaultsHere
    BY <1>2 DEF FaultsHere, Enter
  <1>6. ~Moves(frames[1]) /\ ~Strays(frames[1])
    BY <1>3 DEF Moves, Strays
  <1> QED
    BY <1>4, <1>5, <1>6, StepOfTop, TopFrame

\* Every handler but the unfinished ones and sys_call puts back every register,
\* the stack, the flag and the instruction it interrupted, however often it is
\* interrupted itself (no_error_code, error_code, parallel_interrupt, and
\* device_not_available where there is an LDT).
THEOREM HandlersReturnExactly == Spec => ReturnsExactly
  <1>1. IInv /\ [Next]_vars =>
           [LET f == Head(frames) IN
            Len(frames') < Len(frames) /\ f.handler \notin Unfinished \cup {"sys_call"} =>
               /\ at' = f.at /\ regs' = f.regs
               /\ stack' = f.stack /\ intFlag' = f.intFlag]_vars
    BY OnlyIretEnds DEF Comes, Ends, Final
  <1> QED
    BY <1>1, InterruptInvariant, PTL DEF Spec, ReturnsExactly

\* A call of any number reaches the function that unistd.h gives this number to,
\* and its caller finds the answer in EAX and everything else unchanged.
THEOREM CallsAreAnswered == Spec => CallsReachTheirFunction
  <1>1. IInv /\ [Next]_vars =>
           [LET f == Head(frames) IN
            Len(frames') < Len(frames) /\ f.handler = "sys_call" =>
               /\ at' = f.at /\ stack' = f.stack /\ intFlag' = f.intFlag
               /\ regs' = [f.regs EXCEPT !["eax"] = Answer(f.regs["eax"][3])]]_vars
    BY OnlyIretEnds DEF Comes, Ends, Final, Unfinished
  <1> QED
    BY <1>1, InterruptInvariant, PTL DEF Spec, CallsReachTheirFunction

\* No unfinished handler ever goes on anywhere: its iret always finds another word
\* than flags where the flags should be (ignore_int, coprocessor_error, irq13).
THEOREM UnfinishedNeverReturn == Spec => UnfinishedAreLost
  <1>1. IInv /\ [Next]_vars =>
           [Len(frames') < Len(frames) /\ Head(frames).handler \in Unfinished
            => at'[1] = "wild"]_vars
    <2>1. Word("wild", "nowhere", 1)[1] = "wild"
      BY DEF Word
    <2> QED
      BY <2>1, OnlyIretEnds DEF Comes, Ends
  <1> QED
    BY <1>1, InterruptInvariant, PTL DEF Spec, UnfinishedAreLost

\* Without an LDT neither device_not_available nor a call of any number returns.
THEOREM LdtIsNeeded == Spec => NoReturnWithoutLdt
  <1>1. IInv /\ [Next]_vars =>
           [Len(frames') < Len(frames) /\ ~ldtLoaded
            => Head(frames).handler \notin {"device_not_available", "sys_call"}]_vars
    BY OnlyIretEnds DEF Comes, Ends, Unfinished
  <1> QED
    BY <1>1, InterruptInvariant, PTL DEF Spec, NoReturnWithoutLdt
=============================================================================
