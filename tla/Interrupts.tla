----------------------------- MODULE Interrupts -----------------------------
(***************************************************************************)
(* The interrupt and exception entries of kernel/asm.asm and               *)
(* kernel/sys_call.asm, as trap_init of kernel/traps.c installs them over  *)
(* the ignore_int gates of boot/head.asm.                                  *)
(*                                                                         *)
(* The routines are run instruction by instruction on a machine with a     *)
(* stack, the registers they touch and the interrupt flag.  A value in a   *)
(* register or on the stack is a word <<kind, name, number>>: what matters *)
(* is where it came from.  The program that is interrupted is a part of    *)
(* the kernel; only its state is modelled.  Port output is left out: it    *)
(* changes no register.  The C handlers do nothing that shows (die is      *)
(* empty) but may change the registers a C function may change.            *)
(*                                                                         *)
(* Two things that the kernel does not have yet are assumed where its code *)
(* is written for them: an LDT, and a gate of int 0x80 that leads to       *)
(* sys_call, as the macros of unistd.h expect.                             *)
(***************************************************************************)
EXTENDS Naturals, Sequences, SequencesExt, TrapTable, SysCalls

CONSTANTS Vectors,     \* the vectors the interrupted program may raise
          Irqs,        \* the vectors that arrive between any two instructions
          Calls,       \* the numbers the program puts in EAX before int 0x80
          AddressOfNR_syscalls,  \* where the linker puts that variable
          MaxDepth     \* bound on the handlers that are active at once

\* A vector is a byte, and a call number is compared without a sign.  The
\* variable lies in the kernel's data, behind more than 87 bytes of code.
ASSUME AddressAssumption ==
    /\ Vectors \subseteq 0..255 /\ Irqs \subseteq 0..255 /\ Calls \subseteq Nat
    /\ MaxDepth \in Nat \ {0}
    /\ AddressOfNR_syscalls \in Nat /\ AddressOfNR_syscalls > NR_syscalls

Word(kind, name, n) == <<kind, name, n>>

GeneralRegs == {"eax", "ebx", "ecx", "edx", "esi", "edi", "ebp"}
SegmentRegs == {"ds", "es", "fs"}
Regs == GeneralRegs \cup SegmentRegs

KernelData == Word("selector", "0x10", 0)
UserData   == Word("selector", "0x17", 0)
KernelCode == Word("selector", "0x08", 0)

VARIABLES regs,      \* the registers
          stack,     \* the words pushed, the last one first
          at,        \* EIP: the instruction to execute
          intFlag,   \* EFLAGS.IF
          nmiMasked, \* the CPU holds NMIs back until an iret
          ldtLoaded, \* has lldt been executed?
          frames     \* history: what each active handler interrupted

vars == <<regs, stack, at, intFlag, nmiMasked, ldtLoaded, frames>>

-----------------------------------------------------------------------------
(***************************************************************************)
(* Instructions.                                                           *)
(***************************************************************************)
Ins(op, reg, arg) == [op |-> op, reg |-> reg, arg |-> arg]

Push(r)       == Ins("push", r, 0)
PushWord(w)   == Ins("pushWord", "eax", w)
Pop(r)        == Ins("pop", r, 0)
Xchg(r, d)    == Ins("xchg", r, d)       \* with the word d places down the stack
Lea(r, d)     == Ins("lea", r, d)
Mov(r, w)     == Ins("mov", r, w)
MovReg(r, r2) == Ins("movReg", r, r2)
Call(r)       == Ins("call", r, 0)
CallTable(r)  == Ins("callTable", r, 0)
JumpFrom(r, n, label) == Ins("jumpFrom", r, <<n, label>>)   \* cmp and jae
Skip          == Ins("skip", "eax", 0)   \* add esp, 4
Jmp(label)    == Ins("jmp", "eax", label)
CBody         == Ins("c", "eax", Word("scratch", "c", 0))
CReturns(w)   == Ins("c", "eax", w)
Ret           == Ins("ret", "eax", 0)
Iret          == Ins("iret", "eax", 0)

Pushes(rs) == [i \in DOMAIN rs |-> Push(rs[i])]
Pops(rs)   == [i \in DOMAIN rs |-> Pop(rs[i])]

Addr(label) == Word("code", label, 1)
CFunction(label) == Word("do_", label, 1)

\* (Slip: FS is left alone.)
LoadSegmentsNotFs(fsSelector) ==
    <<Mov("edx", KernelData), MovReg("ds", "edx"), MovReg("es", "edx")>>

\* mov dx, 0x10 and the loads of the segment registers.
LoadSegments(fsSelector) ==
    <<Mov("edx", KernelData), MovReg("ds", "edx"), MovReg("es", "edx"),
      Mov("edx", fsSelector), MovReg("fs", "edx")>>

-----------------------------------------------------------------------------
(***************************************************************************)
(* The routines.                                                           *)
(***************************************************************************)
NoErrorStubs == {"divide_error", "debug", "nmi", "int3", "overflow", "bounds",
                 "invalid_op", "coprocessor_segment_overrun", "reserved"}
ErrorStubs   == {"double_fault", "invalid_TSS", "segment_not_present",
                 "stack_segment", "general_protection", "alignment_check"}

Below == <<"edi", "esi", "ebp", "ds", "es", "fs">>

\* (Slip: EBP comes back before the segment registers.)
PopFrameEarlyEbp ==
    Pops(<<"fs", "es", "ebp", "ds", "esi", "edi", "edx", "ecx", "ebx", "eax">>) \o <<Iret>>

\* The way back of no_error_code and error_code.
PopFrame == Pops(Reverse(<<"eax", "ebx", "ecx", "edx">> \o Below)) \o <<Iret>>

\* (Slip: EAX is exchanged with the word beyond the interrupt frame.)
no_error_codeBeyond ==
    <<Xchg("eax", 4)>> \o Pushes(<<"ebx", "ecx", "edx">> \o Below) \o PopFrame

no_error_code ==
    <<Xchg("eax", 0)>> \o Pushes(<<"ebx", "ecx", "edx">> \o Below)
    \o <<Lea("edx", 11), MovReg("edi", "edx"), Mov("esi", Word("number", "0", 0))>>
    \o LoadSegments(KernelData)
    \o <<MovReg("ebx", "eax"), Call("ebx")>> \o PopFrame

\* (Slip: the pushed error code is not replaced but left below the frame.)
error_codeLeft ==
    <<Xchg("ebx", 0)>> \o Pushes(<<"eax", "ecx", "edx">> \o Below)
    \o <<MovReg("esi", "eax"), Lea("eax", 11), MovReg("edi", "eax")>>
    \o LoadSegments(KernelData) \o <<Call("ebx")>>
    \o Pops(Reverse(<<"ebx", "eax", "ecx", "edx">> \o Below)) \o <<Iret>>

error_code ==
    <<Xchg("eax", 1), Xchg("ebx", 0)>> \o Pushes(<<"ecx", "edx">> \o Below)
    \o <<MovReg("esi", "eax"), Lea("eax", 11), MovReg("edi", "eax")>>
    \o LoadSegments(KernelData) \o <<Call("ebx")>> \o PopFrame

irq13 == <<Push("eax"), Mov("eax", Word("number", "0x20", 0)), Pop("eax"),
           Jmp("coprocessor_error")>>

\* What .3 does; the tests of CS and SS before it end there on both ways.
ret_from_sys_call == Pops(<<"eax", "ebx", "ecx", "edx">>) \o <<Skip>>
                     \o Pops(<<"fs", "es", "ds">>) \o <<Iret>>

\* (Slip: FS gets the kernel's data.)
SysCallFrameKernelFs ==
    Pushes(<<"ds", "es", "fs">>) \o <<PushWord(Word("number", "-1", 0))>>
    \o Pushes(<<"edx", "ecx", "ebx", "eax">>) \o LoadSegments(KernelData)
    \o <<PushWord(Addr("ret_from_sys_call"))>>

\* The frame of sys_call, and the address that device_not_available returns to.
SysCallFrame ==
    Pushes(<<"ds", "es", "fs">>) \o <<PushWord(Word("number", "-1", 0))>>
    \o Pushes(<<"edx", "ecx", "ebx", "eax">>) \o LoadSegments(UserData)
    \o <<PushWord(Addr("ret_from_sys_call"))>>

device_not_available == SysCallFrame \o <<Ret>>

\* (Slip: the three arguments are pushed in the order of the other routines.)
sys_callSwapped ==
    Pushes(<<"ds", "es", "fs", "eax", "ebx", "ecx", "edx">>) \o LoadSegments(UserData)
    \o <<JumpFrom("eax", AddressOfNR_syscalls, "bad_sys_call"), CallTable("eax"),
         Push("eax")>> \o ret_from_sys_call

\* (Slip: the three arguments are pushed, and popped, in the other order.)
sys_callMirrored ==
    Pushes(<<"ds", "es", "fs", "eax", "ebx", "ecx", "edx">>) \o LoadSegments(UserData)
    \o <<JumpFrom("eax", AddressOfNR_syscalls, "bad_sys_call"), CallTable("eax"),
         Push("eax")>>
    \o Pops(<<"eax", "edx", "ecx", "ebx">>) \o <<Skip>> \o Pops(<<"fs", "es", "ds">>)
    \o <<Iret>>

\* cmp eax, NR_syscalls compares with the address of that variable.
sys_call ==
    Pushes(<<"ds", "es", "fs", "eax", "edx", "ecx", "ebx">>) \o LoadSegments(UserData)
    \o <<JumpFrom("eax", AddressOfNR_syscalls, "bad_sys_call"), CallTable("eax"),
         Push("eax")>> \o ret_from_sys_call

ENOSYS == Word("number", "-38", 0)

bad_sys_call == <<PushWord(ENOSYS), Jmp("ret_from_sys_call")>>

\* (Slip: the routine returns as device_not_available does.)
coprocessor_errorReturns == SysCallFrame \o <<Ret>>

\* The jump to math_error is commented out: the code runs on.
coprocessor_error == SysCallFrame \o <<Jmp("device_not_available")>>

parallel_interrupt == <<Push("eax"), Mov("eax", Word("number", "0x20", 0)),
                        Pop("eax"), Iret>>

ignore_int ==
    Pushes(<<"eax", "ecx", "edx", "ds", "es", "fs">>)
    \o <<Mov("eax", KernelData), MovReg("ds", "eax"), MovReg("es", "eax"),
         MovReg("fs", "eax"), PushWord(Word("address", "int_msg", 0)), Pop("eax")>>
    \o Pushes(<<"fs", "es", "ds", "edx", "ecx", "eax">>) \o <<Iret>>

Routines == [no_error_code |-> no_error_code, error_code |-> error_code,
             irq13 |-> irq13, ret_from_sys_call |-> ret_from_sys_call,
             device_not_available |-> device_not_available,
             coprocessor_error |-> coprocessor_error,
             sys_call |-> sys_call, bad_sys_call |-> bad_sys_call,
             parallel_interrupt |-> parallel_interrupt, ignore_int |-> ignore_int]

\* The empty functions of sys.c return what happens to be in EAX; here it tells
\* which of them was called.  Their arguments they leave where they are.
Result(f) == Word("result", f, 0)

sys_(f) == IF f \in AssemblerCalls THEN <<Ret>> ELSE <<CReturns(Result(f)), Ret>>

\* The code at an address, <<>> where there is none of these routines.
Code(address) ==
    LET label == address[2] IN
    IF address[1] = "do_" THEN <<CBody, Ret>>
    ELSE IF address[1] = "sys_" THEN sys_(label)
    ELSE IF address[1] # "code" THEN <<>>
    ELSE IF label \in NoErrorStubs THEN <<PushWord(CFunction(label)), Jmp("no_error_code")>>
    ELSE IF label \in ErrorStubs THEN <<PushWord(CFunction(label)), Jmp("error_code")>>
    ELSE IF label \in DOMAIN Routines THEN Routines[label]
    ELSE <<>>

-----------------------------------------------------------------------------
(***************************************************************************)
(* The CPU.                                                                *)
(***************************************************************************)
Flags(b) == Word("eflags", IF b THEN "on" ELSE "off", 0)

\* The exceptions for which the CPU pushes an error code.
HasErrorCode(v) == v \in {8, 10, 11, 12, 13, 14, 17}

Kernel == Word("kernel", "program", 1)

With(r, w) == [regs EXCEPT ![r] = w]

Running == at = Kernel \/ Len(Code(at)) >= at[3]

\* The words of the interrupted program are told apart by their registers.  The
\* kernel as it is never loads an LDT; the frame of sys_call is written for a
\* task that has one, and in a system call FS selects that task's data.
Init ==
    /\ ldtLoaded \in BOOLEAN
    /\ \E fs \in IF ldtLoaded THEN {KernelData, UserData} ELSE {KernelData} :
         regs = [r \in Regs |-> IF r = "fs" THEN fs
                                ELSE IF r \in SegmentRegs THEN KernelData
                                ELSE Word("value", r, 0)]
    /\ stack = <<Word("value", "stack", 0)>>
    /\ at = Kernel
    /\ intFlag = TRUE
    /\ nmiMasked = FALSE
    /\ frames = <<>>

\* The CPU enters a handler by the gate of vector v.
EnterVia(v, handler, keepsFlag, registers) ==
    /\ frames' = <<[handler |-> handler, regs |-> registers, stack |-> stack, at |-> at,
                   intFlag |-> intFlag]>>
                 \o frames
    /\ regs' = registers
    /\ stack' = (IF HasErrorCode(v) THEN <<Word("error", "code", 0)>> ELSE <<>>)
                \o <<at, KernelCode, Flags(intFlag)>> \o stack
    /\ at' = Addr(handler)
    /\ intFlag' = (intFlag /\ keepsFlag)
    /\ nmiMasked' = (nmiMasked \/ v = 2)
    /\ UNCHANGED ldtLoaded

Enter(v) == EnterVia(v, Gate(v), TrapGate(v), regs)

InProgram == at = Kernel /\ regs["eax"][1] = "value"

\* An exception of the interrupted program.
Trap(v) == InProgram /\ Enter(v)

\* A macro _syscall of unistd.h: the number in EAX, the arguments in the other
\* registers, int 0x80.  The gate would be one of set_system_gate.
SystemCall(n) ==
    InProgram /\ EnterVia(128, "sys_call", TRUE, With("eax", Word("call", "number", n)))

\* The macro takes its result out of EAX.
TakeResult ==
    /\ at = Kernel /\ ~InProgram
    /\ regs' = With("eax", Word("value", "eax", 0))
    /\ UNCHANGED <<stack, at, intFlag, nmiMasked, ldtLoaded, frames>>

\* An interrupt from outside.
Interrupt(v) ==
    /\ Running /\ Len(frames) < MaxDepth
    /\ IF v = 2 THEN ~nmiMasked ELSE intFlag
    /\ Enter(v)

\* A segment register cannot be loaded from a table that is not there.
Faults(i) == /\ i.op = "movReg" /\ i.reg \in SegmentRegs
             /\ regs[i.arg] = UserData /\ ~ldtLoaded

Following == <<at[1], at[2], at[3] + 1>>

Goes(to, r, s) ==
    /\ at' = to /\ regs' = r /\ stack' = s
    /\ UNCHANGED <<intFlag, nmiMasked, ldtLoaded, frames>>

\* The word of sys_call_table that a number selects; behind its end lies
\* something else.
Entry(n) == IF n < NR_syscalls THEN Word("sys_", FunctionOf(n), 1)
            ELSE Word("wild", "nowhere", 1)

\* Where iret leads: to the address on the stack if it stands in an interrupt
\* frame, otherwise nowhere that is known.
Returns ==
    IF stack[2] = KernelCode /\ stack[3][1] = "eflags" THEN stack[1]
    ELSE Word("wild", "nowhere", 1)

Execute(i) ==
    \/ /\ i.op = "push" /\ Goes(Following, regs, <<regs[i.reg]>> \o stack)
    \/ /\ i.op = "pushWord" /\ Goes(Following, regs, <<i.arg>> \o stack)
    \/ /\ i.op = "pop" /\ Goes(Following, With(i.reg, Head(stack)), Tail(stack))
    \/ /\ i.op = "skip" /\ Goes(Following, regs, Tail(stack))
    \/ /\ i.op = "xchg"
       /\ Goes(Following, With(i.reg, stack[i.arg + 1]), [stack EXCEPT ![i.arg + 1] = regs[i.reg]])
    \/ /\ i.op = "lea"
       /\ Goes(Following, With(i.reg, Word("slot", "stack", Len(stack) - i.arg)), stack)
    \/ /\ i.op = "mov" /\ Goes(Following, With(i.reg, i.arg), stack)
    \/ /\ i.op = "movReg" /\ Goes(Following, With(i.reg, regs[i.arg]), stack)
    \/ /\ i.op = "jmp" /\ Goes(Addr(i.arg), regs, stack)
    \/ /\ i.op = "call" /\ Goes(regs[i.reg], regs, <<Following>> \o stack)
    \/ /\ i.op = "callTable"
       /\ Goes(Entry(regs[i.reg][3]), regs, <<Following>> \o stack)
    \/ /\ i.op = "jumpFrom"
       /\ Goes(IF regs[i.reg][3] >= i.arg[1] THEN Addr(i.arg[2]) ELSE Following, regs, stack)
    \/ /\ i.op = "ret" /\ Goes(Head(stack), regs, Tail(stack))
    \/ /\ i.op = "c"
       /\ Goes(Following, [r \in Regs |-> IF r = "eax" THEN i.arg
                                         ELSE IF r \in {"ecx", "edx"}
                                         THEN Word("scratch", "c", 0) ELSE regs[r]], stack)
    \/ /\ i.op = "iret"
       /\ at' = Returns
       /\ stack' = SubSeq(stack, 4, Len(stack))
       /\ intFlag' = (stack[3] = Flags(TRUE))
       /\ nmiMasked' = FALSE
       /\ frames' = Tail(frames)
       /\ UNCHANGED <<regs, ldtLoaded>>

\* One instruction of a handler.
Step ==
    /\ at # Kernel /\ Running
    /\ LET i == Code(at)[at[3]] IN IF Faults(i) THEN Enter(13) ELSE Execute(i)

Next == \/ \E v \in Vectors : Trap(v)
        \/ \E v \in Irqs : Interrupt(v)
        \/ \E n \in Calls : SystemCall(n)
        \/ TakeResult \/ Step

Spec == Init /\ [][Next]_vars

-----------------------------------------------------------------------------
(***************************************************************************)
(* Properties.                                                             *)
(***************************************************************************)
\* Segment registers hold selectors, whatever is pushed and popped in between,
\* and execution is at an instruction of a routine or lost.
TypeOK ==
    /\ DOMAIN regs = Regs
    /\ \A s \in SegmentRegs : regs[s][1] = "selector"
    /\ Running \/ at[1] = "wild"
    /\ intFlag \in BOOLEAN /\ nmiMasked \in BOOLEAN /\ ldtLoaded \in BOOLEAN
    /\ Len(frames) \in 0..MaxDepth + 1

\* The routines that do not come back: ignore_int pushes where it should pop,
\* coprocessor_error runs on into device_not_available and leaves a second
\* frame, and irq13 ends in coprocessor_error.
Unfinished == {"ignore_int", "coprocessor_error", "irq13"}

\* Every other handler returns to the instruction it interrupted, with every
\* register, the stack and the interrupt flag as they were: also with an error
\* code on the stack, and when it was itself interrupted between any two
\* instructions (asm.asm, sys_call.asm, the gates of trap_init).
ReturnsExactly ==
    [][LET f == Head(frames) IN
       Len(frames') < Len(frames) /\ f.handler \notin Unfinished \cup {"sys_call"} =>
           /\ at' = f.at /\ regs' = f.regs
           /\ stack' = f.stack /\ intFlag' = f.intFlag]_vars

\* What a call of number n finds in EAX: the result of the function to which
\* unistd.h gives this number, or the number where sys_call.asm has but a ret.
Answer(n) ==
    IF n >= NR_syscalls THEN ENOSYS
    ELSE LET f == CHOOSE g \in DOMAIN __NR : __NR[g] = n
         IN  IF f \in AssemblerCalls THEN Word("call", "number", n) ELSE Result(f)

\* A system call goes to the function that its name in unistd.h promises, and
\* comes back with its result in EAX and everything else as it was, also when
\* it is interrupted at any instruction (sys_call, sys_call_table, __NR_*).
CallsReachTheirFunction ==
    [][LET f == Head(frames) IN
       Len(frames') < Len(frames) /\ f.handler = "sys_call" =>
           /\ at' = f.at /\ stack' = f.stack /\ intFlag' = f.intFlag
           /\ regs' = [f.regs EXCEPT !["eax"] = Answer(f.regs["eax"][3])]]_vars

\* While the function of a system call runs, its caller's EBX, ECX and EDX, where
\* the macros of unistd.h put the three arguments, lie behind the return address
\* in the order of C's first, second and third (the pushes of sys_call), also
\* after an interrupt inside the function.
ArgumentsInPlace ==
    at[1] = "sys_" =>
        LET f == Head(frames) IN
        <<stack[2], stack[3], stack[4]>> = <<f.regs["ebx"], f.regs["ecx"], f.regs["edx"]>>

\* The iret of an unfinished handler leads nowhere: none of them goes on in the
\* interrupted program, or in a handler, with wrong registers (coprocessor_error
\* without its jump to math_error, ignore_int).
UnfinishedAreLost ==
    [][Len(frames') < Len(frames) /\ Head(frames).handler \in Unfinished
         => at'[1] = "wild"]_vars

\* No handler disturbs the stack below the point where it came in: neither the
\* interrupted program's nor that of a handler it interrupts (xchg with [esp]
\* and [esp+4], the pops of the return paths).
StackBelowIntact ==
    \A k \in DOMAIN frames : IsSuffix(frames[k].stack, stack)

\* The C handlers run on the kernel's data segments, whatever selectors the
\* interrupted code or an interrupted handler had loaded, and a system call has
\* its caller's data in FS (no_error_code, error_code, sys_call).
KernelSegmentsInC ==
    at[1] \in {"do_", "sys_"} =>
        /\ regs["ds"] = KernelData /\ regs["es"] = KernelData
        /\ regs["fs"] = IF at[1] = "do_" THEN KernelData ELSE UserData

\* Without an LDT neither device_not_available nor a system call comes back: the
\* load of FS with 0x17 faults, do_general_protection does nothing, and the same
\* load faults again (sys_call.asm, die of traps.c).
NoReturnWithoutLdt ==
    [][Len(frames') < Len(frames) /\ ~ldtLoaded
         => Head(frames).handler \notin {"device_not_available", "sys_call"}]_vars

\* "So we don't have to do any more manual updating...." (sys.c, NR_syscalls): a
\* number that the table does not have is refused, and nothing is called.
OnlyTheTableIsCalled == at = Word("wild", "nowhere", 1) => frames = <<>>

\* "put the dummy int_descriptor into idt" (head.asm, setup_idt): an interrupt
\* nobody handles is ignored, and the interrupted program goes on.
DummyReturns ==
    [][LET f == Head(frames) IN
       Len(frames') < Len(frames) /\ f.handler = "ignore_int" => at' = f.at]_vars
=============================================================================
