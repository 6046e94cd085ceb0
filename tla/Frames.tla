------------------------------- MODULE Frames -------------------------------
(***************************************************************************)
(* What an interrupt, a system call and resched_no_int put on a stack, and *)
(* how a thread is resumed from it: the stubs of boot.asm, the record      *)
(* isr_stack_kernel_t through which C reads the stack, the frames thr_new  *)
(* and resched_no_int build by hand, thr_switch and thr_run.               *)
(*                                                                         *)
(* Module Preempt takes for granted that a context, once saved, comes back *)
(* as it was.  Here it is words on a stack.  A word is a pair of what it   *)
(* is and a number; a stack is the sequence of words pushed on it.  Stack  *)
(* pointers are depths.  No interrupt comes between the first push of       *)
(* resched_no_int and the switch, though they may be on there: what such   *)
(* interrupts do is Preempt's question.                                    *)
(*                                                                         *)
(* The asm statement of resched_no_int overwrites eax without telling the  *)
(* compiler, which may put &resched there; the call then goes to the stack.*)
(* The model is of builds in which resched is called.                      *)
(***************************************************************************)
EXTENDS Gdt

CONSTANTS
    Threads,      \* numbers
    Main,         \* the thread that boot turns into
    Raised,       \* the vectors of the interrupts and exceptions that come
    Calls         \* system calls the threads make: the call's number and its arguments

ASSUME FramesAssumption ==
    /\ Main \in Threads /\ Threads \subseteq Nat
    /\ Raised \subseteq Vectors \ {128}
    /\ \A call \in Calls : call \in Seq(Nat) /\ Len(call) \in 1 .. 6

VARIABLES
    regs,         \* the CPU's registers but for esp
    stacks,       \* the stack of each thread
    stack_of,     \* whose stack esp is on; esp is that stack's length
    kstack_ptr,   \* as in thread_t: a stack and a depth
    thr_current,
    phase,        \* "run", "handler" or "resched" in C with a frame, "leave", "halted"
    vector,       \* which interrupt is handled
    before        \* ghost: each thread's registers and stack when it ran last

framesVars == <<regs, stacks, stack_of, kstack_ptr, thr_current, phase, vector, before>>

General == {"eax", "ecx", "edx", "ebx", "ebp", "esi", "edi"}
DataSegments == {"ds", "es", "fs", "gs"}
Registers == General \cup DataSegments \cup {"eip", "cs", "eflags", "ss"}
Num(n) == <<"num", n>>
Junk == <<"junk", 0>>
Sel(index) == <<"sel", GDT_SEG_DESCRIPTOR(index, 0)>>
Flags(if) == <<"eflags", if>>
stack == stacks[stack_of]

-----------------------------------------------------------------------------
(* interrupt_enter pushes the registers, loads the kernel's data segment    *)
(* and pushes the depth it has reached, the argument of the C function.    *)
PUSHA == <<"eax", "ecx", "edx", "ebx", "esp", "ebp", "esi", "edi">>
Pushed(s, r) ==
    LET all == s \o [k \in DOMAIN PUSHA |-> IF PUSHA[k] = "esp" THEN <<"esp", Len(s)>> ELSE r[PUSHA[k]]]
                 \o <<r.ds, r.es, r.fs, r.gs>>
    IN  Append(all, <<"esp", Len(all)>>)
KernelData(r) == [n \in DOMAIN r |-> IF n \in DataSegments THEN Sel(GDT_INDEX_KERN_DATA) ELSE r[n]]

(* The CPU pushes an error code for some exceptions; the stub pushes a zero *)
(* in its place for the exceptions it takes to have none, and its number.  *)
HasErrorCode == {8, 10, 11, 12, 13, 14, 17}
Error(v) == IF v \in HasErrorCode THEN <<<<"error", v>>>> ELSE <<>>
isr_params == {8, 10, 11, 12, 13, 14}
StubNumber(v) == CASE v \in 32 .. 39 -> v - 32 [] v \in 41 .. 48 -> v - 33 [] OTHER -> v
\* Bug: every stub pushes the zero.
StubNoParams(v) == <<Num(0), Num(StubNumber(v))>>
Stub(v) == (IF v \in isr_params THEN <<>> ELSE <<Num(0)>>) \o <<Num(StubNumber(v))>>

(* isr_stack_kernel_t, its fields from the lowest address, where the last   *)
(* word was pushed.  `at' is the pointer a C function was given.           *)
isr_stack_kernel_t == <<"gs", "fs", "es", "ds", "edi", "esi", "ebp", "esp", "ebx", "edx", "ecx", "eax",
                        "int_no", "err_code", "eip", "cs", "eflags">>
Field(s, at, field) == s[at + 1 - SelectInSeq(isr_stack_kernel_t, LAMBDA f : f = field)]
Argument(s) == Last(s)[2]

\* interrupt_leave and iret, from a stack whose last word is the argument.
Popped == General \cup DataSegments \cup {"eip", "cs", "eflags"}
interrupt_leave(s, r) == [n \in DOMAIN r |-> IF n \in Popped THEN Field(s, Len(s) - 1, n) ELSE r[n]]
\* Bug: drops one of the two words between the registers and what iret takes.
LeftOneWord(s) == SubSeq(s, 1, Len(s) - Len(isr_stack_kernel_t))
Left(s) == SubSeq(s, 1, Len(s) - 1 - Len(isr_stack_kernel_t))

(* What a new thread is to begin with, and the frame that thr_new writes    *)
(* field by field, with a word in front of it for the argument.            *)
NewRegs(t) ==
    [n \in Registers |-> CASE n \in General -> Num(0)
                           [] n \in DataSegments -> Sel(GDT_INDEX_USER_DATA)
                           [] n = "eip" -> <<"start", t>>
                           [] n = "cs" -> Sel(GDT_INDEX_USER_CODE)
                           [] n = "eflags" -> Flags(1)
                           [] n = "ss" -> Sel(GDT_INDEX_KERN_DATA)]
thr_new(t) ==
    LET value(f) == CASE f \in {"int_no", "err_code"} -> Num(0)
                      [] f \in DataSegments -> Sel(GDT_INDEX_USER_DATA)
                      [] f = "esp" -> <<"esp", 5>>
                      [] f = "eip" -> <<"start", t>>
                      [] f = "cs" -> Sel(GDT_INDEX_USER_CODE)
                      [] f = "eflags" -> Flags(1)
                      [] OTHER -> Num(0)
    IN  Append(Reverse([k \in DOMAIN isr_stack_kernel_t |-> value(isr_stack_kernel_t[k])]), Num(0))

-----------------------------------------------------------------------------
\* main after sti: the segments are those gdt_flush has loaded, 8 for the code and 16 for the rest.
gdt_flush == [n \in Registers |-> IF n = "cs" THEN <<"sel", 8>> ELSE <<"sel", 16>>]
Own(t, k, if, r) ==
    [n \in Registers |-> IF n \in General \cup {"eip"} THEN <<n, 2 * t + k>> ELSE IF n = "eflags" THEN Flags(if) ELSE r[n]]
FramesInit ==
    /\ regs = Own(Main, 0, 1, gdt_flush)
    /\ stacks = [t \in Threads |-> IF t = Main THEN <<>> ELSE thr_new(t)]
    /\ stack_of = Main /\ thr_current = Main
    /\ kstack_ptr = [t \in Threads |-> [of |-> t, at |-> Len(stacks[t])]]
    /\ phase = "run" /\ vector = 0
    /\ before = [t \in Threads |-> [regs |-> IF t = Main THEN regs ELSE NewRegs(t), stack |-> <<>>]]

\* A thread works in its registers and on its stack, and turns interrupts off and on.
Ran(r, s) == before' = [before EXCEPT ![thr_current] = [regs |-> r, stack |-> s]]
Work ==
    /\ phase = "run"
    /\ \E k \in 0 .. 1, if \in 0 .. 1 :
          LET r == Own(thr_current, k, if, regs)
              s == IF k = 1 THEN <<<<"data", thr_current>>>> ELSE <<>>
          IN  regs' = r /\ stacks' = [stacks EXCEPT ![stack_of] = s] /\ Ran(r, s)
    /\ UNCHANGED <<stack_of, kstack_ptr, thr_current, phase, vector>>

\* An interrupt, with these registers: what the CPU does by its gate, the stub and interrupt_enter.
Enter(v, r) ==
    LET gate == Gate(v)
    IN  /\ gate.present
        /\ stacks' = [stacks EXCEPT ![stack_of] = Pushed(@ \o <<r.eflags, r.cs, r.eip>> \o Error(v) \o Stub(v), r)]
        /\ regs' = [KernelData(r) EXCEPT !.eflags = IF gate.masks THEN Flags(0) ELSE r.eflags,
                                         !.cs = <<"sel", gate.sel>>,
                                         !.eip = <<"isr", CHOOSE w \in Vectors : isr(w) = gate.offset>>]
        /\ phase' = "handler" /\ vector' = v
        /\ UNCHANGED <<stack_of, kstack_ptr, thr_current>>

Interrupt ==
    /\ phase = "run"
    /\ \E v \in Raised : (v < 32 \/ regs.eflags = Flags(1)) /\ Enter(v, regs)
    /\ UNCHANGED before

\* syscall_0 to syscall_5: the call's number and its arguments in these registers, then int 0x80.
SyscallRegs == <<"eax", "ebx", "ecx", "edx", "esi", "edi">>
Loaded(call, r) ==
    LET at(n) == SelectInSeq(SyscallRegs, LAMBDA m : m = n)
    IN  [n \in Registers |-> IF at(n) \in DOMAIN call THEN Num(call[at(n)]) ELSE r[n]]
Syscall ==
    /\ phase = "run"
    /\ \E call \in Calls :
          LET r == Loaded(call, regs)
          IN  Enter(128, r) /\ Ran(r, stack)

(* resched_no_int imitates an interrupt that returns behind its call of     *)
(* resched, and pushes no error code for itself but two zeros.  Interrupts  *)
(* are as the caller has them and stay so.                                 *)
Block ==
    /\ phase = "run"
    /\ LET r == [regs EXCEPT !.eip = <<"behind resched", thr_current>>]
       IN  /\ stacks' = [stacks EXCEPT ![stack_of] = Pushed(@ \o <<r.eflags, r.cs, r.eip, Num(0), Num(0)>>, r)]
           /\ regs' = [KernelData(r) EXCEPT !.eax = <<"esp", Len(stacks'[stack_of]) - 1>>]
           /\ Ran(r, stack)
    /\ phase' = "resched"
    /\ UNCHANGED <<stack_of, kstack_ptr, thr_current, vector>>

-----------------------------------------------------------------------------
\* What the C functions read through their argument.
Read(field) == Field(stack, Argument(stack), field)

\* isr_handler names the exception and stops.
exception_messages ==
    [v \in 0 .. 31 |->
        IF v > 18 THEN "Reserved"
        ELSE <<"Division By Zero", "Debug", "Non Maskable Interrupt", "Breakpoint", "Into Detected Overflow", "Out of Bounds",
               "Invalid Opcode", "No Coprocessor", "Double Fault", "Coprocessor Segment Overrun", "Bad TSS", "Segment Not Present",
               "Stack Fault", "General Protection Fault", "Page Fault", "Unknown Interrupt", "Coprocessor Fault",
               "Alignment Check", "Machine Check">>[v + 1]]
isr_handler == exception_messages[Read("int_no")[2]]
Stops ==
    /\ phase = "handler" /\ vector < 32
    /\ phase' = "halted"
    /\ UNCHANGED <<regs, stacks, stack_of, kstack_ptr, thr_current, vector, before>>

\* irq_handler with no handler or one that returns, syscall_handler for a call there is not.  C
\* functions may overwrite three registers and their argument.
Sleeps == vector = 128 /\ Read("eax") = Num(0)
Returns ==
    /\ phase = "handler" /\ vector > 32 /\ ~Sleeps
    /\ regs' = [n \in DOMAIN regs |-> IF n \in {"eax", "ecx", "edx"} THEN Junk ELSE regs[n]]
    /\ stacks' = [stacks EXCEPT ![stack_of] = Append(Front(@), Junk)]
    /\ phase' = "leave"
    /\ UNCHANGED <<stack_of, kstack_ptr, thr_current, vector, before>>

\* thr_switch saves the stack from the argument on, thr_run takes up the next thread's; whose turn it
\* is is for module Sched.
Saved(at) == [of |-> stack_of, at |-> at + 1]
Switch ==
    /\ phase = "resched" \/ (phase = "handler" /\ (vector = 32 \/ Sleeps))
    /\ \E next \in IF phase = "handler" /\ vector = 32 THEN Threads ELSE Threads \ {thr_current} :
          LET ptrs == [kstack_ptr EXCEPT ![thr_current] = Saved(Argument(stack))]
          IN  /\ kstack_ptr' = ptrs
              /\ thr_current' = next
              /\ stack_of' = ptrs[next].of
              /\ stacks' = [stacks EXCEPT ![ptrs[next].of] = SubSeq(@, 1, ptrs[next].at)]
    /\ phase' = "leave"
    /\ UNCHANGED <<regs, vector, before>>

Leave ==
    /\ phase = "leave"
    /\ regs' = interrupt_leave(stack, regs)
    /\ stacks' = [stacks EXCEPT ![stack_of] = Left(@)]
    /\ phase' = "run" /\ vector' = 0
    /\ UNCHANGED <<stack_of, kstack_ptr, thr_current, before>>

FramesNext == Work \/ Interrupt \/ Syscall \/ Block \/ Stops \/ Returns \/ Switch \/ Leave
FramesSpec == FramesInit /\ [][FramesNext]_framesVars

-----------------------------------------------------------------------------
(* A thread that runs has its own stack as it left it and every register    *)
(* as it left it, whatever stopped it and whichever way it is resumed; a   *)
(* new one has what thr_new was to give it (boot.asm:154-228, thr.c:168-   *)
(* 213, 291-331, sched.c:21-48).                                           *)
ThreadsUndisturbed ==
    phase = "run" =>
        /\ stack_of = thr_current
        /\ regs = before[thr_current].regs
        /\ stack = before[thr_current].stack

(* A C function reads through its pointer the registers of what was         *)
(* stopped, the arguments of a system call among them, the number of the   *)
(* stub and the CPU's error code or a zero; a handler runs with interrupts *)
(* off, and resched, called from a thread, as that thread has them         *)
(* (isr.h:35-40, boot.asm:106-228, sched.c:21-48).  The CPU has an error   *)
(* code for vector 17, but never raises it in kernel mode.                 *)
FrameIsRead ==
    phase \in {"handler", "resched"} =>
        /\ \A n \in Popped : Read(n) = before[thr_current].regs[n]
        /\ phase = "handler" =>
              /\ Read("int_no") = Num(StubNumber(vector))
              /\ Read("err_code") = IF vector \in HasErrorCode THEN <<"error", vector>> ELSE Num(0)
              /\ regs.eip = <<"isr", vector>>
              /\ vector < 32 => isr_handler = exception_messages[vector]
        /\ regs.eflags = IF phase = "handler" THEN Flags(0) ELSE before[thr_current].regs.eflags

(* Whatever a segment register is loaded with, by gdt_flush, from a gate or *)
(* off a stack, names a present segment of its kind that is the whole      *)
(* memory; the TSS descriptor names tss_kernel (gdt.c:36-102, gdt.h:15-47).*)
WholeMemory(selector, type) ==
    LET segment == Segment(selector)
    IN  segment.present /\ segment.pages /\ segment.base = {} /\ segment.limit = 0 .. 19 /\ segment.type = type
SegmentsUsable ==
    /\ WholeMemory(regs.cs[2], GDT_ENTRY_TYPE_CODE_XR)
    /\ \A r \in DataSegments \cup {"ss"} : WholeMemory(regs[r][2], GDT_ENTRY_TYPE_DATA_RW)
    /\ LET tss == Segment(24)      \* gdt_flush loads 24 into the task register
       IN  tss.present /\ tss.type = GDT_ENTRY_TYPE_TSS /\ tss.base = Bits(TSS_KERNEL) /\ tss.limit = Bits(103)
=============================================================================
