-------------------------------- MODULE Irq --------------------------------
(***************************************************************************)
(* Interrupts and exceptions: lib/idt.c, lib/isr.c, lib/irq.c, the stubs of *)
(* boot.asm, and the pair of interrupt controllers as irq_remap programs   *)
(* them (fully nested, edge triggered, ended by a non-specific end of      *)
(* interrupt).                                                             *)
(*                                                                         *)
(* The CPU takes an interrupt between two instructions when interrupts are *)
(* on, so code runs on only while none can be taken.  Handlers and system  *)
(* calls run with interrupts off.                                          *)
(***************************************************************************)
EXTENDS Integers, FiniteSets

CONSTANTS
    Irqs,       \* the lines that devices raise
    Exceptions  \* the exceptions that a fault in the kernel's code may raise

(* Line 2 is where the second controller is attached.  Line 8 is the       *)
(* real-time clock, which nothing in the repository turns on: its vector,  *)
(* 40, has no entry in the IDT.                                            *)
ASSUME IrqsAssumption ==
    /\ Irqs \subseteq (0 .. 15) \ {2, 8}
    /\ Exceptions \subseteq 0 .. 31

VARIABLES
    mode,        \* "boot" before sti, "thread", "syscall", "handler" or "halted"
    requested,   \* lines with an interrupt waiting in a controller
    master_isr,  \* in service in the first controller: 0 .. 7
    slave_isr,   \* in service in the second controller: 8 .. 15
    serving,     \* in a handler, the line whose interrupt it is
    int_no       \* in a handler, the number that the stub behind the IDT entry pushed

irqVars == <<mode, requested, master_isr, slave_isr, serving, int_no>>

Slave == 8 .. 15
CASCADE == 2

LowestOf(S) == CHOOSE n \in S : \A m \in S : n <= m

(* irq_remap: IRQs 0-7 to vectors from 0x20, 8-15 to vectors from 0x28. *)
VectorOf(n) == IF n \in Slave THEN 40 + (n - 8) ELSE 32 + n

(* irq_init and the stubs: the number pushed by the stub that the IDT entry *)
(* of a vector leads to.                                                    *)
StubAt(v) == IF v < 40 THEN v - 32 ELSE v - 33

(* The entries of the IDT that isr_init, irq_init and syscall_init set, and *)
(* what each of the 256 leads to after that: idt_init has cleared the rest. *)
IsrVectors == 0 .. 31
IrqVectors == (32 .. 39) \cup (41 .. 48)
SyscallVector == 128

Idt ==
    [v \in 0 .. 255 |->
        CASE v \in IsrVectors -> "isr_handler"
          [] v \in IrqVectors -> "irq_handler"
          [] v = SyscallVector -> "syscall_handler"
          [] OTHER -> "absent"]

(* irq_handlers: what time_init, kb_init and ata_init set.                  *)
irq_handlers ==
    [n \in 0 .. 15 |->
        CASE n = 0 -> "time_irq_handler"
          [] n = 1 -> "kb_handler"
          [] n \in {14, 15} -> "ata_irq_handler"
          [] OTHER -> "none"]

Init ==
    /\ mode = "boot"
    /\ requested = {}
    /\ master_isr = {}
    /\ slave_isr = {}
    /\ serving = 0
    /\ int_no = 0

Raise(n) ==
    /\ n \notin requested
    /\ requested' = requested \cup {n}
    /\ UNCHANGED <<mode, master_isr, slave_isr, serving, int_no>>

(* sti in main *)
EnableInterrupts ==
    /\ mode = "boot"
    /\ mode' = "thread"
    /\ UNCHANGED <<requested, master_isr, slave_isr, serving, int_no>>

-----------------------------------------------------------------------------
(* A controller passes on a request that outranks all it has in service;   *)
(* lower numbers outrank higher, and the second controller's requests are  *)
(* the first one's line 2.                                                 *)
MasterLine(n) == IF n \in Slave THEN CASCADE ELSE n

Passed(n) ==
    /\ n \in requested
    /\ n \in Slave => \A m \in slave_isr : n < m
    /\ \A m \in master_isr : MasterLine(n) < m

Outranks(n, m) ==
    \/ MasterLine(n) < MasterLine(m)
    \/ MasterLine(n) = MasterLine(m) /\ n < m

(* The CPU takes the highest request that is passed on.                    *)
Accept ==
    /\ mode = "thread"
    /\ \E n \in requested :
          /\ Passed(n)
          /\ Idt[VectorOf(n)] = "irq_handler"
          /\ \A m \in requested \ {n} : Passed(m) => Outranks(n, m)
          /\ requested' = requested \ {n}
          /\ master_isr' = master_isr \cup {MasterLine(n)}
          /\ slave_isr' = IF n \in Slave THEN slave_isr \cup {n} ELSE slave_isr
          /\ serving' = n
          /\ int_no' = StubAt(VectorOf(n))
    /\ mode' = "handler"

\* Bug: the end of interrupt goes to the second controller only.
EndOfInterruptSlaveOnly(no) ==
    /\ master_isr' = IF no >= 8 \/ master_isr = {} THEN master_isr
                     ELSE master_isr \ {LowestOf(master_isr)}
    /\ slave_isr' = IF no >= 8 /\ slave_isr # {} THEN slave_isr \ {LowestOf(slave_isr)} ELSE slave_isr

(* irq_end_of_interrupt compares the number the stub pushed, 0 .. 15, with *)
(* a vector.                                                               *)
EndOfInterrupt(no) ==
    /\ master_isr' = IF master_isr = {} THEN {} ELSE master_isr \ {LowestOf(master_isr)}
    /\ slave_isr' = IF no >= 40 /\ slave_isr # {} THEN slave_isr \ {LowestOf(slave_isr)} ELSE slave_isr

(* The registers are restored from the stack, with the stub's number.       *)
Leave == mode' = "thread" /\ serving' = 0 /\ int_no' = 0

(* Bug: time_irq_handler relies on irq_handler to end the interrupt. *)
TimerHandlerNoEoi ==
    /\ mode = "handler"
    /\ irq_handlers[int_no] = "time_irq_handler"
    /\ Leave
    /\ UNCHANGED <<requested, master_isr, slave_isr>>

(* irq_handler for the timer: time_irq_handler ends the interrupt and runs *)
(* a thread, so it does not come back for irq_handler to end it.           *)
TimerHandler ==
    /\ mode = "handler"
    /\ irq_handlers[int_no] = "time_irq_handler"
    /\ EndOfInterrupt(int_no)
    /\ Leave
    /\ UNCHANGED requested

(* irq_handler otherwise: the handler, when there is one, returns.         *)
OtherHandler ==
    /\ mode = "handler"
    /\ irq_handlers[int_no] # "time_irq_handler"
    /\ EndOfInterrupt(int_no)
    /\ Leave
    /\ UNCHANGED requested

(* An exception in a thread, a system call or a handler: isr_handler names  *)
(* it on the screen and stops the CPU with interrupts off, for good.       *)
Exception ==
    /\ mode \in {"thread", "syscall", "handler"}
    /\ \E e \in Exceptions : Idt[e] = "isr_handler"
    /\ mode' = "halted"
    /\ UNCHANGED <<requested, master_isr, slave_isr, serving, int_no>>

(* int 0x80, an instruction: it is executed when no interrupt is taken.    *)
Syscall ==
    /\ mode = "thread"
    /\ Idt[SyscallVector] = "syscall_handler"
    /\ \A n \in requested : ~Passed(n)
    /\ mode' = "syscall"
    /\ UNCHANGED <<requested, master_isr, slave_isr, serving, int_no>>

SyscallEnd ==
    /\ mode = "syscall"
    /\ mode' = "thread"
    /\ UNCHANGED <<requested, master_isr, slave_isr, serving, int_no>>

Next ==
    \/ \E n \in Irqs : Raise(n)
    \/ EnableInterrupts
    \/ Accept
    \/ TimerHandler \/ OtherHandler
    \/ Syscall \/ SyscallEnd
    \/ Exception

(* Handlers and system calls end, and the CPU does not put off an interrupt *)
(* it can take.                                                             *)
Spec ==
    /\ Init /\ [][Next]_irqVars
    /\ WF_irqVars(EnableInterrupts)
    /\ WF_irqVars(Accept)
    /\ WF_irqVars(TimerHandler \/ OtherHandler)
    /\ WF_irqVars(SyscallEnd)

-----------------------------------------------------------------------------
TypeOK ==
    /\ mode \in {"boot", "thread", "syscall", "handler", "halted"}
    /\ requested \subseteq Irqs
    /\ master_isr \subseteq 0 .. 7
    /\ slave_isr \subseteq Slave
    /\ serving \in 0 .. 15
    /\ int_no \in 0 .. 15

(* time.c:115-117: "resched will never return so we must send the end of   *)
(* interrupt signal to the PIC now."  However a handler is left, the first *)
(* controller has nothing in service when it is, and so holds nothing back.*)
HandlersEndInterrupts == mode \notin {"handler", "halted"} => master_isr = {}

(* Every timer interrupt is taken, unless an exception stops the machine,   *)
(* whatever other devices do and even though the second controller's       *)
(* interrupts are never ended: what the scheduler's fairness rests on.     *)
TimerServed ==
    0 \in requested ~> (mode = "handler" /\ int_no = 0) \/ mode = "halted"
=============================================================================
