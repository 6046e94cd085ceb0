------------------------------ MODULE Preempt ------------------------------
(***************************************************************************)
(* The scheduler of module Sched with semaphore calls and context switches *)
(* taken apart.  The interrupt gates make the timer handler and the sleep  *)
(* system call atomic, but sem_wait, sem_release and resched_no_int are    *)
(* ordinary code, and nothing in the repository turns interrupts off       *)
(* around them: a timer interrupt can come between any two of their steps. *)
(* The history variable cuts keeps where one has.                          *)
(*                                                                         *)
(* A context is what an interrupt frame or resched_no_int's imitation of   *)
(* one records: whose stack it is on, where to go on, the semaphore in     *)
(* question and the one thread_t pointer that the interrupted function     *)
(* holds.  cpu is the context being executed, kctx[t] the one that         *)
(* t->kstack_ptr points to.  Each client thread loops: sem_wait, use,      *)
(* sem_release.  Memory lasts here (MemoryLasts).  Where the code would    *)
(* write through a NULL thread pointer, or resume a frame that has been     *)
(* overwritten, the model goes no further.                                 *)
(***************************************************************************)
EXTENDS Sched, FiniteSets

CONSTANT MaxCuts  \* bound on the places where interrupts come

ASSUME MaxCutsAssumption == MaxCuts \in Nat

(* No allocation fails. *)
MemoryLasts == Alloc = {TRUE}

VARIABLES
    cpu,
    kctx,
    cuts  \* history: the places inside a call where a timer interrupt came

pvars == <<vars, cpu, kctx, cuts>>

(* Inside a call: between its first test and the last change it makes.      *)
InBlock == {"mark", "pick", "save", "curr", "run"}
InWait == {"dec", "queue"} \cup InBlock
InRelease == {"rpop", "radd", "rmark", "rinc"}
InCall == InWait \cup InRelease

PInit ==
    /\ Init
    /\ cuts = {}
    /\ \E s \in Sems :
          /\ cpu = [thr |-> Main, pc |-> "idle", sem |-> s, nxt |-> NULL]
          /\ kctx = [t \in Threads |->
                        [cpu EXCEPT !.thr = t, !.pc = IF t = Main THEN "used" ELSE "idle"]]

(* The instruction at pc is executed by the thread whose context this is,   *)
(* and changes nothing but the scheduler's variables it names and the pc.   *)
Go(from, to) ==
    /\ mode = "run"
    /\ cpu.pc = from
    /\ cpu' = [cpu EXCEPT !.pc = to]
    /\ UNCHANGED cuts

(* A thread goes on through the frame that its kstack_ptr points to.  What  *)
(* it then puts on its stack overwrites the frame, so until the next switch *)
(* saves another the pointer leads to nothing that could be resumed.        *)
Resume(saved, t) ==
    /\ t # NULL
    /\ cpu' = saved[t]
    /\ kctx' = [saved EXCEPT ![t].pc = "used", ![t].nxt = NULL]

-----------------------------------------------------------------------------
Boot ==
    /\ (\E t \in Threads : NewThread(t)) \/ EnableInterrupts
    /\ UNCHANGED <<cpu, kctx, cuts>>

(* The timer interrupt. The frame it pushes is on the stack in use, and     *)
(* thr_switch stores its address in thr_current.                            *)
IrqEnter ==
    /\ cpu.pc # "used"
    /\ thr_current # NULL
    /\ TimerEnter
    /\ cuts' = IF cpu.pc \in InCall THEN cuts \cup {cpu.pc} ELSE cuts
    /\ Cardinality(cuts') <= MaxCuts
    /\ UNCHANGED <<cpu, kctx>>

IrqWake == WakeOne /\ UNCHANGED <<cpu, kctx, cuts>>

IrqExit ==
    /\ TimerExit
    /\ Resume([kctx EXCEPT ![thr_current] = cpu], thr_current')
    /\ UNCHANGED cuts

(* The sleep system call; its frame is saved like the timer's. *)
SleepCall(no, units) ==
    /\ cpu.pc = "idle"
    /\ cpu.thr # Null
    /\ Sleep(no, units)
    /\ Resume([kctx EXCEPT ![thr_current] = cpu], thr_current')
    /\ UNCHANGED cuts

-----------------------------------------------------------------------------
(* sem_wait is called. *)
WaitCall(s) ==
    /\ mode = "run"
    /\ cpu.pc = "idle"
    /\ cpu.thr # Null
    /\ cpu' = [cpu EXCEPT !.pc = "test", !.sem = s]
    /\ UNCHANGED <<vars, kctx, cuts>>

(* Bug: sem_wait lets the thread in without looking at the count. *)
WaitTestAlwaysIn ==
    /\ Go("test", "crit")
    /\ UNCHANGED <<vars, kctx>>

(* if(sem->count > 0) *)
WaitTest ==
    /\ Go("test", IF count[cpu.sem] > 0 THEN "dec" ELSE "queue")
    /\ UNCHANGED <<vars, kctx>>

(* sem->count-- *)
WaitDec ==
    /\ Go("dec", "crit")
    /\ count' = [count EXCEPT ![cpu.sem] = @ - 1]
    /\ UNCHANGED <<mode, time_ticks, thr_threads, thr_current, state, lists, kctx>>

(* list_add(&sem->wait_list, thr_current) *)
WaitQueue ==
    /\ Go("queue", "mark")
    /\ wait_list' = [wait_list EXCEPT ![cpu.sem] = Append(@, thr_current)]
    /\ UNCHANGED <<mode, time_ticks, thr_threads, thr_current, thr_ready, thr_sleep,
                   state, count, kctx>>

(* thr_current->state = THR_STATE_SEM *)
WaitMark ==
    /\ Go("mark", "pick")
    /\ state' = [state EXCEPT ![thr_current] = "SEM"]
    /\ UNCHANGED <<mode, time_ticks, thr_threads, thr_current, count, lists, kctx>>

(* list_del(list, 0): the first item, or NULL when the list is empty. *)
DelFirst(list) == IF list = <<>> THEN NULL ELSE Head(list)
Rest(list) == IF list = <<>> THEN list ELSE Tail(list)

(* resched_no_int builds a frame that returns behind its call of resched,   *)
(* which takes the first ready thread.                                      *)
WaitPick ==
    /\ mode = "run"
    /\ cpu.pc = "pick"
    /\ cpu' = [cpu EXCEPT !.pc = "save", !.nxt = DelFirst(thr_ready)]
    /\ thr_ready' = Rest(thr_ready)
    /\ UNCHANGED <<mode, time_ticks, thr_threads, thr_current, thr_sleep, state, count,
                   wait_list, kctx, cuts>>

(* Bug: thr_switch makes the new thread current before it saves the old one. *)
WaitSaveLate ==
    /\ Go("save", "curr")
    /\ kctx' = [kctx EXCEPT ![cpu.nxt] = [cpu EXCEPT !.pc = "ret", !.nxt = NULL]]
    /\ UNCHANGED vars

(* thr_switch: thr_current->kstack_ptr = the frame *)
WaitSave ==
    /\ Go("save", "curr")
    /\ kctx' = [kctx EXCEPT ![thr_current] = [cpu EXCEPT !.pc = "ret", !.nxt = NULL]]
    /\ UNCHANGED vars

(* thr_switch: thr_current = next_thr *)
WaitCurr ==
    /\ Go("curr", "run")
    /\ thr_current' = cpu.nxt
    /\ UNCHANGED <<mode, time_ticks, thr_threads, state, count, lists, kctx>>

(* thr_run: load the new thread's stack pointer and return through its frame. *)
WaitRun ==
    /\ mode = "run"
    /\ cpu.pc = "run"
    /\ Resume(kctx, cpu.nxt)
    /\ UNCHANGED <<vars, cuts>>

(* The thread was released and chosen: sem_wait returns. *)
WaitReturn == Go("ret", "crit") /\ UNCHANGED <<vars, kctx>>

-----------------------------------------------------------------------------
(* sem_release is called by the thread that uses what the semaphore guards. *)
ReleaseCall == Go("crit", "rtest") /\ UNCHANGED <<vars, kctx>>

(* Bug: sem_release counts even when a thread waits. *)
ReleaseTestCounts ==
    /\ Go("rtest", "rinc")
    /\ UNCHANGED <<vars, kctx>>

(* if(sem->wait_list.first) *)
ReleaseTest ==
    /\ Go("rtest", IF wait_list[cpu.sem] # <<>> THEN "rpop" ELSE "rinc")
    /\ UNCHANGED <<vars, kctx>>

(* list_del(&sem->wait_list, 0) *)
ReleasePop ==
    /\ mode = "run"
    /\ cpu.pc = "rpop"
    /\ cpu' = [cpu EXCEPT !.pc = "radd", !.nxt = DelFirst(wait_list[cpu.sem])]
    /\ wait_list' = [wait_list EXCEPT ![cpu.sem] = Rest(@)]
    /\ UNCHANGED <<mode, time_ticks, thr_threads, thr_current, thr_ready, thr_sleep, state,
                   count, kctx, cuts>>

(* olist_add(&thr_ready, thread) *)
ReleaseAdd ==
    /\ Go("radd", "rmark")
    /\ cpu.nxt # NULL
    /\ thr_ready' = OlistAdd(thr_ready, cpu.nxt, ByPriority)
    /\ UNCHANGED <<mode, time_ticks, thr_threads, thr_current, thr_sleep, state, count,
                   wait_list, kctx>>

(* thread->state = THR_STATE_READY *)
ReleaseMark ==
    /\ mode = "run"
    /\ cpu.pc = "rmark"
    /\ cpu' = [cpu EXCEPT !.pc = "idle", !.nxt = NULL]
    /\ state' = [state EXCEPT ![cpu.nxt] = "READY"]
    /\ UNCHANGED <<mode, time_ticks, thr_threads, thr_current, count, lists, kctx, cuts>>

(* sem->count++ *)
ReleaseInc ==
    /\ Go("rinc", "idle")
    /\ count' = [count EXCEPT ![cpu.sem] = @ + 1]
    /\ UNCHANGED <<mode, time_ticks, thr_threads, thr_current, state, lists, kctx>>

-----------------------------------------------------------------------------
Wait == WaitTest \/ WaitDec \/ WaitQueue \/ WaitMark \/ WaitPick \/ WaitSave
        \/ WaitCurr \/ WaitRun \/ WaitReturn

Release == ReleaseCall \/ ReleaseTest \/ ReleasePop \/ ReleaseAdd \/ ReleaseMark
           \/ ReleaseInc

Irq == IrqEnter \/ IrqWake \/ IrqExit

PNext ==
    \/ Boot
    \/ Irq
    \/ \E a \in SleepArgs : SleepCall(a[1], a[2])
    \/ \E s \in Sems : WaitCall(s)
    \/ Wait
    \/ Release

PSpec == PInit /\ [][PNext]_pvars

(* The interrupt controller keeps a timer interrupt pending until the CPU   *)
(* takes it, so the timer gets through to threads that call sem_wait and    *)
(* sem_release for ever.  In the time slices a thread gets it executes     *)
(* something: the steps of a thread that is dispatched again and again are  *)
(* taken.  No thread is obliged to call sem_wait.                           *)
PFair ==
    /\ SF_pvars(Irq)
    /\ WF_pvars(Boot)
    /\ \A t \in Threads \ {Null} : SF_pvars(cpu.thr = t /\ (Wait \/ Release))

PFairSpec == PSpec /\ PFair

-----------------------------------------------------------------------------
(* Where a thread is in its program. *)
PcOf(t) == IF cpu.thr = t THEN cpu.pc ELSE kctx[t].pc

(* The threads that sem_wait has let in and that have not released. *)
Inside(s) ==
    {t \in Threads : (IF cpu.thr = t THEN cpu.sem ELSE kctx[t].sem) = s
                     /\ PcOf(t) \in {"crit", "rtest", "rpop", "rinc"}}

(* ata.c: "Create the device's semaphore lock."  A semaphore made with      *)
(* sem_new(1) is a lock: it lets in one thread at a time.                   *)
MutualExclusion == \A s \in Sems : \A t, u \in Inside(s) : InitCount[s] = 1 => t = u

(* No timer interrupt has come at these places yet.                         *)
Uncut(places) == cuts \cap places = {}

(* Timer interrupts break the lock between the test of the count and its    *)
(* decrement (sem.c:30-31).  Wherever else they come, in as many calls as   *)
(* they like, one thread at a time is inside; only of an interrupt between  *)
(* thr_switch's first assignment and the load of the new stack pointer      *)
(* (thr.c:291-330), after which a frame is resumed twice or two contexts    *)
(* share a stack, nothing is claimed.                                       *)
LockHolds == Uncut({"dec", "curr", "run"}) => MutualExclusion

(* thr_switch: "Save current thread's stack pointer as it was just before   *)
(* fault_handler/irq_handler was called."  What a thread's kstack_ptr       *)
(* points to is on that thread's own stack, wherever interrupts come but    *)
(* between the assignment of thr_current (thr.c:293) and the load of the    *)
(* new stack pointer (thr.c:330): one that comes there saves the old        *)
(* thread's stack pointer in the new thread.                                *)
SavedStackIsOwn == Uncut({"run"}) => \A t \in Threads : kctx[t].thr = t

(* Whoever waits for a semaphore gets it, unless an interrupt comes where   *)
(* the lock breaks, where a release can be missed, between the test of the  *)
(* count and the queueing (sem.c:30-36) or between the test of the queue    *)
(* and the count (sem.c:47-52), or inside thr_switch (thr.c:291-330).       *)
LockIsGranted ==
    []Uncut({"dec", "queue", "rinc", "curr", "run"}) =>
        \A t \in Threads \ {Null} : \A s \in Sems :
            t \in Waiters(s) ~> PcOf(t) = "crit"

-----------------------------------------------------------------------------
(* The scheduler that these steps implement while no interrupt comes inside *)
(* a call: a sem_wait that blocks takes effect when the thread is queued, a *)
(* sem_release that hands over takes effect when the waiter is unlinked.    *)
AbsCurrent ==
    IF cpu.pc \in {"mark", "pick"} THEN Head(thr_ready)
    ELSE IF cpu.pc \in {"save", "curr", "run"} THEN cpu.nxt
    ELSE thr_current

AbsReady ==
    IF cpu.pc \in {"mark", "pick"} THEN Tail(thr_ready)
    ELSE IF cpu.pc = "radd" THEN OlistAdd(thr_ready, cpu.nxt, ByPriority)
    ELSE thr_ready

AbsState ==
    IF cpu.pc = "mark" THEN [state EXCEPT ![cpu.thr] = "SEM"]
    ELSE IF cpu.pc \in {"radd", "rmark"} THEN [state EXCEPT ![cpu.nxt] = "READY"]
    ELSE state

Atomic == INSTANCE Sched WITH
    thr_current <- AbsCurrent, thr_ready <- AbsReady, state <- AbsState

(* Until the first interrupt inside a call the steps of the semaphore code  *)
(* are the atomic ones of module Sched, interrupted threads, context        *)
(* switches and all.                                                        *)
ImplementsSched == Atomic!Init /\ [][cuts' = {} => Atomic!Next]_(Atomic!vars)
=============================================================================
