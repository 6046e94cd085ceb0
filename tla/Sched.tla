------------------------------- MODULE Sched -------------------------------
(***************************************************************************)
(* The thread scheduler of Jonix: lib/thr.c, lib/sched.c, lib/time.c,      *)
(* lib/sem.c and the sleep system call.                                    *)
(*                                                                         *)
(* One CPU runs thr_current.  Interrupt and system call gates are 0x8E, so *)
(* handlers run with interrupts off: the timer handler's steps (mode       *)
(* "irq") are interleaved with nothing, and syscall_sleep is one step.     *)
(* sem_wait and sem_release are one step each, which is what a caller with *)
(* interrupts off gets; module Preempt opens them up.                      *)
(*                                                                         *)
(* Mode "boot" is main() before "sti", when threads are created; "run" is  *)
(* a thread running with interrupts on; "panic" is the PANIC macro;        *)
(* "crash" is thr_run on the NULL that list_del returns for an empty list. *)
(***************************************************************************)
EXTENDS Integers, Sequences, Olist

CONSTANTS
    Threads,    \* thread descriptors
    Null,       \* the null thread, which only halts
    Main,       \* the thread main() runs in
    Priority,   \* the priority of each thread
    NULL,       \* the null pointer
    Sems,       \* semaphores
    InitCount,  \* the init_cnt given to sem_new for each of them
    MaxCount,   \* bound on a semaphore's count
    TickMod,    \* time_ticks is an integer modulo this: 2^32 in the code
    SleepArgs,  \* <<no, units>> arguments of the sleep system call
    Alloc       \* outcomes of kmalloc: {TRUE}, or {TRUE, FALSE} when memory can run out

ASSUME ThreadsAssumption ==
    /\ Null \in Threads
    /\ Main \in Threads
    /\ Null # Main
    /\ NULL \notin Threads

ASSUME PriorityAssumption ==
    /\ Priority \in [Threads -> 0 .. 255]
    /\ Priority[Null] = 0

ASSUME SemsAssumption == InitCount \in [Sems -> Nat]

ASSUME TimeAssumption ==
    /\ TickMod \in Nat \ {0}
    /\ SleepArgs \subseteq Nat \X STRING

ASSUME AllocAssumption == Alloc \subseteq BOOLEAN /\ TRUE \in Alloc

VARIABLES
    mode,         \* what the CPU is doing
    time_ticks,   \* time.c: timer interrupts since boot
    thr_threads,  \* thr.c: the threads created so far
    thr_current,  \* thr.c: the running thread
    thr_ready,    \* thr.c: ready threads, highest priority first
    thr_sleep,    \* thr.c: sleep entries, earliest first
    state,        \* thread_t.state
    count,        \* sem_t.count
    wait_list     \* sem_t.wait_list

lists == <<thr_ready, thr_sleep, wait_list>>
vars == <<mode, time_ticks, thr_threads, thr_current, state, count, lists>>

Ticks == 0 .. TickMod - 1
SleepEntry == [thread : Threads, time : Ticks]

\* thread_t_cmp_priority is descending, sleep_entry_t_cmp_time ascending.
ByPriority == [t \in Threads |-> -Priority[t]]
ByTime == [e \in SleepEntry |-> e.time]

-----------------------------------------------------------------------------
(* thr_init: the null thread is made by thr_new, which leaves it suspended, *)
(* and put on the ready list; the code that is booting becomes Main.       *)
(* Identifiers come from id.c, which does not compile; they are left out.  *)
Init ==
    /\ mode = "boot"
    /\ time_ticks = 0
    /\ thr_threads = {Null, Main}
    /\ thr_current = Main
    /\ thr_ready = <<Null>>
    /\ thr_sleep = <<>>
    /\ state = [t \in Threads |-> IF t = Main THEN "CURR" ELSE "SUSP"]
    /\ count = InitCount
    /\ wait_list = [s \in Sems |-> <<>>]

(* A further thread, created and made ready the way thr_init does it.  That *)
(* thr_new may fail to add it to thr_threads is only logged; that there may *)
(* be no memory for its descriptor, its number or its place on the ready   *)
(* list is a panic.  That there may be none for its stack is not noticed:  *)
(* thr.c:138-142 tests the sum of the address and the size.  The thread is *)
(* made all the same, with the mapped memory from address 0 on for a stack, *)
(* so here that is success; that a second such thread would get the same   *)
(* stack is not modelled.                                                   *)
NewThread(t) ==
    /\ mode = "boot"
    /\ t \notin thr_threads \cup Items(thr_ready)
    /\ \E listed \in Alloc :
          thr_threads' = IF listed THEN thr_threads \cup {t} ELSE thr_threads
    /\ \E ok \in Alloc :
          \/ /\ ok
             /\ thr_ready' = OlistAdd(thr_ready, t, ByPriority)
             /\ mode' = mode
          \/ /\ ~ok
             /\ thr_ready' = thr_ready
             /\ mode' = "panic"
    /\ UNCHANGED <<time_ticks, thr_current, thr_sleep, state, count, wait_list>>

(* "sti" in main: "A timer interrupt will start the scheduler." *)
EnableInterrupts ==
    /\ mode = "boot"
    /\ mode' = "run"
    /\ UNCHANGED <<time_ticks, thr_threads, thr_current, state, count, lists>>

(* Bug: resched looks at the first ready thread without unlinking it. *)
ReschedGet(rdy) ==
    /\ thr_current' = Head(rdy)
    /\ thr_ready' = rdy
    /\ mode' = "run"

(* resched and thr_switch, from the state in which the ready list is rdy:  *)
(* the first ready thread becomes current.  Its state is not changed.      *)
Resched(rdy) ==
    \/ /\ rdy # <<>>
       /\ thr_current' = Head(rdy)
       /\ thr_ready' = Tail(rdy)
       /\ mode' = "run"
    \/ /\ rdy = <<>>
       /\ thr_current' = NULL
       /\ thr_ready' = rdy
       /\ mode' = "crash"

-----------------------------------------------------------------------------
(* Bug: a handler that does not put the interrupted thread back. *)
TimerEnterDropsCurrent ==
    /\ mode = "run"
    /\ mode' = "irq"
    /\ time_ticks' = (time_ticks + 1) % TickMod
    /\ state' = [state EXCEPT ![thr_current] = "READY"]
    /\ UNCHANGED <<thr_threads, thr_current, thr_ready, thr_sleep, count, wait_list>>

(* time_irq_handler up to its loop: count the tick and put the interrupted *)
(* thread back on the ready list, without looking at the result.           *)
TimerEnter ==
    /\ mode = "run"
    /\ mode' = "irq"
    /\ time_ticks' = (time_ticks + 1) % TickMod
    /\ state' = [state EXCEPT ![thr_current] = "READY"]
    /\ \E ok \in Alloc :
          thr_ready' = IF ok THEN OlistAdd(thr_ready, thr_current, ByPriority)
                       ELSE thr_ready
    /\ UNCHANGED <<thr_threads, thr_current, thr_sleep, count, wait_list>>

(* Bug: "<" for "<=" in the test of the loop. *)
SleeperDueLate == thr_sleep # <<>> /\ Head(thr_sleep).time < time_ticks

(* The head of the sleep list is due. *)
SleeperDue == thr_sleep # <<>> /\ Head(thr_sleep).time <= time_ticks

(* One pass of the loop: the first sleeper is due and becomes ready. *)
WakeOne ==
    /\ mode = "irq"
    /\ SleeperDue
    /\ LET thread == Head(thr_sleep).thread
       IN  /\ thr_sleep' = Tail(thr_sleep)
           /\ state' = [state EXCEPT ![thread] = "READY"]
           /\ \E ok \in Alloc :
                 \/ /\ ok
                    /\ thr_ready' = OlistAdd(thr_ready, thread, ByPriority)
                    /\ mode' = mode
                 \/ /\ ~ok
                    /\ thr_ready' = thr_ready
                    /\ mode' = "panic"
    /\ UNCHANGED <<time_ticks, thr_threads, thr_current, count, wait_list>>

(* The loop is over: acknowledge the interrupt and reschedule. *)
TimerExit ==
    /\ mode = "irq"
    /\ ~SleeperDue
    /\ Resched(thr_ready)
    /\ UNCHANGED <<time_ticks, thr_threads, thr_sleep, state, count, wait_list>>

-----------------------------------------------------------------------------
(* Milliseconds, centiseconds, deciseconds and seconds, in ticks. *)
UnitTicks == [m |-> 1, c |-> 10, d |-> 100, s |-> 1000]

(* Bug: the wake-up time is the delay itself. *)
TargTicksRelative(no, units) ==
    IF units \in DOMAIN UnitTicks THEN {(UnitTicks[units] * no) % TickMod} ELSE Ticks

(* The targ_ticks the call may compute: the sum wraps, and for a unit the  *)
(* switch does not know targ_ticks is not initialised.                     *)
TargTicks(no, units) ==
    IF units \in DOMAIN UnitTicks
    THEN {(time_ticks + UnitTicks[units] * no) % TickMod}
    ELSE Ticks

(* The entry goes on the sleep list and the caller gives up the CPU; the    *)
(* result of olist_add is not looked at.                                    *)
SleepQueued(no, units) ==
    /\ mode = "run"
    /\ thr_current # Null
    /\ state' = [state EXCEPT ![thr_current] = "SLEEP"]
    /\ \E targ_ticks \in TargTicks(no, units), ok \in Alloc :
          LET ent == [thread |-> thr_current, time |-> targ_ticks]
          IN  thr_sleep' = IF ok THEN OlistAdd(thr_sleep, ent, ByTime) ELSE thr_sleep
    /\ Resched(thr_ready)
    /\ UNCHANGED <<time_ticks, thr_threads, count, wait_list>>

(* There is no memory for the entry. *)
SleepPanics ==
    /\ mode = "run"
    /\ thr_current # Null
    /\ mode' = "panic"
    /\ UNCHANGED <<time_ticks, thr_threads, thr_current, state, count, lists>>

(* syscall_sleep, called by the current thread. *)
Sleep(no, units) ==
    \E ent \in Alloc : IF ent THEN SleepQueued(no, units) ELSE SleepPanics

-----------------------------------------------------------------------------
(* sem_wait when the count is positive. *)
SemTake(s) ==
    /\ mode = "run"
    /\ thr_current # Null
    /\ count[s] > 0
    /\ count' = [count EXCEPT ![s] = @ - 1]
    /\ UNCHANGED <<mode, time_ticks, thr_threads, thr_current, state, lists>>

(* sem_wait otherwise: queue on the semaphore and reschedule. The result of *)
(* list_add is not looked at.                                               *)
SemBlock(s) ==
    /\ mode = "run"
    /\ thr_current # Null
    /\ ~(count[s] > 0)
    /\ \E ok \in Alloc :
          wait_list' = [wait_list EXCEPT ![s] = IF ok THEN Append(@, thr_current) ELSE @]
    /\ state' = [state EXCEPT ![thr_current] = "SEM"]
    /\ Resched(thr_ready)
    /\ UNCHANGED <<time_ticks, thr_threads, thr_sleep, count>>

(* Bug: the state field of the released thread is not updated. *)
SemHandOverKeepsState(s) ==
    /\ mode = "run"
    /\ thr_current # Null
    /\ wait_list[s] # <<>>
    /\ wait_list' = [wait_list EXCEPT ![s] = Tail(@)]
    /\ thr_ready' = OlistAdd(thr_ready, Head(wait_list[s]), ByPriority)
    /\ UNCHANGED <<mode, time_ticks, thr_threads, thr_current, thr_sleep, state, count>>

(* sem_release when a thread waits: the first waiter becomes ready. *)
SemHandOver(s) ==
    /\ mode = "run"
    /\ thr_current # Null
    /\ wait_list[s] # <<>>
    /\ LET thread == Head(wait_list[s])
       IN  /\ wait_list' = [wait_list EXCEPT ![s] = Tail(@)]
           /\ \E ok \in Alloc :
                 thr_ready' = IF ok THEN OlistAdd(thr_ready, thread, ByPriority)
                              ELSE thr_ready
           /\ state' = [state EXCEPT ![thread] = "READY"]
    /\ UNCHANGED <<mode, time_ticks, thr_threads, thr_current, thr_sleep, count>>

(* Bug: sem_release that always counts. *)
SemPostAlways(s) ==
    /\ mode = "run"
    /\ thr_current # Null
    /\ count[s] < MaxCount
    /\ count' = [count EXCEPT ![s] = @ + 1]
    /\ UNCHANGED <<mode, time_ticks, thr_threads, thr_current, state, lists>>

(* sem_release otherwise: count the release. *)
SemPost(s) ==
    /\ mode = "run"
    /\ thr_current # Null
    /\ wait_list[s] = <<>>
    /\ count[s] < MaxCount
    /\ count' = [count EXCEPT ![s] = @ + 1]
    /\ UNCHANGED <<mode, time_ticks, thr_threads, thr_current, state, lists>>

-----------------------------------------------------------------------------
Timer == TimerEnter \/ WakeOne \/ TimerExit

(* Every step but a call of sleep. *)
OtherStep ==
    \/ \E t \in Threads : NewThread(t)
    \/ EnableInterrupts
    \/ Timer
    \/ \E s \in Sems : SemTake(s) \/ SemBlock(s) \/ SemHandOver(s) \/ SemPost(s)

Next == OtherStep \/ \E a \in SleepArgs : Sleep(a[1], a[2])

Spec == Init /\ [][Next]_vars

(* The interval timer keeps interrupting, and a handler that was entered    *)
(* runs to its end: nothing else can happen while interrupts are off.       *)
FairSpec == Spec /\ WF_vars(Timer) /\ WF_vars(EnableInterrupts)

-----------------------------------------------------------------------------
(* The system is neither booting nor dead. *)
Running == mode \in {"run", "irq"}

EntryThreads(q) == {q[i].thread : i \in 1 .. Len(q)}
OneEntryEach(q) == \A i, j \in 1 .. Len(q) : q[i].thread = q[j].thread => i = j

Sleepers == EntryThreads(thr_sleep)
Waiters(s) == Items(wait_list[s])
Blocked == Sleepers \cup UNION {Waiters(s) : s \in Sems}

TypeOK ==
    /\ mode \in {"boot", "run", "irq", "panic", "crash"}
    /\ time_ticks \in Ticks
    /\ thr_threads \subseteq Threads
    /\ thr_current \in Threads \cup {NULL}
    /\ thr_ready \in Seq(Threads)
    /\ thr_sleep \in Seq(SleepEntry)
    /\ state \in [Threads -> {"CURR", "READY", "SEM", "SUSP", "SLEEP"}]
    /\ count \in [Sems -> Nat]
    /\ wait_list \in [Sems -> Seq(Threads)]

(* A thread is in one place at a time: on the CPU, once on the ready list,  *)
(* once on the sleep list, or once on one semaphore's wait list.  Only      *)
(* inside the timer handler is the interrupted thread both current and      *)
(* ready.  Two places would mean two dispatches of one saved stack.         *)
OnePlace ==
    /\ NoDuplicates(thr_ready)
    /\ OneEntryEach(thr_sleep)
    /\ \A s \in Sems : NoDuplicates(wait_list[s])
    /\ \A r, s \in Sems : r # s => Waiters(r) \cap Waiters(s) = {}
    /\ Items(thr_ready) \cap Blocked = {}
    /\ \A s \in Sems : Sleepers \cap Waiters(s) = {}
    /\ thr_current \notin Blocked
    /\ mode \notin {"irq", "panic"} => thr_current \notin Items(thr_ready)

(* As long as memory lasts, every thread that was created is somewhere the  *)
(* scheduler will find it again, and resched never takes a thread from an   *)
(* empty ready list: the null thread is there, or it is the one running.    *)
NoThreadLost ==
    FALSE \notin Alloc =>
        /\ mode # "crash"
        /\ Null \in Items(thr_ready) \cup {thr_current}
        /\ thr_threads = {thr_current} \cup Items(thr_ready) \cup Blocked

(* The state field tells which list a thread is on: SLEEP on the sleep      *)
(* list, SEM on a wait list, neither of these when it runs or is ready.     *)
StateAgrees ==
    /\ TypeOK
    /\ \A t \in Sleepers : state[t] = "SLEEP"
    /\ \A s \in Sems : \A t \in Waiters(s) : state[t] = "SEM"
    /\ \A t \in Items(thr_ready) : state[t] \in {"READY", "SUSP"}
    /\ thr_current \in Threads => state[thr_current] \in {"CURR", "READY", "SUSP"}

(* sem_wait and sem_release never leave a thread waiting for a count that   *)
(* is there: the wake-up that a release owes is never lost.                 *)
NoLostWakeup == \A s \in Sems : count[s] > 0 => wait_list[s] = <<>>

(* The lists that olist_add keeps are in order, whatever was added when.    *)
ListsOrdered == Ordered(thr_ready, ByPriority) /\ Ordered(thr_sleep, ByTime)

(* No thread overtakes a ready thread of its own priority.                  *)
NoOvertaking ==
    [][ \A a \in Items(thr_ready) \cap Items(thr_ready'), b \in Items(thr_ready') :
           Priority[a] = Priority[b] /\ Ahead(thr_ready', b, a) => Ahead(thr_ready, b, a) ]_vars

(* The timer handler looks only at the head of the sleep list, yet when it  *)
(* hands over the CPU no sleeper whose time has come is left on the list.   *)
NoOneOversleeps ==
    [][ mode = "irq" /\ mode' = "run"
        => \A i \in 1 .. Len(thr_sleep') : thr_sleep'[i].time > time_ticks' ]_vars

(* A sleeping thread becomes ready, even when the tick counter wraps while  *)
(* it sleeps or its wake-up time wrapped.                                   *)
SleepersWake ==
    \A t \in Threads : t \in Sleepers ~> t \notin Sleepers \/ ~Running

(* A ready thread that no other thread outranks gets the CPU: threads of    *)
(* one priority take turns.                                                 *)
TopPriorityRuns ==
    \A t \in Threads :
        (\A u \in Threads : Priority[u] <= Priority[t]) =>
            (t \in Items(thr_ready) ~> thr_current = t \/ ~Running)
=============================================================================
