----------------------------- MODULE SleepClock -----------------------------
(***************************************************************************)
(* How long a thread really sleeps.  The scheduler compares wake-up times  *)
(* of TickMod ticks; this module keeps true time beside it, as two history *)
(* variables that no action of Sched reads.                                *)
(***************************************************************************)
EXTENDS Sched

-----------------------------------------------------------------------------
(* What a tick is: time_init programs channel 0 of the PIT, whose counter   *)
(* runs at PIT_HZ and raises IRQ 0 whenever it has counted down the divisor *)
(* it was given.  The writes are <<port, byte>>, in the order of the code.  *)
TIME_PIT_0 == 64
TIME_PIT_COMM == 67
Divisor == 1193180 \div 1000

time_init == << <<TIME_PIT_COMM, 54>>,
                <<TIME_PIT_0, Divisor % 256>>, <<TIME_PIT_0, Divisor \div 256>> >>

PIT_HZ == 1193182

\* What the chip makes of a control byte.
Control(b) == [channel |-> b \div 64, access |-> (b \div 16) % 4, mode |-> (b \div 2) % 8, bcd |-> b % 2]
LoHi == 3
SquareWave == 3

\* The divisor channel 0 counts down after these writes, 0 if they are not understood.
Reload(writes) ==
    LET command == Control(writes[1][2])
    IN  IF /\ writes[1][1] = TIME_PIT_COMM
           /\ command = [channel |-> 0, access |-> LoHi, mode |-> SquareWave, bcd |-> 0]
           /\ \A i \in {2, 3} : writes[i][1] = TIME_PIT_0 /\ writes[i][2] \in 0 .. 255
        THEN writes[2][2] + 256 * writes[3][2]
        ELSE 0

(* The ticks that syscall_sleep takes for a second last a second, to within *)
(* one part in a thousand.                                                  *)
ASSUME TicksKeepTime ==
    LET off == UnitTicks["s"] * Reload(time_init) - PIT_HZ
    IN  -PIT_HZ < 1000 * off /\ 1000 * off < PIT_HZ

-----------------------------------------------------------------------------
VARIABLES
    left,    \* timer interrupts still owed to each thread by its last sleep
    excused  \* threads whose last sleep has no wake-up time the counter can represent

clockVars == <<vars, left, excused>>

ClockInit == Init /\ left = [t \in Threads |-> 0] /\ excused = {}

(* A timer interrupt takes a tick off what everyone is owed; no other step  *)
(* but a call of sleep changes it.                                          *)
ClockStep ==
    /\ OtherStep
    /\ left' = IF mode = "run" /\ mode' = "irq"
               THEN [t \in Threads |-> IF left[t] = 0 THEN 0 ELSE left[t] - 1]
               ELSE left
    /\ UNCHANGED excused

(* The interrupts a sleep of n ticks lasts: a thread that asks for none is  *)
(* off the CPU until the next one.                                          *)
Delay(n) == IF n = 0 THEN 1 ELSE n

(* A thread asks for "no" of a unit the system call knows. *)
ClockSleep(no, units) ==
    /\ Sleep(no, units)
    /\ units \in DOMAIN UnitTicks
    /\ LET n == Delay(UnitTicks[units] * no)
       IN  /\ left' = [left EXCEPT ![thr_current] = n]
           /\ excused' = IF time_ticks + n < TickMod
                         THEN excused \ {thr_current}
                         ELSE excused \cup {thr_current}

(* A thread asks for a unit that is none: there is no time it asked for. *)
ClockSleepBadUnit(no, units) ==
    /\ Sleep(no, units)
    /\ units \notin DOMAIN UnitTicks
    /\ left' = [left EXCEPT ![thr_current] = 0]
    /\ excused' = excused \cup {thr_current}

ClockNext ==
    \/ ClockStep
    \/ \E a \in SleepArgs : ClockSleep(a[1], a[2]) \/ ClockSleepBadUnit(a[1], a[2])

(* The threads that run or may be chosen to run. *)
Awake == Items(thr_ready) \cup (Threads \cap {thr_current})

ClockSpec == ClockInit /\ [][ClockNext]_clockVars

(* time.c, syscall_sleep: a thread that slept until a time the tick counter *)
(* can represent is never awake before that many ticks have passed (after a *)
(* panic no thread is).                                                     *)
NeverWokenEarly == mode # "panic" => \A t \in Awake \ excused : left[t] = 0

(* ... nor after: once the timer handler is done, a thread that is still    *)
(* asleep is still owed ticks.  The handler that takes its last tick off    *)
(* wakes it (time.c, the loop of time_irq_handler).                         *)
NeverSleepsLate ==
    mode = "run" =>
        \A i \in 1 .. Len(thr_sleep) :
            LET e == thr_sleep[i]
            IN  e.thread \notin excused => left[e.thread] > 0
=============================================================================
