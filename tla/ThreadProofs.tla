---------------------------- MODULE ThreadProofs ----------------------------
(***************************************************************************)
(* Proofs about the modules that look closer at the scheduler.             *)
(*                                                                         *)
(* SleepClock: sleeping is exact, for every set of threads, every delay    *)
(* and every size of the tick counter.                                     *)
(*                                                                         *)
(* Preempt: with interrupts on in every call, the semaphores are locks,    *)
(* the saved stack pointers are right and the scheduler is the atomic one  *)
(* of module Sched, until an interrupt comes at one of the places each     *)
(* theorem names, for any threads, priorities and semaphores.              *)
(***************************************************************************)
EXTENDS SleepClock, Preempt, SchedProofs, FunctionTheorems, FiniteSetTheorems

-----------------------------------------------------------------------------
(* SleepClock.                                                             *)

(* A sleeper is owed the ticks between now and its wake-up time, at least   *)
(* one while a thread runs.  Then no wake-up time has passed, and for as    *)
(* long as there is one to come the counter does not wrap at the next       *)
(* interrupt.                                                               *)
Owed ==
    \A e \in Items(thr_sleep) :
        e.thread \notin excused =>
            /\ mode = "run" =>
                  /\ left[e.thread] = Delay(e.time - time_ticks)
                  /\ e.time >= time_ticks /\ time_ticks + 1 < TickMod
            /\ mode = "irq" =>
                  left[e.thread] = IF e.time >= time_ticks THEN e.time - time_ticks ELSE 0

(* The threads that are awake or wait for a semaphore. *)
NotAsleep == Awake \cup UNION {Waiters(s) : s \in Sems}

(* Nobody else is owed anything.                                            *)
NothingOwed ==
    /\ mode = "boot" => \A t \in Threads : left[t] = 0
    /\ mode # "panic" => \A t \in NotAsleep \ excused : left[t] = 0

LeftTyped == left \in [Threads -> Nat] /\ excused \subseteq Threads

ClockInv == TypeInv /\ Placement /\ ListsOrdered /\ LeftTyped /\ Owed /\ NothingOwed

(* ClockInv holds at boot. *)
LEMMA InitClockInv == ClockInit => ClockInv
<1> SUFFICES ASSUME ClockInit PROVE ClockInv
  OBVIOUS
<1>1. TypeInv /\ Placement /\ ListsOrdered
  BY InitTypeInv, InitPlacement, InitOrdered DEF ClockInit
<1>2. LeftTyped /\ \A t \in Threads : left[t] = 0
  BY DEF ClockInit, LeftTyped
<1>3. Items(thr_sleep) = {}
  BY DEF ClockInit, Init, Items
<1>4. NotAsleep \subseteq Threads
  <2>1. Items(thr_ready) \subseteq Threads /\ \A s \in Sems : Waiters(s) \subseteq Threads
    BY <1>1 DEF TypeInv, TypeOK, Items, Waiters
  <2> QED  BY <2>1 DEF NotAsleep, Awake
<1> QED  BY <1>1, <1>2, <1>3, <1>4 DEF ClockInv, Owed, NothingOwed

(* A number below the modulus is its own remainder. *)
LEMMA ModSmall ==
    ASSUME NEW m \in Nat, NEW x \in Nat, x < m PROVE x % m = x
OBVIOUS

(* When the handler's loop is over every wake-up time is in the future.     *)
LEMMA NoneDue ==
    ASSUME TypeInv, ListsOrdered, ~SleeperDue
    PROVE  \A e \in Items(thr_sleep) : e.time > time_ticks
<1> SUFFICES ASSUME NEW e \in Items(thr_sleep) PROVE e.time > time_ticks
  OBVIOUS
<1>1. thr_sleep \in Seq(SleepEntry) /\ thr_sleep # <<>> /\ e \in SleepEntry
  BY DEF TypeInv, TypeOK, Items
<1>2. Head(thr_sleep) \in SleepEntry
  BY <1>1, TailItems
<1>3. ByTime[Head(thr_sleep)] <= ByTime[e]
  BY <1>1, KeyTypes, TailOrdered DEF ListsOrdered
<1>4. ByTime[Head(thr_sleep)] = Head(thr_sleep).time /\ ByTime[e] = e.time
  BY <1>1, <1>2 DEF ByTime
<1>5. time_ticks \in Nat /\ \A x \in SleepEntry : x.time \in Nat
  BY TicksNat DEF TypeInv, TypeOK, SleepEntry
<1>6. ~(Head(thr_sleep).time <= time_ticks)
  BY <1>1 DEF SleeperDue
<1> QED  BY <1>1, <1>2, <1>3, <1>4, <1>5, <1>6

(* A step that calls no sleep and takes no interrupt: whoever comes to run  *)
(* or to wait for a semaphore is owed nothing, and a thread is dispatched   *)
(* only when nobody is due.                                                 *)
LEMMA CalmStep ==
    ASSUME ClockInv, TypeInv', UNCHANGED <<left, excused, time_ticks>>,
           Items(thr_sleep') \subseteq Items(thr_sleep),
           mode' = "boot" => mode = "boot",
           mode # "panic",
           mode' = "irq" => mode = "irq",
           mode' = "run" => \/ mode = "run"
                            \/ mode = "irq" /\ \A e \in Items(thr_sleep') : e.time > time_ticks
                            \/ Items(thr_sleep') = {},
           mode' # "panic" =>
               \A t \in NotAsleep' : t \in NotAsleep \/ left[t] = 0 \/ t \in excused
    PROVE  LeftTyped' /\ Owed' /\ NothingOwed'
<1>1. LeftTyped'
  BY DEF ClockInv, LeftTyped
<1>2. NothingOwed'
  BY DEF ClockInv, NothingOwed
<1>3. Owed'
  <2> SUFFICES ASSUME NEW e \in Items(thr_sleep'), e.thread \notin excused
               PROVE  /\ mode' = "run" =>
                            /\ left[e.thread] = Delay(e.time - time_ticks)
                            /\ e.time >= time_ticks /\ time_ticks + 1 < TickMod
                      /\ mode' = "irq" =>
                            left[e.thread] = IF e.time >= time_ticks THEN e.time - time_ticks ELSE 0
    BY DEF Owed
  <2>1. /\ mode = "run" =>
              /\ left[e.thread] = Delay(e.time - time_ticks)
              /\ e.time >= time_ticks /\ time_ticks + 1 < TickMod
        /\ mode = "irq" =>
              left[e.thread] = IF e.time >= time_ticks THEN e.time - time_ticks ELSE 0
    BY DEF ClockInv, Owed
  <2>2. e \in SleepEntry /\ time_ticks \in Ticks
    BY DEF TypeInv, TypeOK, Items
  <2>3. e.time \in Ticks
    BY <2>2 DEF SleepEntry
  <2>4. e.time > time_ticks => /\ e.time >= time_ticks /\ time_ticks + 1 < TickMod
                               /\ e.time - time_ticks = Delay(e.time - time_ticks)
    BY <2>2, <2>3, TimeAssumption DEF Ticks, Delay
  <2> QED  BY <2>1, <2>4
<1> QED  BY <1>1, <1>2, <1>3

(* The timer interrupt: everyone is owed a tick less. *)
LEMMA TickStep ==
    ASSUME ClockInv, TypeInv', TimerEnter, excused' = excused,
           left' = [t \in Threads |-> IF left[t] = 0 THEN 0 ELSE left[t] - 1]
    PROVE  LeftTyped' /\ Owed' /\ NothingOwed'
<1>t. left \in [Threads -> Nat] /\ thr_sleep \in Seq(SleepEntry) /\ time_ticks \in Ticks
  BY DEF ClockInv, LeftTyped, TypeInv, TypeOK
<1>m. /\ mode = "run" /\ mode' = "irq"
      /\ time_ticks' = (time_ticks + 1) % TickMod
      /\ UNCHANGED <<thr_sleep, wait_list, thr_current>>
  BY DEF TimerEnter
<1>1. LeftTyped'
  BY <1>t DEF ClockInv, LeftTyped
<1>2. NothingOwed'
  <2>1. thr_current \in Threads
    BY <1>m DEF ClockInv, TypeInv
  <2>2. Items(thr_ready') \subseteq Items(thr_ready) \cup {thr_current}
    BY <2>1, ReadyAdd DEF TimerEnter, ClockInv, TypeInv, TypeOK
  <2>3. \A s \in Sems : Waiters(s)' = Waiters(s)
    BY <1>m, WaitersSame
  <2>4. NotAsleep' \subseteq NotAsleep
    BY <1>m, <2>1, <2>2, <2>3 DEF NotAsleep, Awake
  <2>5. NotAsleep \subseteq Threads
    <3>1. Items(thr_ready) \subseteq Threads /\ \A s \in Sems : Waiters(s) \subseteq Threads
      BY DEF ClockInv, TypeInv, TypeOK, Items, Waiters
    <3> QED  BY <3>1 DEF NotAsleep, Awake
  <2>6. \A t \in NotAsleep \ excused : left[t] = 0
    BY <1>m DEF ClockInv, NothingOwed
  <2> QED  BY <1>m, <2>4, <2>5, <2>6 DEF NothingOwed
<1>3. Owed'
  <2> SUFFICES ASSUME NEW e \in Items(thr_sleep), e.thread \notin excused
               PROVE  left'[e.thread] = IF e.time >= time_ticks' THEN e.time - time_ticks' ELSE 0
    BY <1>m DEF Owed
  <2>1. /\ left[e.thread] = Delay(e.time - time_ticks)
        /\ e.time >= time_ticks /\ time_ticks + 1 < TickMod
    BY <1>m DEF ClockInv, Owed
  <2>2. e \in SleepEntry
    BY <1>t DEF Items
  <2>3. e.thread \in Threads /\ e.time \in Nat /\ time_ticks \in Nat
    BY <1>t, <2>2, TicksNat DEF SleepEntry
  <2>4. time_ticks' = time_ticks + 1
    <3>1. time_ticks + 1 \in Nat /\ TickMod \in Nat /\ time_ticks + 1 < TickMod
      BY <2>1, <2>3, TimeAssumption
    <3>2. (time_ticks + 1) % TickMod = time_ticks + 1
      BY <3>1, ModSmall
    <3> QED  BY <1>m, <3>2
  <2>5. left'[e.thread] = IF left[e.thread] = 0 THEN 0 ELSE left[e.thread] - 1
    BY <2>3
  <2> QED  BY <2>1, <2>3, <2>4, <2>5 DEF Delay
<1> QED  BY <1>1, <1>2, <1>3

(* Every step but sleep keeps what sleepers are owed in line with their    *)
(* entries.                                                                *)
LEMMA OtherStepLeft ==
    ASSUME ClockInv, TypeInv', ClockStep PROVE LeftTyped' /\ Owed' /\ NothingOwed'
<1>t. /\ thr_ready \in Seq(Threads)
      /\ thr_sleep \in Seq(SleepEntry)
      /\ wait_list \in [Sems -> Seq(Threads)]
      /\ mode # "crash" => thr_current \in Threads
  BY DEF ClockInv, TypeInv, TypeOK
<1>p. TypeInv /\ OnePlace /\ Known /\ ListsOrdered
  BY DEF ClockInv, Placement
<1>u. OtherStep /\ excused' = excused
  BY DEF ClockStep
<1>l. ~(mode = "run" /\ mode' = "irq") => left' = left
  BY DEF ClockStep
<1>r. ASSUME Resched(thr_ready)
      PROVE  /\ Awake' \subseteq Awake
             /\ mode' \in {"run", "crash"}
  <2>1. /\ thr_current' \in Items(thr_ready) \cup {NULL}
        /\ Items(thr_ready') \subseteq Items(thr_ready)
        /\ mode' \in {"run", "crash"}
    BY <1>t, <1>p, <1>r, ReschedPlaces DEF OnePlace
  <2> QED  BY <2>1, ThreadsAssumption DEF Awake
<1> DEFINE Goal == LeftTyped' /\ Owed' /\ NothingOwed'
<1>1. ASSUME NEW t \in Threads, NewThread(t) PROVE Goal
  <2>1. /\ mode = "boot" /\ mode' \in {"boot", "panic"}
        /\ UNCHANGED <<time_ticks, thr_sleep, wait_list>>
    BY <1>1 DEF NewThread
  <2>2. left' = left /\ \A u \in Threads : left[u] = 0
    BY <1>l, <2>1 DEF ClockInv, NothingOwed
  <2>3. NotAsleep' \subseteq Threads
    <3>1. Items(thr_ready') \subseteq Threads /\ \A s \in Sems : Waiters(s)' \subseteq Threads
      BY DEF TypeInv, TypeOK, Items, Waiters
    <3> QED  BY <3>1 DEF NotAsleep, Awake
  <2> QED  BY <1>u, <2>1, <2>2, <2>3, CalmStep
<1>2. ASSUME EnableInterrupts PROVE Goal
  <2>1. /\ mode = "boot" /\ mode' = "run"
        /\ UNCHANGED <<time_ticks, thr_current, thr_ready, thr_sleep, wait_list>>
    BY <1>2 DEF EnableInterrupts, lists
  <2>2. NotAsleep' = NotAsleep
    BY <2>1, WaitersSame DEF NotAsleep, Awake
  <2>3. Items(thr_sleep) = {}
    <3>1. Sleepers = {}
      BY <1>p, <2>1 DEF Known, Blocked
    <3> QED  BY <3>1 DEF Sleepers, EntryThreads, Items
  <2> QED  BY <1>u, <1>l, <2>1, <2>2, <2>3, CalmStep
<1>3. ASSUME TimerEnter PROVE Goal
  <2>1. left' = [t \in Threads |-> IF left[t] = 0 THEN 0 ELSE left[t] - 1]
    BY <1>3 DEF ClockStep, TimerEnter
  <2> QED  BY <1>3, <1>u, <2>1, TickStep
<1>4. ASSUME WakeOne PROVE Goal
  <2> DEFINE e == Head(thr_sleep)
  <2>1. /\ mode = "irq" /\ mode' \in {"irq", "panic"}
        /\ thr_sleep # <<>> /\ e.time <= time_ticks
        /\ thr_sleep' = Tail(thr_sleep)
        /\ UNCHANGED <<time_ticks, thr_current, wait_list>>
    BY <1>4 DEF WakeOne, SleeperDue
  <2>2. e \in SleepEntry /\ e \in Items(thr_sleep) /\ Items(thr_sleep') \subseteq Items(thr_sleep)
    BY <1>t, <2>1, TailItems
  <2>3. e.thread \in Threads /\ e.time \in Nat /\ time_ticks \in Nat
    BY <1>p, <2>2, TicksNat DEF SleepEntry, TypeInv, TypeOK
  <2>4. left[e.thread] = 0 \/ e.thread \in excused
    <3>1. e.thread \notin excused =>
             left[e.thread] = IF e.time >= time_ticks THEN e.time - time_ticks ELSE 0
      BY <2>1, <2>2 DEF ClockInv, Owed
    <3> HIDE DEF e
    <3> QED  BY <2>1, <2>3, <3>1
  <2>5. \E ok \in Alloc : thr_ready' = IF ok THEN OlistAdd(thr_ready, e.thread, ByPriority) ELSE thr_ready
    BY <1>4 DEF WakeOne
  <2> HIDE DEF e
  <2>6. Items(thr_ready') \subseteq Items(thr_ready) \cup {e.thread}
    BY <1>t, <2>3, <2>5, ReadyAdd
  <2>7. NotAsleep' \subseteq NotAsleep \cup {e.thread}
    BY <2>1, <2>6, WaitersSame DEF NotAsleep, Awake
  <2> QED  BY <1>u, <1>l, <2>1, <2>2, <2>4, <2>7, CalmStep
<1>5. ASSUME TimerExit PROVE Goal
  <2>1. /\ mode = "irq" /\ ~SleeperDue /\ Resched(thr_ready)
        /\ UNCHANGED <<time_ticks, thr_sleep, wait_list>>
    BY <1>5 DEF TimerExit
  <2>2. NotAsleep' \subseteq NotAsleep
    BY <1>r, <2>1, WaitersSame DEF NotAsleep
  <2>3. \A e \in Items(thr_sleep) : e.time > time_ticks
    BY <1>p, <2>1, NoneDue
  <2> QED  BY <1>u, <1>l, <1>r, <2>1, <2>2, <2>3, CalmStep
<1>6. ASSUME NEW s \in Sems, SemTake(s) \/ SemPost(s) PROVE Goal
  <2>1. /\ mode = "run" /\ mode' = "run"
        /\ UNCHANGED <<time_ticks, thr_current, thr_ready, thr_sleep, wait_list>>
    BY <1>6 DEF SemTake, SemPost, lists
  <2>2. NotAsleep' = NotAsleep
    BY <2>1, WaitersSame DEF NotAsleep, Awake
  <2> QED  BY <1>u, <1>l, <2>1, <2>2, CalmStep
<1>7. ASSUME NEW s \in Sems, SemBlock(s) PROVE Goal
  <2>1. /\ mode = "run" /\ Resched(thr_ready) /\ thr_current \in Threads
        /\ UNCHANGED <<time_ticks, thr_sleep>>
        /\ \E ok \in Alloc :
              wait_list' = [wait_list EXCEPT ![s] = IF ok THEN Append(@, thr_current) ELSE @]
    BY <1>7, <1>t DEF SemBlock
  <2>2. \A q \in Sems : Waiters(q)' \subseteq Waiters(q) \cup {thr_current}
    BY <1>t, <2>1, AppendItems DEF Waiters
  <2>3. NotAsleep' \subseteq NotAsleep
    BY <1>r, <2>1, <2>2 DEF NotAsleep, Awake
  <2> QED  BY <1>u, <1>l, <1>r, <2>1, <2>3, CalmStep
<1>8. ASSUME NEW s \in Sems, SemHandOver(s) PROVE Goal
  <2> DEFINE t == Head(wait_list[s])
  <2>1. /\ mode = "run" /\ mode' = "run" /\ wait_list[s] # <<>>
        /\ wait_list' = [wait_list EXCEPT ![s] = Tail(@)]
        /\ UNCHANGED <<time_ticks, thr_current, thr_sleep>>
        /\ \E ok \in Alloc : thr_ready' = IF ok THEN OlistAdd(thr_ready, t, ByPriority) ELSE thr_ready
    BY <1>8 DEF SemHandOver
  <2>2. t \in Threads /\ t \in Waiters(s) /\ \A q \in Sems : Waiters(q)' \subseteq Waiters(q)
    BY <1>t, <2>1, TailItems DEF Waiters
  <2> HIDE DEF t
  <2>3. Items(thr_ready') \subseteq Items(thr_ready) \cup {t}
    BY <1>t, <2>1, <2>2, ReadyAdd
  <2>4. NotAsleep' \subseteq NotAsleep
    BY <2>1, <2>2, <2>3 DEF NotAsleep, Awake
  <2> QED  BY <1>u, <1>l, <2>1, <2>4, CalmStep
<1> HIDE DEF Goal
<1>9. Goal
  BY <1>u, <1>1, <1>2, <1>3, <1>4, <1>5, <1>6, <1>7, <1>8 DEF OtherStep, Timer
<1> QED  BY <1>9 DEF Goal

(* A sleep: the calling thread has an entry with the time it asked for, or  *)
(* none at all when memory ran out, and is excused or owed the delay.       *)
LEMMA QueuedLeft ==
    ASSUME ClockInv, TypeInv', NEW a \in SleepArgs, SleepQueued(a[1], a[2]),
           NEW n \in Nat, NEW X, excused' = X, X \subseteq Threads,
           excused \ {thr_current} \subseteq X, X \subseteq excused \cup {thr_current},
           left' = [left EXCEPT ![thr_current] = n],
           thr_current \notin X =>
               \E k \in Nat : /\ n = Delay(k)
                              /\ TargTicks(a[1], a[2]) = {(time_ticks + k) % TickMod}
                              /\ time_ticks + n < TickMod
    PROVE  LeftTyped' /\ Owed' /\ NothingOwed'
<1>t. /\ thr_ready \in Seq(Threads)
      /\ thr_sleep \in Seq(SleepEntry)
      /\ time_ticks \in Nat
      /\ left \in [Threads -> Nat]
  BY TicksNat DEF ClockInv, TypeInv, TypeOK, LeftTyped
<1>p. TypeInv /\ OnePlace /\ Owed /\ NothingOwed
  BY DEF ClockInv, Placement
<1>c. /\ mode = "run" /\ thr_current \in Threads /\ Resched(thr_ready)
      /\ UNCHANGED <<time_ticks, wait_list>>
  BY <1>p DEF SleepQueued, TypeInv, TypeOK
<1>l. /\ left'[thr_current] = n
      /\ \A t \in Threads : t # thr_current => left'[t] = left[t]
  BY <1>t, <1>c
<1>1. PICK targ_ticks \in TargTicks(a[1], a[2]), ok \in Alloc :
         thr_sleep' = IF ok THEN OlistAdd(thr_sleep, [thread |-> thr_current, time |-> targ_ticks], ByTime)
                      ELSE thr_sleep
  BY DEF SleepQueued
<1> DEFINE ent == [thread |-> thr_current, time |-> targ_ticks]
<1>2. ent \in SleepEntry /\ ent.thread = thr_current /\ ent.time = targ_ticks
  BY <1>c, <1>p, TargTicksType DEF SleepEntry, TypeInv, TypeOK
<1> HIDE DEF ent
<1>3. Items(thr_sleep') \subseteq Items(thr_sleep) \cup {ent}
  BY <1>t, <1>1, <1>2, SleepAdd DEF ent
<1>4. LeftTyped'
  BY <1>t DEF LeftTyped
<1>5. Owed'
  <2> SUFFICES ASSUME NEW e \in Items(thr_sleep'), e.thread \notin X
               PROVE  /\ left'[e.thread] = Delay(e.time - time_ticks)
                      /\ e.time >= time_ticks /\ time_ticks + 1 < TickMod
                      /\ mode' # "irq"
    BY <1>c DEF Owed
  <2>0. mode' # "irq"
    BY <1>t, <1>p, <1>c, ReschedPlaces DEF OnePlace
  <2>1. CASE e = ent
    <3>1. PICK k \in Nat : /\ n = Delay(k)
                           /\ targ_ticks = (time_ticks + k) % TickMod
                           /\ time_ticks + n < TickMod
      BY <1>1, <1>2, <2>1
    <3>2. time_ticks + k \in Nat /\ time_ticks + k < TickMod /\ time_ticks + 1 < TickMod
      <4>1. TickMod \in Nat
        BY TimeAssumption
      <4>2. k <= n /\ 1 <= n
        BY <3>1 DEF Delay
      <4> QED  BY <1>t, <3>1, <4>1, <4>2
    <3>3. targ_ticks = time_ticks + k
      BY <3>1, <3>2, ModSmall, TimeAssumption
    <3>4. ent.time - time_ticks = k /\ ent.time >= time_ticks
      BY <1>t, <1>2, <3>3
    <3> QED  BY <1>l, <1>2, <2>0, <2>1, <3>1, <3>2, <3>4
  <2>2. CASE e \in Items(thr_sleep)
    <3>1. e \in SleepEntry /\ e.thread \in Sleepers
      BY <1>t, <2>2 DEF Items, Sleepers, EntryThreads
    <3>2. e.thread # thr_current /\ e.thread \in Threads
      BY <1>p, <3>1 DEF OnePlace, Blocked, SleepEntry
    <3>3. left'[e.thread] = left[e.thread] /\ e.thread \notin excused
      BY <1>l, <3>2
    <3> QED  BY <1>c, <1>p, <2>0, <2>2, <3>3 DEF Owed
  <2> QED  BY <1>3, <2>1, <2>2
<1>6. NothingOwed'
  <2>1. /\ thr_current' \in Items(thr_ready) \cup {NULL}
        /\ Items(thr_ready') \subseteq Items(thr_ready)
        /\ mode' \in {"run", "crash"}
    BY <1>t, <1>p, <1>c, ReschedPlaces DEF OnePlace
  <2>2. \A s \in Sems : Waiters(s)' = Waiters(s)
    BY <1>c, WaitersSame
  <2>3. NotAsleep' \subseteq NotAsleep
    BY <2>1, <2>2, ThreadsAssumption DEF NotAsleep, Awake
  <2>4. NotAsleep \subseteq Threads
    <3>1. Items(thr_ready) \subseteq Threads /\ \A s \in Sems : Waiters(s) \subseteq Threads
      BY <1>p DEF TypeInv, TypeOK, Items, Waiters
    <3> QED  BY <3>1 DEF NotAsleep, Awake
  <2>5. thr_current \notin NotAsleep'
    <3>1. thr_current \notin Items(thr_ready) /\ \A s \in Sems : thr_current \notin Waiters(s)
      BY <1>p, <1>c DEF OnePlace, Blocked
    <3> QED  BY <1>c, <2>1, <2>2, <3>1, ThreadsAssumption DEF NotAsleep, Awake
  <2> QED  BY <1>c, <1>l, <1>p, <2>1, <2>3, <2>4, <2>5 DEF NothingOwed
<1> QED  BY <1>4, <1>5, <1>6

(* So does a call of sleep. *)
LEMMA SleepLeft ==
    ASSUME ClockInv, TypeInv', NEW a \in SleepArgs,
           ClockSleep(a[1], a[2]) \/ ClockSleepBadUnit(a[1], a[2])
    PROVE  LeftTyped' /\ Owed' /\ NothingOwed'
<1> DEFINE k == UnitTicks[a[2]] * a[1]
           n == IF a[2] \in DOMAIN UnitTicks THEN Delay(k) ELSE 0
<1>0. a[2] \in DOMAIN UnitTicks => k \in Nat
  <2> SUFFICES ASSUME a[2] \in DOMAIN UnitTicks PROVE k \in Nat
    OBVIOUS
  <2>1. UnitTicks[a[2]] \in Nat /\ a[1] \in Nat
    BY TimeAssumption DEF UnitTicks
  <2> DEFINE u == UnitTicks[a[2]]
  <2> HIDE DEF u
  <2>2. u \in Nat => u * a[1] \in Nat
    BY <2>1
  <2> QED  BY <2>1, <2>2 DEF u
<1>1. n \in Nat
  <2> HIDE DEF k
  <2> QED  BY <1>0 DEF Delay
<1>2. /\ left' = [left EXCEPT ![thr_current] = n]
      /\ excused \ {thr_current} \subseteq excused'
      /\ excused' \subseteq excused \cup {thr_current}
      /\ thr_current \notin excused' =>
            \E j \in Nat : /\ n = Delay(j)
                           /\ TargTicks(a[1], a[2]) = {(time_ticks + j) % TickMod}
                           /\ time_ticks + n < TickMod
      /\ SleepQueued(a[1], a[2]) \/ SleepPanics
  <2>1. CASE ClockSleep(a[1], a[2])
    <3>1. /\ a[2] \in DOMAIN UnitTicks
          /\ k \in Nat /\ n = Delay(k)
          /\ TargTicks(a[1], a[2]) = {(time_ticks + k) % TickMod}
      BY <1>0, <2>1 DEF ClockSleep, TargTicks
    <3>2. /\ left' = [left EXCEPT ![thr_current] = n]
          /\ excused' = IF time_ticks + n < TickMod
                        THEN excused \ {thr_current} ELSE excused \cup {thr_current}
          /\ SleepQueued(a[1], a[2]) \/ SleepPanics
      BY <2>1, <3>1 DEF ClockSleep, Sleep
    <3> HIDE DEF k, n
    <3> QED  BY <3>1, <3>2
  <2>2. CASE ClockSleepBadUnit(a[1], a[2])
    BY <2>2 DEF ClockSleepBadUnit, Sleep
  <2> QED  BY <2>1, <2>2
<1> HIDE DEF k, n
<1>t. thr_current \in Threads /\ mode = "run"
  BY <1>2 DEF ClockInv, TypeInv, SleepQueued, SleepPanics
<1>3. excused' \subseteq Threads
  BY <1>2, <1>t DEF ClockInv, LeftTyped
<1>4. CASE SleepQueued(a[1], a[2])
  BY <1>1, <1>2, <1>3, <1>4, QueuedLeft
<1>5. CASE SleepPanics
  <2>1. /\ mode' = "panic"
        /\ UNCHANGED <<time_ticks, thr_current, thr_sleep>>
    BY <1>5 DEF SleepPanics, lists
  <2>2. \A e \in Items(thr_sleep) : e.thread \in Sleepers /\ e \in SleepEntry
    BY DEF Items, Sleepers, EntryThreads, ClockInv, TypeInv, TypeOK
  <2>3. \A e \in Items(thr_sleep) : e.thread # thr_current /\ e.thread \in Threads
    BY <1>t, <2>2 DEF ClockInv, Placement, OnePlace, Blocked, SleepEntry
  <2>4. LeftTyped'
    BY <1>1, <1>2, <1>3 DEF ClockInv, LeftTyped
  <2>5. Owed'
    BY <1>2, <2>1, <2>3 DEF ClockInv, Owed, LeftTyped
  <2> QED  BY <2>1, <2>4, <2>5 DEF NothingOwed
<1> QED  BY <1>2, <1>4, <1>5

(* Every step keeps ClockInv. *)
LEMMA NextClockInv == ClockInv /\ [ClockNext]_clockVars => ClockInv'
<1> SUFFICES ASSUME ClockInv, [ClockNext]_clockVars PROVE ClockInv'
  OBVIOUS
<1>1. [Next]_vars
  BY DEF ClockNext, ClockStep, ClockSleep, ClockSleepBadUnit, Next, clockVars
<1>2. TypeInv' /\ Placement' /\ ListsOrdered'
  BY <1>1, NextTypeInv, NextPlacement, NextOrdered DEF ClockInv
<1>3. CASE ClockNext
  <2>1. LeftTyped' /\ Owed' /\ NothingOwed'
    BY <1>2, <1>3, OtherStepLeft, SleepLeft DEF ClockNext
  <2> QED  BY <1>2, <2>1 DEF ClockInv
<1>4. CASE UNCHANGED clockVars
  <2>1. UNCHANGED <<mode, time_ticks, thr_current, thr_ready, thr_sleep, wait_list, left, excused>>
    BY <1>4 DEF clockVars, vars, lists
  <2>2. NotAsleep' = NotAsleep
    BY <2>1, WaitersSame DEF NotAsleep, Awake
  <2>3. LeftTyped' /\ Owed' /\ NothingOwed'
    BY <2>1, <2>2 DEF ClockInv, LeftTyped, Owed, NothingOwed
  <2> QED  BY <1>2, <2>3 DEF ClockInv
<1> QED  BY <1>3, <1>4

(* ClockInv holds in every state. *)
LEMMA ClockInvAlways == ClockSpec => []ClockInv
BY InitClockInv, NextClockInv, PTL DEF ClockSpec

-----------------------------------------------------------------------------
(* syscall_sleep, time_irq_handler: no thread is awake before the delay it  *)
(* asked for is over.                                                       *)
THEOREM NeverWokenEarlyEver == ClockSpec => []NeverWokenEarly
<1>1. ClockInv => NeverWokenEarly
  BY DEF ClockInv, NothingOwed, NotAsleep, NeverWokenEarly
<1> QED  BY <1>1, ClockInvAlways, PTL

(* ... nor is it still asleep when the handler of the tick that ends its    *)
(* delay is done, although that handler looks at the head of the list only. *)
THEOREM NeverSleepsLateEver == ClockSpec => []NeverSleepsLate
<1>1. ClockInv => NeverSleepsLate
  <2> SUFFICES ASSUME ClockInv, mode = "run", NEW i \in 1 .. Len(thr_sleep),
                      thr_sleep[i].thread \notin excused
               PROVE  left[thr_sleep[i].thread] > 0
    BY DEF NeverSleepsLate
  <2> DEFINE e == thr_sleep[i]
  <2>1. e \in Items(thr_sleep) /\ e \in SleepEntry /\ time_ticks \in Nat
    BY TicksNat DEF Items, ClockInv, TypeInv, TypeOK
  <2> HIDE DEF e
  <2>2. e.time \in Nat
    BY <2>1, TicksNat DEF SleepEntry
  <2>3. left[e.thread] = Delay(e.time - time_ticks) /\ e.time >= time_ticks
    BY <2>1 DEF ClockInv, Owed, e
  <2>4. left[e.thread] > 0
    BY <2>1, <2>2, <2>3 DEF Delay
  <2> QED  BY <2>4 DEF e
<1> QED  BY <1>1, ClockInvAlways, PTL

-----------------------------------------------------------------------------
(* Preempt.                                                                *)

Pcs == {"idle", "crit", "ret", "test", "dec", "queue", "mark", "pick", "save", "curr", "run",
        "rtest", "rpop", "radd", "rmark", "rinc", "used"}

Context == [thr : Threads, pc : Pcs, sem : Sems, nxt : Threads \cup {NULL}]

CtxTyped == cpu \in Context /\ kctx \in [Threads -> Context]

(* The types that interrupts inside a call leave as they are.               *)
QueuesTyped ==
    /\ time_ticks \in Ticks
    /\ thr_current \in Threads \cup {NULL}
    /\ thr_ready \in Seq(Threads)
    /\ thr_sleep \in Seq(SleepEntry)
    /\ wait_list \in [Sems -> Seq(Threads)]

(* The running thread is the current one, but after resched_no_int has made *)
(* another one current and before it has left its own stack.                *)
OwnStack ==
    /\ \A t \in Threads : kctx[t].thr = t /\ kctx[t].pc # "run"
    /\ thr_current = IF cpu.pc = "run" THEN cpu.nxt ELSE cpu.thr
    /\ mode \in {"boot", "irq"} => cpu.pc # "run"

StackInv == Uncut({"run"}) => QueuesTyped /\ CtxTyped /\ OwnStack

(* StackInv holds at boot. *)
LEMMA InitStackInv == PInit => StackInv
<1> SUFFICES ASSUME PInit PROVE QueuesTyped /\ CtxTyped /\ OwnStack
  BY DEF StackInv
<1>1. PICK s \in Sems :
         /\ cpu = [thr |-> Main, pc |-> "idle", sem |-> s, nxt |-> NULL]
         /\ kctx = [t \in Threads |->
                      [cpu EXCEPT !.thr = t, !.pc = IF t = Main THEN "used" ELSE "idle"]]
  BY DEF PInit
<1>2. Init /\ TypeInv
  BY InitTypeInv DEF PInit
<1>3. QueuesTyped
  BY <1>2 DEF TypeInv, TypeOK, QueuesTyped
<1>4. cpu \in Context /\ cpu.thr = Main /\ cpu.pc = "idle"
  BY <1>1, ThreadsAssumption DEF Context, Pcs
<1>5. \A t \in Threads : kctx[t] \in Context /\ kctx[t].thr = t /\ kctx[t].pc # "run"
  BY <1>1, ThreadsAssumption DEF Context, Pcs
<1>6. CtxTyped
  BY <1>1, <1>4, <1>5 DEF CtxTyped
<1>7. thr_current = Main /\ mode = "boot"
  BY <1>2 DEF Init
<1> QED  BY <1>3, <1>4, <1>5, <1>6, <1>7 DEF OwnStack

(* The instruction moves on by a field of the context it is executed in.    *)
LEMMA GoFields ==
    ASSUME CtxTyped, NEW from, NEW to \in Pcs, Go(from, to)
    PROVE  /\ mode = "run" /\ cpu.pc = from
           /\ cpu' \in Context /\ cpu'.pc = to
           /\ cpu'.thr = cpu.thr /\ cpu'.sem = cpu.sem /\ cpu'.nxt = cpu.nxt
BY DEF Go, CtxTyped, Context

(* A frame that is resumed is the saved one.                                *)
LEMMA ResumeFields ==
    ASSUME NEW saved \in [Threads -> Context], NEW t \in Threads \cup {NULL}, Resume(saved, t)
    PROVE  /\ t \in Threads /\ cpu' = saved[t] /\ CtxTyped'
           /\ kctx'[t].thr = saved[t].thr /\ kctx'[t].pc = "used"
           /\ \A u \in Threads : u # t => kctx'[u] = saved[u]
<1>1. t \in Threads /\ cpu' = saved[t] /\ saved[t] \in Context
  BY DEF Resume
<1> DEFINE k == [saved[t] EXCEPT !.pc = "used", !.nxt = NULL]
<1>2. k \in Context /\ k.thr = saved[t].thr /\ k.pc = "used"
  BY <1>1 DEF Context, Pcs
<1>3. kctx' = [saved EXCEPT ![t] = k]
  <2>1. kctx' = [saved EXCEPT ![t].pc = "used", ![t].nxt = NULL]
    BY DEF Resume
  <2> QED  BY <1>1, <2>1 DEF Context
<1> HIDE DEF k
<1>4. kctx' \in [Threads -> Context] /\ kctx'[t] = k
      /\ \A u \in Threads : u # t => kctx'[u] = saved[u]
  BY <1>1, <1>2, <1>3
<1> QED  BY <1>1, <1>2, <1>4 DEF CtxTyped

(* The history of cuts only grows. *)
LEMMA CutsGrow == [PNext]_pvars => cuts \subseteq cuts'
BY DEF PNext, pvars, Boot, Irq, IrqEnter, IrqWake, IrqExit, SleepCall, WaitCall, Go, Wait,
       WaitTest, WaitDec, WaitQueue, WaitMark, WaitPick, WaitSave, WaitCurr, WaitRun, WaitReturn,
       Release, ReleaseCall, ReleaseTest, ReleasePop, ReleaseAdd, ReleaseMark, ReleaseInc

StackOK == QueuesTyped /\ CtxTyped /\ OwnStack

(* Every step of sem_wait and sem_release but the last of resched_no_int    *)
(* stays on the stack it is executed on.                                    *)
LEMMA OnOneStack ==
    ASSUME StackOK, NEW from, NEW to \in Pcs \ {"run"}, from # "run", Go(from, to),
           UNCHANGED <<thr_current, kctx, mode>>
    PROVE  CtxTyped' /\ OwnStack'
BY GoFields DEF StackOK, CtxTyped, OwnStack

(* The steps of sem_wait. *)
LEMMA WaitStackStep ==
    ASSUME StackOK, Wait PROVE StackOK'
<1> USE DEF StackOK
<1>t. cpu.pc # "run" => thr_current = cpu.thr /\ thr_current \in Threads
  BY DEF OwnStack, CtxTyped, Context
<1>1. CASE WaitTest
  <2>1. CtxTyped' /\ OwnStack'
    BY <1>1, OnOneStack DEF WaitTest, vars, Pcs
  <2> QED  BY <1>1, <2>1 DEF WaitTest, vars, lists, QueuesTyped
<1>2. CASE WaitDec
  <2>1. CtxTyped' /\ OwnStack'
    BY <1>2, OnOneStack DEF WaitDec, Pcs
  <2> QED  BY <1>2, <2>1 DEF WaitDec, lists, QueuesTyped
<1>3. CASE WaitQueue
  <2>1. CtxTyped' /\ OwnStack'
    BY <1>3, OnOneStack DEF WaitQueue, Pcs
  <2>2. cpu.sem \in Sems /\ thr_current \in Threads
    BY <1>t, <1>3 DEF WaitQueue, Go, CtxTyped, Context
  <2>3. Append(wait_list[cpu.sem], thr_current) \in Seq(Threads)
    BY <2>2, AppendItems DEF QueuesTyped
  <2>4. wait_list' \in [Sems -> Seq(Threads)]
    BY <1>3, <2>2, <2>3 DEF WaitQueue, QueuesTyped
  <2> QED  BY <1>3, <2>1, <2>4 DEF WaitQueue, QueuesTyped
<1>4. CASE WaitMark
  <2>1. CtxTyped' /\ OwnStack'
    BY <1>4, OnOneStack DEF WaitMark, Pcs
  <2> QED  BY <1>4, <2>1 DEF WaitMark, lists, QueuesTyped
<1>5. CASE WaitPick
  <2>1. /\ DelFirst(thr_ready) \in Threads \cup {NULL}
        /\ Rest(thr_ready) \in Seq(Threads)
    BY TailItems DEF DelFirst, Rest, QueuesTyped
  <2>2. /\ cpu' = [cpu EXCEPT !.pc = "save", !.nxt = DelFirst(thr_ready)] /\ cpu.pc = "pick"
        /\ thr_ready' = Rest(thr_ready)
        /\ UNCHANGED <<mode, time_ticks, thr_current, thr_sleep, wait_list, kctx>>
    BY <1>5 DEF WaitPick
  <2>3. cpu' \in Context /\ cpu'.pc = "save" /\ cpu'.thr = cpu.thr
    BY <2>1, <2>2 DEF CtxTyped, Context, Pcs
  <2> QED  BY <2>1, <2>2, <2>3 DEF QueuesTyped, CtxTyped, OwnStack
<1>6. CASE WaitSave
  <2> DEFINE k == [cpu EXCEPT !.pc = "ret", !.nxt = NULL]
  <2>1. /\ cpu.pc = "save" /\ cpu' \in Context /\ cpu'.pc = "curr" /\ cpu'.thr = cpu.thr
    BY <1>6, GoFields DEF WaitSave, Pcs
  <2>2. k \in Context /\ k.thr = cpu.thr /\ k.pc = "ret"
    BY DEF CtxTyped, Context, Pcs
  <2>3. kctx' = [kctx EXCEPT ![cpu.thr] = k] /\ UNCHANGED vars /\ cpu.thr \in Threads
    BY <1>6, <1>t, <2>1 DEF WaitSave
  <2> HIDE DEF k
  <2>4. CtxTyped' /\ kctx'[cpu.thr] = k /\ \A u \in Threads : u # cpu.thr => kctx'[u] = kctx[u]
    BY <2>1, <2>2, <2>3 DEF CtxTyped
  <2>5. UNCHANGED <<mode, time_ticks, thr_current, thr_ready, thr_sleep, wait_list>>
    BY <2>3 DEF vars, lists
  <2>6. OwnStack'
    BY <2>1, <2>2, <2>4, <2>5 DEF OwnStack
  <2> QED  BY <2>4, <2>5, <2>6 DEF QueuesTyped
<1>7. CASE WaitCurr
  <2>1. /\ cpu' \in Context /\ cpu'.pc = "run" /\ cpu'.nxt = cpu.nxt /\ mode = "run"
    BY <1>7, GoFields DEF WaitCurr, Pcs
  <2>2. /\ thr_current' = cpu.nxt
        /\ UNCHANGED <<mode, time_ticks, thr_ready, thr_sleep, wait_list, kctx>>
    BY <1>7 DEF WaitCurr, lists
  <2>3. cpu.nxt \in Threads \cup {NULL}
    BY DEF CtxTyped, Context
  <2> QED  BY <2>1, <2>2, <2>3 DEF QueuesTyped, CtxTyped, OwnStack
<1>8. CASE WaitRun
  <2>1. cpu.pc = "run" /\ UNCHANGED vars /\ Resume(kctx, cpu.nxt)
        /\ cpu.nxt \in Threads \cup {NULL} /\ kctx \in [Threads -> Context]
    BY <1>8 DEF WaitRun, CtxTyped, Context
  <2>2. /\ cpu.nxt \in Threads /\ cpu' = kctx[cpu.nxt] /\ CtxTyped'
        /\ kctx'[cpu.nxt].thr = kctx[cpu.nxt].thr /\ kctx'[cpu.nxt].pc = "used"
        /\ \A u \in Threads : u # cpu.nxt => kctx'[u] = kctx[u]
    BY <2>1, ResumeFields
  <2>3. UNCHANGED <<mode, time_ticks, thr_current, thr_ready, thr_sleep, wait_list>>
    BY <2>1 DEF vars, lists
  <2>4. OwnStack'
    BY <2>1, <2>2, <2>3 DEF OwnStack
  <2> QED  BY <2>2, <2>3, <2>4 DEF QueuesTyped
<1>9. CASE WaitReturn
  <2>1. CtxTyped' /\ OwnStack'
    BY <1>9, OnOneStack DEF WaitReturn, vars, Pcs
  <2> QED  BY <1>9, <2>1 DEF WaitReturn, vars, lists, QueuesTyped
<1> QED  BY <1>1, <1>2, <1>3, <1>4, <1>5, <1>6, <1>7, <1>8, <1>9 DEF Wait

(* The steps of sem_release. *)
LEMMA ReleaseStackStep ==
    ASSUME StackOK, Release PROVE StackOK'
<1> USE DEF StackOK
<1>1. CASE ReleaseCall
  <2>1. CtxTyped' /\ OwnStack'
    BY <1>1, OnOneStack DEF ReleaseCall, vars, Pcs
  <2> QED  BY <1>1, <2>1 DEF ReleaseCall, vars, lists, QueuesTyped
<1>2. CASE ReleaseTest
  <2>1. CtxTyped' /\ OwnStack'
    BY <1>2, OnOneStack DEF ReleaseTest, vars, Pcs
  <2> QED  BY <1>2, <2>1 DEF ReleaseTest, vars, lists, QueuesTyped
<1>3. CASE ReleasePop
  <2>1. cpu.sem \in Sems /\ wait_list[cpu.sem] \in Seq(Threads)
    BY DEF CtxTyped, Context, QueuesTyped
  <2>2. /\ DelFirst(wait_list[cpu.sem]) \in Threads \cup {NULL}
        /\ Rest(wait_list[cpu.sem]) \in Seq(Threads)
    BY <2>1, TailItems DEF DelFirst, Rest
  <2>3. /\ cpu' = [cpu EXCEPT !.pc = "radd", !.nxt = DelFirst(wait_list[cpu.sem])]
        /\ cpu.pc = "rpop"
        /\ wait_list' = [wait_list EXCEPT ![cpu.sem] = Rest(@)]
        /\ UNCHANGED <<mode, time_ticks, thr_current, thr_ready, thr_sleep, kctx>>
    BY <1>3 DEF ReleasePop
  <2>4. cpu' \in Context /\ cpu'.pc = "radd" /\ cpu'.thr = cpu.thr
    BY <2>2, <2>3 DEF CtxTyped, Context, Pcs
  <2>5. wait_list' \in [Sems -> Seq(Threads)]
    BY <2>1, <2>2, <2>3 DEF QueuesTyped
  <2> QED  BY <2>3, <2>4, <2>5 DEF QueuesTyped, CtxTyped, OwnStack
<1>4. CASE ReleaseAdd
  <2>1. CtxTyped' /\ OwnStack'
    BY <1>4, OnOneStack DEF ReleaseAdd, Pcs
  <2>2. cpu.nxt \in Threads
    BY <1>4 DEF ReleaseAdd, CtxTyped, Context
  <2>3. thr_ready' \in Seq(Threads)
    BY <1>4, <2>2, ReadyAdd DEF ReleaseAdd, QueuesTyped
  <2> QED  BY <1>4, <2>1, <2>3 DEF ReleaseAdd, QueuesTyped
<1>5. CASE ReleaseMark
  <2>1. /\ cpu' = [cpu EXCEPT !.pc = "idle", !.nxt = NULL] /\ cpu.pc = "rmark"
        /\ UNCHANGED <<mode, time_ticks, thr_current, thr_ready, thr_sleep, wait_list, kctx>>
    BY <1>5 DEF ReleaseMark, lists
  <2>2. cpu' \in Context /\ cpu'.pc = "idle" /\ cpu'.thr = cpu.thr
    BY <2>1 DEF CtxTyped, Context, Pcs
  <2> QED  BY <2>1, <2>2 DEF QueuesTyped, CtxTyped, OwnStack
<1>6. CASE ReleaseInc
  <2>1. CtxTyped' /\ OwnStack'
    BY <1>6, OnOneStack DEF ReleaseInc, Pcs
  <2> QED  BY <1>6, <2>1 DEF ReleaseInc, lists, QueuesTyped
<1> QED  BY <1>1, <1>2, <1>3, <1>4, <1>5, <1>6 DEF Release

(* An interrupt's dispatch: the interrupted context is saved in the current *)
(* thread, whose stack it is on, and the next current thread is resumed.    *)
LEMMA DispatchStack ==
    ASSUME StackOK, cpu.pc # "run", thr_current \in Threads,
           thr_current' \in Threads \cup {NULL},
           Resume([kctx EXCEPT ![thr_current] = cpu], thr_current')
    PROVE  CtxTyped' /\ OwnStack'
<1> USE DEF StackOK
<1> DEFINE saved == [kctx EXCEPT ![thr_current] = cpu]
<1>1. saved \in [Threads -> Context]
  BY DEF CtxTyped
<1>2. \A u \in Threads : saved[u].thr = u /\ saved[u].pc # "run"
  BY DEF CtxTyped, OwnStack
<1> HIDE DEF saved
<1>3. Resume(saved, thr_current')
  BY DEF saved
<1>4. /\ thr_current' \in Threads /\ cpu' = saved[thr_current'] /\ CtxTyped'
      /\ kctx'[thr_current'].thr = saved[thr_current'].thr /\ kctx'[thr_current'].pc = "used"
      /\ \A u \in Threads : u # thr_current' => kctx'[u] = saved[u]
  BY <1>1, <1>3, ResumeFields
<1> QED  BY <1>2, <1>4 DEF OwnStack

(* Boot, the timer handler and the sleep system call. *)
LEMMA OtherStackStep ==
    ASSUME StackOK, cpu.pc # "run",
           Boot \/ Irq \/ \E a \in SleepArgs : SleepCall(a[1], a[2])
    PROVE  StackOK'
<1> USE DEF StackOK
<1>t. thr_current = cpu.thr /\ thr_current \in Threads
  BY DEF OwnStack, CtxTyped, Context
<1>1. CASE Boot
  <2>1. UNCHANGED <<time_ticks, thr_current, thr_sleep, wait_list, cpu, kctx>>
    BY <1>1 DEF Boot, NewThread, EnableInterrupts, lists
  <2>2. thr_ready' \in Seq(Threads)
    BY <1>1, ReadyAdd DEF Boot, NewThread, EnableInterrupts, lists, QueuesTyped
  <2> QED  BY <2>1, <2>2 DEF QueuesTyped, CtxTyped, OwnStack
<1>2. CASE IrqEnter
  <2>1. UNCHANGED <<thr_current, thr_sleep, wait_list, cpu, kctx>>
    BY <1>2 DEF IrqEnter, TimerEnter
  <2>2. time_ticks' \in Ticks
    BY <1>2, TimeAssumption DEF IrqEnter, TimerEnter, QueuesTyped, Ticks
  <2>3. thr_ready' \in Seq(Threads)
    BY <1>2, <1>t, ReadyAdd DEF IrqEnter, TimerEnter, QueuesTyped
  <2> QED  BY <2>1, <2>2, <2>3 DEF QueuesTyped, CtxTyped, OwnStack
<1>3. CASE IrqWake
  <2>1. UNCHANGED <<time_ticks, thr_current, wait_list, cpu, kctx>>
    BY <1>3 DEF IrqWake, WakeOne
  <2>2. thr_sleep # <<>> /\ thr_sleep' = Tail(thr_sleep)
    BY <1>3 DEF IrqWake, WakeOne, SleeperDue
  <2>3. Head(thr_sleep) \in SleepEntry /\ thr_sleep' \in Seq(SleepEntry)
    BY <2>2, TailItems DEF QueuesTyped
  <2>4. Head(thr_sleep).thread \in Threads
    BY <2>3 DEF SleepEntry
  <2>5. thr_ready' \in Seq(Threads)
    BY <1>3, <2>4, ReadyAdd DEF IrqWake, WakeOne, QueuesTyped
  <2> QED  BY <2>1, <2>3, <2>5 DEF QueuesTyped, CtxTyped, OwnStack
<1>4. CASE IrqExit
  <2>1. /\ thr_ready' \in Seq(Threads) /\ thr_current' \in Threads \cup {NULL}
        /\ UNCHANGED <<time_ticks, thr_sleep, wait_list>>
        /\ Resume([kctx EXCEPT ![thr_current] = cpu], thr_current')
    BY <1>4, ReschedType DEF IrqExit, TimerExit, QueuesTyped
  <2>2. CtxTyped' /\ OwnStack'
    BY <1>t, <2>1, DispatchStack
  <2> QED  BY <2>1, <2>2 DEF QueuesTyped
<1>5. ASSUME NEW a \in SleepArgs, SleepCall(a[1], a[2]) PROVE StackOK'
  <2>1. /\ Sleep(a[1], a[2])
        /\ Resume([kctx EXCEPT ![thr_current] = cpu], thr_current')
    BY <1>5 DEF SleepCall
  <2>2. CASE SleepQueued(a[1], a[2])
    <3>1. /\ thr_ready' \in Seq(Threads) /\ thr_current' \in Threads \cup {NULL}
          /\ UNCHANGED <<time_ticks, wait_list>>
      BY <2>2, ReschedType DEF SleepQueued, QueuesTyped
    <3>2. PICK targ_ticks \in TargTicks(a[1], a[2]), ok \in Alloc :
             thr_sleep' = IF ok THEN OlistAdd(thr_sleep, [thread |-> thr_current, time |-> targ_ticks], ByTime)
                          ELSE thr_sleep
      BY <2>2 DEF SleepQueued
    <3>3. [thread |-> thr_current, time |-> targ_ticks] \in SleepEntry
      BY <1>t, TargTicksType DEF QueuesTyped, SleepEntry
    <3>4. thr_sleep' \in Seq(SleepEntry)
      BY <3>2, <3>3, SleepAdd DEF QueuesTyped
    <3>5. CtxTyped' /\ OwnStack'
      BY <1>t, <2>1, <3>1, DispatchStack
    <3> QED  BY <3>1, <3>4, <3>5 DEF QueuesTyped
  <2>3. CASE SleepPanics
    <3>1. UNCHANGED <<time_ticks, thr_current, thr_ready, thr_sleep, wait_list>>
      BY <2>3 DEF SleepPanics, lists
    <3>2. CtxTyped' /\ OwnStack'
      BY <1>t, <2>1, <3>1, DispatchStack
    <3> QED  BY <3>1, <3>2 DEF QueuesTyped
  <2> QED  BY <2>1, <2>2, <2>3 DEF Sleep
<1> QED  BY <1>1, <1>2, <1>3, <1>4, <1>5 DEF Irq

(* Every step keeps StackInv, whatever it interrupts. *)
LEMMA NextStackInv == StackInv /\ [PNext]_pvars => StackInv'
<1> SUFFICES ASSUME StackInv, [PNext]_pvars, Uncut({"run"})' PROVE StackOK'
  BY DEF StackInv, StackOK
<1>1. cuts \subseteq cuts' /\ "run" \notin cuts'
  BY CutsGrow DEF Uncut
<1>2. StackOK
  BY <1>1 DEF StackInv, StackOK, Uncut
<1>3. CASE Wait
  BY <1>2, <1>3, WaitStackStep
<1>4. CASE Release
  BY <1>2, <1>4, ReleaseStackStep
<1>5. CASE Boot \/ Irq \/ \E a \in SleepArgs : SleepCall(a[1], a[2])
  <2>1. cpu.pc # "run"
    <3>1. CASE Boot
      <4>1. mode = "boot"
        BY <3>1 DEF Boot, NewThread, EnableInterrupts
      <4> QED  BY <1>2, <4>1 DEF StackOK, OwnStack
    <3>2. CASE IrqEnter
      BY <1>1, <3>2 DEF IrqEnter, InCall, InWait, InBlock
    <3>3. CASE IrqWake \/ IrqExit
      BY <1>2, <3>3 DEF IrqWake, IrqExit, WakeOne, TimerExit, StackOK, OwnStack
    <3>4. ASSUME NEW a \in SleepArgs, SleepCall(a[1], a[2]) PROVE cpu.pc # "run"
      BY <3>4 DEF SleepCall
    <3> QED  BY <1>5, <3>1, <3>2, <3>3, <3>4 DEF Irq
  <2> QED  BY <1>2, <1>5, <2>1, OtherStackStep
<1>6. ASSUME NEW s \in Sems, WaitCall(s) PROVE StackOK'
  <2>1. /\ cpu' = [cpu EXCEPT !.pc = "test", !.sem = s] /\ cpu.pc = "idle"
        /\ UNCHANGED <<vars, kctx>>
    BY <1>6 DEF WaitCall
  <2>2. cpu' \in Context /\ cpu'.pc = "test" /\ cpu'.thr = cpu.thr
    BY <1>2, <2>1 DEF StackOK, CtxTyped, Context, Pcs
  <2>3. UNCHANGED <<mode, time_ticks, thr_current, thr_ready, thr_sleep, wait_list, kctx>>
    BY <2>1 DEF vars, lists
  <2> QED  BY <1>2, <2>1, <2>2, <2>3 DEF StackOK, QueuesTyped, CtxTyped, OwnStack
<1>7. CASE UNCHANGED pvars
  <2>1. UNCHANGED <<mode, time_ticks, thr_current, thr_ready, thr_sleep, wait_list, cpu, kctx>>
    BY <1>7 DEF pvars, vars, lists
  <2> QED  BY <1>2, <2>1 DEF StackOK, QueuesTyped, CtxTyped, OwnStack
<1> QED  BY <1>3, <1>4, <1>5, <1>6, <1>7 DEF PNext

(* StackInv holds in every state, wherever interrupts come. *)
LEMMA StackInvAlways == PSpec => []StackInv
BY InitStackInv, NextStackInv, PTL DEF PSpec

(* thr_switch: what a thread's kstack_ptr points to is on that thread's own *)
(* stack, wherever interrupts come, until one comes between the assignment  *)
(* of thr_current and the load of the new stack pointer.                    *)
THEOREM SavedStackIsOwnAlways == PSpec => []SavedStackIsOwn
<1>1. StackInv => SavedStackIsOwn
  BY DEF StackInv, OwnStack, SavedStackIsOwn
<1> QED  BY <1>1, StackInvAlways, PTL

-----------------------------------------------------------------------------
(* How many items of a list are in a set.                                   *)
Places(q, X) == {i \in 1 .. Len(q) : q[i] \in X}
Mult(q, X) == Cardinality(Places(q, X))

(* It is a number. *)
LEMMA MultType ==
    ASSUME NEW S, NEW q \in Seq(S), NEW X
    PROVE  /\ IsFiniteSet(Places(q, X)) /\ Mult(q, X) \in Nat
           /\ (\A i \in 1 .. Len(q) : q[i] \notin X) => Mult(q, X) = 0
           /\ \A i \in 1 .. Len(q) : q[i] \in X => Mult(q, X) > 0
<1>1. IsFiniteSet(1 .. Len(q))
  BY FS_Interval
<1>2. IsFiniteSet(Places(q, X))
  BY <1>1, FS_Subset DEF Places
<1>3. Mult(q, X) \in Nat /\ (Mult(q, X) = 0 <=> Places(q, X) = {})
  BY <1>2, FS_CardinalityType, FS_EmptySet DEF Mult
<1>4. (\A i \in 1 .. Len(q) : q[i] \notin X) => Places(q, X) = {}
  BY DEF Places
<1>5. \A i \in 1 .. Len(q) : q[i] \in X => Places(q, X) # {}
  BY DEF Places
<1> QED  BY <1>2, <1>3, <1>4, <1>5

(* An item more counts where it belongs. *)
LEMMA MultAdded ==
    ASSUME NEW S, NEW s \in Seq(S), NEW t \in Seq(S), NEW item, NEW k,
           AddedAt(t, s, item, k), NEW X
    PROVE  Mult(t, X) = Mult(s, X) + IF item \in X THEN 1 ELSE 0
<1> DEFINE P == Places(s, X)
           Q == Places(t, X) \ {k}
           f == [i \in P |-> IF i < k THEN i ELSE i + 1]
<1>1. /\ Len(t) = Len(s) + 1 /\ Len(s) \in Nat
      /\ k \in 1 .. Len(t) /\ t[k] = item
      /\ \A i \in 1 .. k - 1 : i \in 1 .. Len(s) /\ t[i] = s[i]
      /\ \A i \in k + 1 .. Len(t) : i - 1 \in 1 .. Len(s) /\ t[i] = s[i - 1]
  BY DEF AddedAt
<1>2. \A i \in 1 .. Len(s) : /\ i < k => i \in 1 .. Len(t) /\ i # k /\ t[i] = s[i]
                             /\ ~(i < k) => i + 1 \in 1 .. Len(t) /\ i + 1 # k /\ t[i + 1] = s[i]
  <2> SUFFICES ASSUME NEW i \in 1 .. Len(s)
               PROVE  /\ i < k => i \in 1 .. Len(t) /\ i # k /\ t[i] = s[i]
                      /\ ~(i < k) => i + 1 \in 1 .. Len(t) /\ i + 1 # k /\ t[i + 1] = s[i]
    OBVIOUS
  <2>1. CASE i < k
    <3>1. i \in 1 .. k - 1
      BY <1>1, <2>1
    <3> QED  BY <1>1, <2>1, <3>1
  <2>2. CASE ~(i < k)
    <3>1. i + 1 \in k + 1 .. Len(t) /\ (i + 1) - 1 = i
      BY <1>1, <2>2
    <3>2. t[i + 1] = s[(i + 1) - 1]
      BY <1>1, <3>1
    <3> QED  BY <1>1, <2>2, <3>1, <3>2
  <2> QED  BY <2>1, <2>2
<1>3. \A i \in P : f[i] \in Q
  BY <1>1, <1>2 DEF Places
<1>4. \A i, j \in P : f[i] = f[j] => i = j
  BY <1>1 DEF Places
<1>5. \A j \in Q : \E i \in P : f[i] = j
  <2> SUFFICES ASSUME NEW j \in Q PROVE \E i \in P : f[i] = j
    OBVIOUS
  <2>1. j \in 1 .. Len(t) /\ t[j] \in X /\ j # k
    BY DEF Places
  <2>2. CASE j < k
    <3>1. j \in 1 .. k - 1
      BY <1>1, <2>1, <2>2
    <3>2. j \in P
      BY <1>1, <2>1, <3>1 DEF Places
    <3> QED  BY <2>2, <3>2
  <2>3. CASE j > k
    <3>1. j \in k + 1 .. Len(t)
      BY <1>1, <2>1, <2>3
    <3>2. j - 1 \in P
      BY <1>1, <2>1, <3>1 DEF Places
    <3>3. ~(j - 1 < k) /\ (j - 1) + 1 = j
      BY <1>1, <2>1, <2>3
    <3> QED  BY <3>2, <3>3
  <2> QED  BY <1>1, <2>1, <2>2, <2>3
<1>6. f \in [P -> Q]
  BY <1>3
<1> HIDE DEF f
<1>7. ExistsBijection(P, Q)
  <2>1. f \in Bijection(P, Q)
    BY <1>4, <1>5, <1>6, Fun_IsBij
  <2> QED  BY <2>1 DEF ExistsBijection
<1>8. Cardinality(Q) = Mult(s, X)
  BY <1>7, MultType, FS_Bijection DEF Mult
<1>9. IsFiniteSet(Places(t, X)) /\ Mult(t, X) \in Nat /\ Mult(s, X) \in Nat
  BY MultType
<1>10. Cardinality(Q) = IF k \in Places(t, X) THEN Mult(t, X) - 1 ELSE Mult(t, X)
  BY <1>9, FS_RemoveElement DEF Mult
<1>11. k \in Places(t, X) <=> item \in X
  BY <1>1 DEF Places
<1> HIDE DEF P, Q
<1> QED  BY <1>8, <1>9, <1>10, <1>11

(* olist_add adds one. *)
LEMMA MultOlistAdd ==
    ASSUME NEW S, NEW s \in Seq(S), NEW item \in S, NEW key \in [S -> Int], NEW X
    PROVE  Mult(OlistAdd(s, item, key), X) = Mult(s, X) + IF item \in X THEN 1 ELSE 0
BY OlistAddShape, MultAdded

(* Taking the first item off takes one. *)
LEMMA MultTail ==
    ASSUME NEW S, NEW s \in Seq(S), s # <<>>, NEW X
    PROVE  Mult(s, X) = Mult(Tail(s), X) + IF Head(s) \in X THEN 1 ELSE 0
<1>1. Tail(s) \in Seq(S)
  BY TailItems
<1>2. AddedAt(s, Tail(s), Head(s), 1)
  <2>1. Len(Tail(s)) = Len(s) - 1 /\ Len(s) \in Nat /\ Len(s) >= 1 /\ Head(s) = s[1]
    OBVIOUS
  <2>2. ASSUME NEW i \in 2 .. Len(s) PROVE i - 1 \in 1 .. Len(Tail(s)) /\ s[i] = Tail(s)[i - 1]
    <3>1. i - 1 \in 1 .. Len(Tail(s)) /\ (i - 1) + 1 = i
      BY <2>1
    <3> QED  BY <3>1, TailItems
  <2> QED  BY <2>1, <2>2 DEF AddedAt
<1> DEFINE h == Head(s)
           r == Tail(s)
<1>3. r \in Seq(S) /\ AddedAt(s, r, h, 1)
  BY <1>1, <1>2
<1> HIDE DEF h, r
<1>4. Mult(s, X) = Mult(r, X) + IF h \in X THEN 1 ELSE 0
  BY <1>3, MultAdded
<1> QED  BY <1>4 DEF h, r

-----------------------------------------------------------------------------
(* Mutual exclusion, wherever interrupts come but at three places.  Every   *)
(* chance of a thread to be dispatched is counted: being on the CPU, on the *)
(* ready list or the sleep list, or in the hands of a thread that took it   *)
(* off a list.  A thread has one, or a second one between queueing itself   *)
(* and leaving the CPU, so that a thread that waits and has left the CPU    *)
(* has none until sem_release gives it one.                                 *)
LockPlaces == {"dec", "curr", "run"}

Leaving == {"mark", "pick", "save", "curr"}
LetIn == {"crit", "rtest", "rpop", "rinc"}
HoldPcs == {"save", "curr", "radd"}

(* The semaphore a thread called for, and the thread it has in hand.        *)
SemOf(t) == IF cpu.thr = t THEN cpu.sem ELSE kctx[t].sem
NxtOf(t) == IF cpu.thr = t THEN cpu.nxt ELSE kctx[t].nxt

OnCpu(t) == mode \in {"boot", "run"} /\ thr_current = t
EntriesOf(t) == {e \in SleepEntry : e.thread = t}
Hold(t) == {u \in Threads : PcOf(u) \in HoldPcs /\ NxtOf(u) = t}

Turns(t) ==
    (IF OnCpu(t) THEN 1 ELSE 0) + Mult(thr_ready, {t}) + Mult(thr_sleep, EntriesOf(t))
    + Cardinality(Hold(t))

Waiting(t) == \E s \in Sems : t \in Waiters(s)

OneTurn ==
    \A t \in Threads :
        Turns(t) + (IF Waiting(t) THEN 1 ELSE 0) <= 1 + (IF PcOf(t) \in Leaving THEN 1 ELSE 0)

(* Those a semaphore has let in: the ones inside, and the one a release was *)
(* handed to, which has not returned from sem_wait yet.                     *)
Holders(s) ==
    {t \in Threads :
        /\ SemOf(t) = s
        /\ PcOf(t) \in LetIn \/ (PcOf(t) \in InBlock \cup {"ret"} /\ t \notin Waiters(s))}

(* No unit of a semaphore is given out twice. *)
Counted ==
    /\ count \in [Sems -> Nat]
    /\ cpu.pc = "dec" => count[cpu.sem] > 0
    /\ \A s \in Sems : count[s] + Cardinality(Holders(s)) <= InitCount[s]

(* A thread on a wait list is on it once, and inside the sem_wait that put  *)
(* it there.                                                                *)
WaitersInside ==
    \A s \in Sems :
        /\ NoDuplicates(wait_list[s])
        /\ \A t \in Waiters(s) : SemOf(t) = s /\ PcOf(t) \in InBlock \cup {"ret"}

FramesLeft ==
    /\ \A t \in Threads : kctx[t].pc \notin LockPlaces
    /\ mode \in {"boot", "irq"} => cpu.pc \notin LockPlaces
    /\ cpu.pc \in {"curr", "run"} => kctx[cpu.thr].pc = "ret" /\ kctx[cpu.thr].sem = cpu.sem

BootQuiet ==
    mode = "boot" =>
        /\ thr_current \in thr_threads
        /\ thr_sleep = <<>>
        /\ \A t \in Threads : PcOf(t) \in {"idle", "used"}
        /\ \A s \in Sems : wait_list[s] = <<>>

LockOK == StackOK /\ FramesLeft /\ BootQuiet /\ WaitersInside /\ OneTurn /\ Counted

LockInv == Uncut(LockPlaces) => LockOK

(* The numbers that are added up. *)
LEMMA TurnsTyped ==
    ASSUME QueuesTyped, IsFiniteSet(Threads), NEW t \in Threads
    PROVE  /\ Mult(thr_ready, {t}) \in Nat /\ Mult(thr_sleep, EntriesOf(t)) \in Nat
           /\ IsFiniteSet(Hold(t)) /\ Cardinality(Hold(t)) \in Nat
           /\ Turns(t) \in Nat
           /\ OnCpu(t) => Turns(t) >= 1
<1>1. Mult(thr_ready, {t}) \in Nat /\ Mult(thr_sleep, EntriesOf(t)) \in Nat
  BY MultType DEF QueuesTyped
<1>2. Hold(t) \subseteq Threads
  BY DEF Hold
<1>3. IsFiniteSet(Hold(t)) /\ Cardinality(Hold(t)) \in Nat
  BY <1>2, FS_Subset, FS_CardinalityType
<1> QED  BY <1>1, <1>3 DEF Turns

LEMMA TurnsTypedNext ==
    ASSUME QueuesTyped', IsFiniteSet(Threads), NEW t \in Threads
    PROVE  /\ Mult(thr_ready', {t}) \in Nat /\ Mult(thr_sleep', EntriesOf(t)) \in Nat
           /\ Cardinality(Hold(t)') \in Nat
           /\ Turns(t)' \in Nat
<1>1. Mult(thr_ready', {t}) \in Nat /\ Mult(thr_sleep', EntriesOf(t)) \in Nat
  BY MultType DEF QueuesTyped
<1>2. Hold(t)' \subseteq Threads
  BY DEF Hold
<1>3. Cardinality(Hold(t)') \in Nat
  BY <1>2, FS_Subset, FS_CardinalityType
<1> QED  BY <1>1, <1>3 DEF Turns

(* What threads have in hand: the same as before, *)
LEMMA HoldSame ==
    ASSUME \A u \in Threads : PcOf(u)' \in HoldPcs <=> PcOf(u) \in HoldPcs,
           \A u \in Threads : PcOf(u) \in HoldPcs => NxtOf(u)' = NxtOf(u)
    PROVE  \A t \in Threads : Hold(t)' = Hold(t)
BY DEF Hold

(* one thread more, *)
LEMMA HoldTake ==
    ASSUME QueuesTyped, IsFiniteSet(Threads), NEW c \in Threads, NEW x,
           \A u \in Threads : u # c => PcOf(u)' = PcOf(u) /\ NxtOf(u)' = NxtOf(u),
           PcOf(c) \notin HoldPcs, PcOf(c)' \in HoldPcs, NxtOf(c)' = x
    PROVE  \A t \in Threads :
              Cardinality(Hold(t)') = Cardinality(Hold(t)) + IF t = x THEN 1 ELSE 0
<1> SUFFICES ASSUME NEW t \in Threads
             PROVE  Cardinality(Hold(t)') = Cardinality(Hold(t)) + IF t = x THEN 1 ELSE 0
  OBVIOUS
<1>1. IsFiniteSet(Hold(t)) /\ Cardinality(Hold(t)) \in Nat
  BY TurnsTyped
<1>2. CASE t = x
  <2>1. Hold(t)' = Hold(t) \cup {c} /\ c \notin Hold(t)
    BY <1>2 DEF Hold
  <2>2. Cardinality(Hold(t) \cup {c}) = Cardinality(Hold(t)) + 1
    BY <1>1, <2>1, FS_AddElement
  <2> QED  BY <1>2, <2>1, <2>2
<1>3. CASE t # x
  <2>1. Hold(t)' = Hold(t)
    BY <1>3 DEF Hold
  <2> QED  BY <1>1, <1>3, <2>1
<1> QED  BY <1>2, <1>3

(* or one less. *)
LEMMA HoldDrop ==
    ASSUME QueuesTyped, IsFiniteSet(Threads), NEW c \in Threads, NEW x,
           \A u \in Threads : u # c => PcOf(u)' = PcOf(u) /\ NxtOf(u)' = NxtOf(u),
           PcOf(c) \in HoldPcs, PcOf(c)' \notin HoldPcs, NxtOf(c) = x
    PROVE  \A t \in Threads :
              Cardinality(Hold(t)) = Cardinality(Hold(t)') + IF t = x THEN 1 ELSE 0
<1> SUFFICES ASSUME NEW t \in Threads
             PROVE  Cardinality(Hold(t)) = Cardinality(Hold(t)') + IF t = x THEN 1 ELSE 0
  OBVIOUS
<1>1. IsFiniteSet(Hold(t)) /\ Cardinality(Hold(t)) \in Nat
  BY TurnsTyped
<1>2. CASE t = x
  <2>1. Hold(t)' = Hold(t) \ {c} /\ c \in Hold(t)
    BY <1>2 DEF Hold
  <2>2. Cardinality(Hold(t) \ {c}) = Cardinality(Hold(t)) - 1
    BY <1>1, <2>1, FS_RemoveElement
  <2> QED  BY <1>1, <1>2, <2>1, <2>2
<1>3. CASE t # x
  <2>1. Hold(t)' = Hold(t)
    BY <1>3 DEF Hold
  <2> QED  BY <1>1, <1>3, <2>1
<1> QED  BY <1>2, <1>3

(* Only finitely many threads can be past sem_wait. *)
LEMMA HoldersFinite ==
    ASSUME IsFiniteSet(Threads), NEW s \in Sems
    PROVE  IsFiniteSet(Holders(s)) /\ Cardinality(Holders(s)) \in Nat
<1>1. Holders(s) \subseteq Threads
  BY DEF Holders
<1> QED  BY <1>1, FS_Subset, FS_CardinalityType

(* A step that lets nobody in keeps the count. *)
LEMMA CountedKept ==
    ASSUME Counted, IsFiniteSet(Threads), count' = count,
           cpu'.pc = "dec" => count[cpu'.sem] > 0,
           \A s \in Sems : Holders(s)' \subseteq Holders(s)
    PROVE  Counted'
<1> SUFFICES ASSUME NEW s \in Sems
             PROVE  count[s] + Cardinality(Holders(s)') <= InitCount[s]
  BY DEF Counted
<1>1. IsFiniteSet(Holders(s)) /\ Cardinality(Holders(s)) \in Nat
  BY HoldersFinite
<1>2. Cardinality(Holders(s)') <= Cardinality(Holders(s)) /\ Cardinality(Holders(s)') \in Nat
  BY <1>1, FS_Subset, FS_CardinalityType
<1>3. count[s] \in Nat /\ InitCount[s] \in Nat /\ count[s] + Cardinality(Holders(s)) <= InitCount[s]
  BY SemsAssumption DEF Counted
<1> QED  BY <1>1, <1>2, <1>3

(* A step that gives nobody another turn keeps OneTurn. *)
LEMMA OneTurnKept ==
    ASSUME OneTurn, QueuesTyped, QueuesTyped', IsFiniteSet(Threads),
           \A t \in Threads : Turns(t)' <= Turns(t),
           \A t \in Threads : Waiting(t)' => Waiting(t),
           \A t \in Threads : PcOf(t) \in Leaving => PcOf(t)' \in Leaving
    PROVE  OneTurn'
<1> SUFFICES ASSUME NEW t \in Threads
             PROVE  Turns(t)' + (IF Waiting(t)' THEN 1 ELSE 0)
                    <= 1 + (IF PcOf(t)' \in Leaving THEN 1 ELSE 0)
  BY DEF OneTurn
<1>1. Turns(t) \in Nat /\ Turns(t)' \in Nat
  BY TurnsTyped, TurnsTypedNext
<1>2. Turns(t) + (IF Waiting(t) THEN 1 ELSE 0) <= 1 + (IF PcOf(t) \in Leaving THEN 1 ELSE 0)
  BY DEF OneTurn
<1> QED  BY <1>1, <1>2

(* The thread on the CPU does not wait, unless it is about to leave it. *)
LEMMA CurrentAwake ==
    ASSUME LockOK, IsFiniteSet(Threads), mode = "run", cpu.pc \notin InBlock, NEW s \in Sems
    PROVE  cpu.thr \notin Waiters(s)
<1>1. cpu.thr \in Threads /\ thr_current = cpu.thr
  BY DEF LockOK, StackOK, CtxTyped, Context, OwnStack, InBlock
<1>2. PcOf(cpu.thr) \notin Leaving
  BY DEF PcOf, Leaving, InBlock
<1>3. Turns(cpu.thr) \in Nat /\ Turns(cpu.thr) >= 1
  BY <1>1, TurnsTyped DEF OnCpu, LockOK, StackOK
<1>4. Turns(cpu.thr) + (IF Waiting(cpu.thr) THEN 1 ELSE 0) <= 1
  BY <1>1, <1>2 DEF LockOK, OneTurn
<1>5. ~Waiting(cpu.thr)
  BY <1>3, <1>4
<1> QED  BY <1>5 DEF Waiting

(* A step of the running thread inside its call that moves no thread:       *)
LEMMA LocalLock ==
    ASSUME LockOK, StackOK', IsFiniteSet(Threads), mode = "run",
           UNCHANGED <<mode, thr_current, thr_ready, thr_sleep>>,
           \A u \in Threads : u # cpu.thr => kctx'[u] = kctx[u],
           cpu'.thr = cpu.thr,
           cpu.pc \in HoldPcs <=> cpu'.pc \in HoldPcs,
           cpu.pc \in HoldPcs => cpu'.nxt = cpu.nxt
    PROVE  /\ \A u \in Threads : u # cpu.thr =>
                PcOf(u)' = PcOf(u) /\ SemOf(u)' = SemOf(u) /\ NxtOf(u)' = NxtOf(u)
           /\ \A t \in Threads : Turns(t)' = Turns(t)
<1>1. \A u \in Threads : u # cpu.thr =>
          PcOf(u)' = PcOf(u) /\ SemOf(u)' = SemOf(u) /\ NxtOf(u)' = NxtOf(u)
  BY DEF PcOf, SemOf, NxtOf
<1>2. /\ PcOf(cpu.thr) = cpu.pc /\ PcOf(cpu.thr)' = cpu'.pc
      /\ NxtOf(cpu.thr) = cpu.nxt /\ NxtOf(cpu.thr)' = cpu'.nxt
  BY DEF PcOf, NxtOf
<1>3. \A t \in Threads : Hold(t)' = Hold(t)
  <2>1. \A u \in Threads : PcOf(u)' \in HoldPcs <=> PcOf(u) \in HoldPcs
    BY <1>1, <1>2
  <2>2. \A u \in Threads : PcOf(u) \in HoldPcs => NxtOf(u)' = NxtOf(u)
    BY <1>1, <1>2
  <2> QED  BY <2>1, <2>2, HoldSame
<1> QED  BY <1>1, <1>3 DEF Turns, OnCpu

(* one that leaves the wait lists and the counts alone too.                 *)
LEMMA LocalWaiters ==
    ASSUME LockOK, IsFiniteSet(Threads), UNCHANGED <<count, wait_list>>,
           cpu'.pc = "dec" => count[cpu'.sem] > 0,
           \A u \in Threads : u # cpu.thr => PcOf(u)' = PcOf(u) /\ SemOf(u)' = SemOf(u),
           cpu'.thr = cpu.thr, cpu'.sem = cpu.sem \/ cpu.pc = "idle",
           cpu.pc \in InBlock => cpu'.pc \in InBlock,
           cpu.pc = "ret" => \A s \in Sems : cpu.thr \notin Waiters(s),
           cpu'.pc \in LetIn => cpu.pc \in LetIn \cup {"ret"},
           cpu'.pc \in InBlock \cup {"ret"} => cpu.pc \in InBlock
    PROVE  /\ WaitersInside' /\ Counted'
           /\ \A t \in Threads : Waiting(t)' = Waiting(t)
<1>1. \A s \in Sems : Waiters(s)' = Waiters(s)
  BY WaitersSame
<1>2. /\ PcOf(cpu.thr) = cpu.pc /\ PcOf(cpu.thr)' = cpu'.pc
      /\ SemOf(cpu.thr) = cpu.sem /\ SemOf(cpu.thr)' = cpu'.sem
  BY DEF PcOf, SemOf
<1>3. WaitersInside'
  <2> SUFFICES ASSUME NEW s \in Sems, NEW t \in Waiters(s)
               PROVE  SemOf(t)' = s /\ PcOf(t)' \in InBlock \cup {"ret"}
    BY <1>1 DEF LockOK, WaitersInside
  <2>1. SemOf(t) = s /\ PcOf(t) \in InBlock \cup {"ret"} /\ t \in Threads
    BY DEF LockOK, StackOK, QueuesTyped, WaitersInside, Waiters, Items
  <2>2. CASE t = cpu.thr
    <3>1. cpu.pc \in InBlock /\ cpu.sem = s
      BY <1>2, <2>1, <2>2
    <3>2. cpu.pc # "idle"
      BY <3>1 DEF InBlock
    <3> QED  BY <1>2, <2>2, <3>1, <3>2
  <2>3. CASE t # cpu.thr
    BY <2>1, <2>3
  <2> QED  BY <2>2, <2>3
<1>4. ASSUME NEW s \in Sems PROVE Holders(s)' \subseteq Holders(s)
  <2> SUFFICES ASSUME NEW t \in Threads, t \in Holders(s)' PROVE t \in Holders(s)
    BY DEF Holders
  <2>1. /\ SemOf(t)' = s
        /\ PcOf(t)' \in LetIn \/ (PcOf(t)' \in InBlock \cup {"ret"} /\ t \notin Waiters(s))
    BY <1>1 DEF Holders
  <2>2. CASE t = cpu.thr
    <3>1. cpu.pc # "idle"
      BY <1>2, <2>1, <2>2 DEF LetIn, InBlock
    <3>2. cpu.pc \in LetIn \/ (cpu.pc \in InBlock \cup {"ret"} /\ t \notin Waiters(s))
      BY <1>2, <2>1, <2>2
    <3> QED  BY <1>2, <2>1, <2>2, <3>1, <3>2 DEF Holders
  <2>3. CASE t # cpu.thr
    BY <2>1, <2>3 DEF Holders
  <2> QED  BY <2>2, <2>3
<1>5. Counted'
  BY <1>4, CountedKept DEF LockOK
<1> QED  BY <1>1, <1>3, <1>5 DEF Waiting

(* Most steps of a call change only the running thread's context.           *)
LEMMA PlainLock ==
    ASSUME LockOK, StackOK', IsFiniteSet(Threads), mode = "run",
           UNCHANGED <<mode, thr_current, thr_ready, thr_sleep, count, wait_list, kctx>>,
           cpu'.thr = cpu.thr, cpu'.sem = cpu.sem \/ cpu.pc = "idle",
           cpu.pc \notin HoldPcs \cup {"run"}, cpu'.pc \notin HoldPcs \cup {"run"},
           cpu'.pc = "dec" => count[cpu'.sem] > 0,
           cpu.pc \in Leaving => cpu'.pc \in Leaving,
           cpu'.pc \in LetIn => cpu.pc \in LetIn \cup {"ret"},
           cpu'.pc \in InBlock \cup {"ret"} => cpu.pc \in InBlock
    PROVE  LockOK'
<1>1. /\ \A u \in Threads : u # cpu.thr => PcOf(u)' = PcOf(u) /\ SemOf(u)' = SemOf(u)
      /\ \A t \in Threads : Turns(t)' = Turns(t)
  BY LocalLock
<1>2. cpu.pc \in InBlock => cpu'.pc \in InBlock
  BY DEF InBlock, Leaving, HoldPcs
<1>3. cpu.pc = "ret" => \A s \in Sems : cpu.thr \notin Waiters(s)
  BY CurrentAwake DEF InBlock
<1>4. /\ WaitersInside' /\ Counted'
      /\ \A t \in Threads : Waiting(t)' = Waiting(t)
  BY <1>1, <1>2, <1>3, LocalWaiters
<1>5. \A t \in Threads : PcOf(t) \in Leaving => PcOf(t)' \in Leaving
  BY <1>1 DEF PcOf
<1>6. \A t \in Threads : Turns(t) \in Nat
  BY TurnsTyped DEF LockOK, StackOK
<1>7. OneTurn'
  BY <1>1, <1>4, <1>5, <1>6, OneTurnKept DEF LockOK, StackOK
<1>8. FramesLeft'
  BY DEF LockOK, FramesLeft, HoldPcs
<1>9. BootQuiet'
  BY DEF BootQuiet
<1> QED  BY <1>4, <1>7, <1>8, <1>9 DEF LockOK

(* They are these. *)
LEMMA PlainLockSteps ==
    ASSUME LockOK, IsFiniteSet(Threads), WaitTest \/ WaitMark \/ WaitReturn
           \/ ReleaseCall \/ ReleaseTest \/ ReleaseMark
    PROVE  LockOK'
<1>c. CtxTyped /\ StackOK
  BY DEF LockOK, StackOK
<1>1. CASE WaitTest
  <2>1. StackOK'
    BY <1>1, <1>c, WaitStackStep DEF Wait
  <2>2. /\ mode = "run" /\ cpu.pc = "test" /\ cpu'.pc = IF count[cpu.sem] > 0 THEN "dec" ELSE "queue"
        /\ cpu'.thr = cpu.thr /\ cpu'.sem = cpu.sem
    BY <1>1, <1>c, GoFields DEF WaitTest, Pcs
  <2>3. UNCHANGED <<mode, thr_current, thr_ready, thr_sleep, count, wait_list, kctx>>
    BY <1>1 DEF WaitTest, vars, lists
  <2> QED  BY <2>1, <2>2, <2>3, PlainLock DEF HoldPcs, Leaving, LetIn, InBlock
<1>2. CASE WaitMark
  <2>1. StackOK'
    BY <1>2, <1>c, WaitStackStep DEF Wait
  <2>2. /\ mode = "run" /\ cpu.pc = "mark" /\ cpu'.pc = "pick"
        /\ cpu'.thr = cpu.thr /\ cpu'.sem = cpu.sem
    BY <1>2, <1>c, GoFields DEF WaitMark, Pcs
  <2>3. UNCHANGED <<mode, thr_current, thr_ready, thr_sleep, count, wait_list, kctx>>
    BY <1>2 DEF WaitMark, lists
  <2> QED  BY <2>1, <2>2, <2>3, PlainLock DEF HoldPcs, Leaving, LetIn, InBlock
<1>3. CASE WaitReturn
  <2>1. StackOK'
    BY <1>3, <1>c, WaitStackStep DEF Wait
  <2>2. /\ mode = "run" /\ cpu.pc = "ret" /\ cpu'.pc = "crit"
        /\ cpu'.thr = cpu.thr /\ cpu'.sem = cpu.sem
    BY <1>3, <1>c, GoFields DEF WaitReturn, Pcs
  <2>3. UNCHANGED <<mode, thr_current, thr_ready, thr_sleep, count, wait_list, kctx>>
    BY <1>3 DEF WaitReturn, vars, lists
  <2> QED  BY <2>1, <2>2, <2>3, PlainLock DEF HoldPcs, Leaving, LetIn, InBlock
<1>4. CASE ReleaseCall
  <2>1. StackOK'
    BY <1>4, <1>c, ReleaseStackStep DEF Release
  <2>2. /\ mode = "run" /\ cpu.pc = "crit" /\ cpu'.pc = "rtest"
        /\ cpu'.thr = cpu.thr /\ cpu'.sem = cpu.sem
    BY <1>4, <1>c, GoFields DEF ReleaseCall, Pcs
  <2>3. UNCHANGED <<mode, thr_current, thr_ready, thr_sleep, count, wait_list, kctx>>
    BY <1>4 DEF ReleaseCall, vars, lists
  <2> QED  BY <2>1, <2>2, <2>3, PlainLock DEF HoldPcs, Leaving, LetIn, InBlock
<1>5. CASE ReleaseTest
  <2>1. StackOK'
    BY <1>5, <1>c, ReleaseStackStep DEF Release
  <2>2. /\ mode = "run" /\ cpu.pc = "rtest" /\ cpu'.pc \in {"rpop", "rinc"}
        /\ cpu'.thr = cpu.thr /\ cpu'.sem = cpu.sem
    BY <1>5, <1>c, GoFields DEF ReleaseTest, Pcs
  <2>3. UNCHANGED <<mode, thr_current, thr_ready, thr_sleep, count, wait_list, kctx>>
    BY <1>5 DEF ReleaseTest, vars, lists
  <2> QED  BY <2>1, <2>2, <2>3, PlainLock DEF HoldPcs, Leaving, LetIn, InBlock
<1>6. CASE ReleaseMark
  <2>1. StackOK'
    BY <1>6, <1>c, ReleaseStackStep DEF Release
  <2>2. /\ mode = "run" /\ cpu.pc = "rmark" /\ cpu'.pc = "idle"
        /\ cpu'.thr = cpu.thr /\ cpu'.sem = cpu.sem
    BY <1>6, <1>c DEF ReleaseMark, CtxTyped, Context
  <2>3. UNCHANGED <<mode, thr_current, thr_ready, thr_sleep, count, wait_list, kctx>>
    BY <1>6 DEF ReleaseMark, lists
  <2> QED  BY <2>1, <2>2, <2>3, PlainLock DEF HoldPcs, Leaving, LetIn, InBlock
<1> QED  BY <1>1, <1>2, <1>3, <1>4, <1>5, <1>6

(* sem_wait is called; *)
LEMMA WaitCallLock ==
    ASSUME LockOK, IsFiniteSet(Threads), StackOK', NEW s \in Sems, WaitCall(s)
    PROVE  LockOK'
<1>1. /\ mode = "run" /\ cpu.pc = "idle" /\ cpu'.pc = "test" /\ cpu'.thr = cpu.thr
      /\ UNCHANGED <<vars, kctx>>
  BY DEF WaitCall, LockOK, StackOK, CtxTyped, Context
<1>2. UNCHANGED <<mode, thr_current, thr_ready, thr_sleep, count, wait_list, kctx>>
  BY <1>1 DEF vars, lists
<1> QED  BY <1>1, <1>2, PlainLock DEF HoldPcs, Leaving, LetIn, InBlock

(* resched_no_int takes the first ready thread in hand, *)
LEMMA WaitPickLock ==
    ASSUME LockOK, IsFiniteSet(Threads), StackOK', WaitPick
    PROVE  LockOK'
<1>c. StackOK /\ QueuesTyped /\ CtxTyped
  BY DEF LockOK, StackOK
<1>0. PICK c \in Threads : cpu.thr = c
  BY <1>c DEF CtxTyped, Context
<1> DEFINE x == DelFirst(thr_ready)
<1>1. /\ mode = "run" /\ cpu.pc = "pick"
      /\ cpu' = [cpu EXCEPT !.pc = "save", !.nxt = x]
      /\ thr_ready' = Rest(thr_ready)
      /\ UNCHANGED <<mode, thr_current, thr_sleep, count, wait_list, kctx>>
  BY DEF WaitPick
<1>2. cpu'.pc = "save" /\ cpu'.nxt = x /\ cpu'.thr = c /\ cpu'.sem = cpu.sem
  BY <1>0, <1>1, <1>c DEF CtxTyped, Context
<1>3. \A t \in Threads : Mult(thr_ready, {t}) = Mult(thr_ready', {t}) + IF t = x THEN 1 ELSE 0
  <2> SUFFICES ASSUME NEW t \in Threads
               PROVE  Mult(thr_ready, {t}) = Mult(thr_ready', {t}) + IF t = x THEN 1 ELSE 0
    OBVIOUS
  <2>1. thr_ready \in Seq(Threads) /\ Mult(thr_ready, {t}) \in Nat
    BY <1>c, MultType DEF QueuesTyped
  <2>2. CASE thr_ready = <<>>
    <3>1. x = NULL /\ thr_ready' = thr_ready
      BY <1>1, <2>2 DEF DelFirst, Rest
    <3> QED  BY <2>1, <3>1, ThreadsAssumption
  <2>3. CASE thr_ready # <<>>
    <3>1. x = Head(thr_ready) /\ thr_ready' = Tail(thr_ready)
      BY <1>1, <2>3 DEF DelFirst, Rest
    <3>2. Mult(thr_ready, {t}) = Mult(Tail(thr_ready), {t}) + IF Head(thr_ready) \in {t} THEN 1 ELSE 0
      BY <2>1, <2>3, MultTail
    <3> QED  BY <3>1, <3>2
  <2> QED  BY <2>2, <2>3
<1> HIDE DEF x
<1>4. /\ \A u \in Threads : u # c => PcOf(u)' = PcOf(u) /\ SemOf(u)' = SemOf(u) /\ NxtOf(u)' = NxtOf(u)
      /\ PcOf(c) = "pick" /\ PcOf(c)' = "save" /\ NxtOf(c)' = x
  BY <1>0, <1>1, <1>2 DEF PcOf, SemOf, NxtOf
<1>5. \A t \in Threads : Cardinality(Hold(t)') = Cardinality(Hold(t)) + IF t = x THEN 1 ELSE 0
  BY <1>c, <1>4, HoldTake DEF HoldPcs
<1>6. ASSUME NEW t \in Threads PROVE Turns(t)' = Turns(t) /\ Turns(t) \in Nat
  <2>1. /\ Mult(thr_ready, {t}) \in Nat /\ Mult(thr_sleep, EntriesOf(t)) \in Nat
        /\ Cardinality(Hold(t)) \in Nat /\ Turns(t) \in Nat
    BY <1>c, TurnsTyped
  <2>2. Mult(thr_ready', {t}) \in Nat
    BY MultType DEF StackOK, QueuesTyped
  <2> QED  BY <1>1, <1>3, <1>5, <2>1, <2>2 DEF Turns, OnCpu
<1>7. /\ WaitersInside' /\ Counted'
      /\ \A t \in Threads : Waiting(t)' = Waiting(t)
  BY <1>0, <1>1, <1>2, <1>4, LocalWaiters DEF InBlock, LetIn
<1>8. OneTurn'
  <2>1. \A t \in Threads : PcOf(t) \in Leaving => PcOf(t)' \in Leaving
    BY <1>4 DEF Leaving
  <2>2. \A t \in Threads : Turns(t)' <= Turns(t)
    BY <1>6
  <2> QED  BY <1>7, <2>1, <2>2, OneTurnKept DEF LockOK, StackOK
<1>9. FramesLeft' /\ BootQuiet'
  BY <1>1, <1>2 DEF LockOK, FramesLeft, BootQuiet
<1> QED  BY <1>7, <1>8, <1>9 DEF LockOK

(* saves the frame that it has made, *)
LEMMA WaitSaveLock ==
    ASSUME LockOK, IsFiniteSet(Threads), StackOK', WaitSave
    PROVE  LockOK'
<1>c. StackOK /\ QueuesTyped /\ CtxTyped
  BY DEF LockOK, StackOK
<1>0. PICK c \in Threads : cpu.thr = c
  BY <1>c DEF CtxTyped, Context
<1>1. /\ mode = "run" /\ cpu.pc = "save" /\ cpu'.pc = "curr"
      /\ cpu'.thr = c /\ cpu'.sem = cpu.sem /\ cpu'.nxt = cpu.nxt
  BY <1>0, <1>c, GoFields DEF WaitSave, Pcs
<1>2. UNCHANGED <<mode, thr_current, thr_ready, thr_sleep, count, wait_list>>
  BY DEF WaitSave, vars, lists
<1> DEFINE k == [cpu EXCEPT !.pc = "ret", !.nxt = NULL]
<1>3. k.pc = "ret" /\ k.sem = cpu.sem
  BY <1>c DEF CtxTyped, Context
<1>4. kctx' = [kctx EXCEPT ![c] = k]
  BY <1>0, <1>1, <1>c DEF WaitSave, StackOK, OwnStack
<1> HIDE DEF k
<1>5. kctx'[c] = k /\ \A u \in Threads : u # c => kctx'[u] = kctx[u]
  BY <1>4, <1>c DEF CtxTyped
<1>6. /\ \A u \in Threads : u # c => PcOf(u)' = PcOf(u) /\ SemOf(u)' = SemOf(u)
      /\ \A t \in Threads : Turns(t)' = Turns(t)
  BY <1>0, <1>1, <1>2, <1>5, LocalLock DEF HoldPcs
<1>7. /\ WaitersInside' /\ Counted'
      /\ \A t \in Threads : Waiting(t)' = Waiting(t)
  BY <1>0, <1>1, <1>2, <1>6, LocalWaiters DEF InBlock, LetIn
<1>8. OneTurn'
  <2>1. \A t \in Threads : PcOf(t) \in Leaving => PcOf(t)' \in Leaving
    BY <1>0, <1>1, <1>6 DEF Leaving, PcOf
  <2>0. \A t \in Threads : Turns(t) \in Nat
    BY <1>c, TurnsTyped
  <2>2. \A t \in Threads : Turns(t)' <= Turns(t)
    BY <1>6, <2>0
  <2> QED  BY <1>7, <2>1, <2>2, OneTurnKept DEF LockOK, StackOK
<1>9. FramesLeft'
  BY <1>0, <1>1, <1>2, <1>3, <1>5 DEF LockOK, FramesLeft, LockPlaces
<1>10. BootQuiet'
  BY <1>1, <1>2 DEF BootQuiet
<1> QED  BY <1>7, <1>8, <1>9, <1>10 DEF LockOK

(* makes the thread in hand current, and with that gives up its own turn,   *)
LEMMA WaitCurrLock ==
    ASSUME LockOK, IsFiniteSet(Threads), StackOK', WaitCurr
    PROVE  LockOK'
<1>c. StackOK /\ QueuesTyped /\ CtxTyped
  BY DEF LockOK, StackOK
<1>0. PICK c \in Threads : cpu.thr = c
  BY <1>c DEF CtxTyped, Context
<1>1. /\ mode = "run" /\ cpu.pc = "curr" /\ cpu'.pc = "run"
      /\ cpu'.thr = c /\ cpu'.sem = cpu.sem /\ cpu'.nxt = cpu.nxt
  BY <1>0, <1>c, GoFields DEF WaitCurr, Pcs
<1>2. /\ thr_current = c /\ thr_current' = cpu.nxt
      /\ UNCHANGED <<mode, thr_ready, thr_sleep, count, wait_list, kctx>>
  BY <1>0, <1>1, <1>c DEF WaitCurr, lists, StackOK, OwnStack
<1>3. /\ \A u \in Threads : u # c => PcOf(u)' = PcOf(u) /\ SemOf(u)' = SemOf(u) /\ NxtOf(u)' = NxtOf(u)
      /\ PcOf(c) = "curr" /\ PcOf(c)' = "run" /\ NxtOf(c) = cpu.nxt
  BY <1>0, <1>1, <1>2 DEF PcOf, SemOf, NxtOf
<1>4. \A t \in Threads : Cardinality(Hold(t)) = Cardinality(Hold(t)') + IF t = cpu.nxt THEN 1 ELSE 0
  BY <1>c, <1>3, HoldDrop DEF HoldPcs
<1>5. /\ WaitersInside' /\ Counted'
      /\ \A t \in Threads : Waiting(t)' = Waiting(t)
  BY <1>0, <1>1, <1>2, <1>3, LocalWaiters DEF InBlock, LetIn
<1>6. ASSUME NEW t \in Threads
      PROVE  /\ Turns(t) \in Nat
             /\ Turns(t) = Turns(t)' + IF t = c THEN 1 ELSE 0
  <2>1. /\ Mult(thr_ready, {t}) \in Nat /\ Mult(thr_sleep, EntriesOf(t)) \in Nat
        /\ Cardinality(Hold(t)) \in Nat /\ Turns(t) \in Nat
    BY <1>c, TurnsTyped
  <2>2. Cardinality(Hold(t)') \in Nat
    BY TurnsTypedNext DEF StackOK
  <2>3. (OnCpu(t) <=> t = c) /\ (OnCpu(t)' <=> t = cpu.nxt)
    BY <1>1, <1>2 DEF OnCpu
  <2>4. Mult(thr_ready, {t})' = Mult(thr_ready, {t}) /\ Mult(thr_sleep, EntriesOf(t))' = Mult(thr_sleep, EntriesOf(t))
    BY <1>2
  <2> QED  BY <1>4, <2>1, <2>2, <2>3, <2>4 DEF Turns
<1>7. OneTurn'
  <2> SUFFICES ASSUME NEW t \in Threads
               PROVE  Turns(t)' + (IF Waiting(t)' THEN 1 ELSE 0)
                      <= 1 + (IF PcOf(t)' \in Leaving THEN 1 ELSE 0)
    BY DEF OneTurn
  <2>1. /\ Turns(t) \in Nat /\ Turns(t) = Turns(t)' + (IF t = c THEN 1 ELSE 0)
        /\ Waiting(t)' = Waiting(t)
        /\ Turns(t) + (IF Waiting(t) THEN 1 ELSE 0) <= 1 + (IF PcOf(t) \in Leaving THEN 1 ELSE 0)
    BY <1>5, <1>6 DEF LockOK, OneTurn
  <2>2. PcOf(t) \in Leaving <=> t = c \/ PcOf(t)' \in Leaving
    BY <1>3 DEF Leaving
  <2>3. t = c => PcOf(t)' \notin Leaving
    BY <1>3 DEF Leaving
  <2>4. Turns(t)' = Turns(t) - (IF t = c THEN 1 ELSE 0)
    <3>1. Turns(t)' \in Nat
      BY TurnsTypedNext DEF StackOK
    <3> QED  BY <2>1, <3>1
  <2> QED  BY <2>1, <2>2, <2>3, <2>4
<1>8. FramesLeft'
  BY <1>0, <1>1, <1>2 DEF LockOK, FramesLeft
<1>9. BootQuiet'
  BY <1>1, <1>2 DEF BootQuiet
<1> QED  BY <1>5, <1>7, <1>8, <1>9 DEF LockOK

(* and loads its stack pointer.                                             *)
LEMMA WaitRunLock ==
    ASSUME LockOK, IsFiniteSet(Threads), StackOK', WaitRun
    PROVE  LockOK'
<1>c. StackOK /\ QueuesTyped /\ CtxTyped
  BY DEF LockOK, StackOK
<1>0. PICK c \in Threads, u \in Threads : cpu.thr = c /\ cpu.nxt = u
  BY <1>c DEF WaitRun, Resume, CtxTyped, Context
<1>1. mode = "run" /\ cpu.pc = "run" /\ UNCHANGED vars
  BY DEF WaitRun
<1>2. UNCHANGED <<mode, thr_current, thr_ready, thr_sleep, count, wait_list>>
  BY <1>1 DEF vars, lists
<1>3. /\ cpu' = kctx[u] /\ kctx'[u].pc = "used"
      /\ \A x \in Threads : x # u => kctx'[x] = kctx[x]
  <2>1. Resume(kctx, u) /\ kctx \in [Threads -> Context]
    BY <1>0, <1>c DEF WaitRun, CtxTyped
  <2> QED  BY <2>1, ResumeFields
<1>4. cpu'.thr = u /\ cpu'.pc \notin LockPlaces
  BY <1>3, <1>c DEF LockOK, FramesLeft, StackOK, OwnStack
<1>5. kctx[c].pc = "ret" /\ kctx[c].sem = cpu.sem
  BY <1>0, <1>1 DEF LockOK, FramesLeft
<1>6. /\ \A x \in Threads : SemOf(x)' = SemOf(x)
      /\ \A x \in Threads : x # c => PcOf(x)' = PcOf(x) /\ NxtOf(x)' = NxtOf(x)
      /\ PcOf(c) = "run" /\ PcOf(c)' = "ret"
  BY <1>0, <1>1, <1>3, <1>4, <1>5 DEF SemOf, PcOf, NxtOf
<1>7. \A t \in Threads : Hold(t)' = Hold(t)
  <2>1. \A x \in Threads : PcOf(x)' \in HoldPcs <=> PcOf(x) \in HoldPcs
    BY <1>6 DEF HoldPcs
  <2>2. \A x \in Threads : PcOf(x) \in HoldPcs => NxtOf(x)' = NxtOf(x)
    BY <1>6 DEF HoldPcs
  <2> QED  BY <2>1, <2>2, HoldSame
<1>8. \A t \in Threads : Turns(t)' = Turns(t)
  BY <1>2, <1>7 DEF Turns, OnCpu
<1>9. \A s \in Sems : Waiters(s)' = Waiters(s)
  BY <1>2, WaitersSame
<1>10. WaitersInside'
  <2> SUFFICES ASSUME NEW s \in Sems, NEW t \in Waiters(s)
               PROVE  SemOf(t)' = s /\ PcOf(t)' \in InBlock \cup {"ret"}
    BY <1>2, <1>9 DEF LockOK, WaitersInside
  <2>1. SemOf(t) = s /\ PcOf(t) \in InBlock \cup {"ret"} /\ t \in Threads
    BY <1>c DEF LockOK, QueuesTyped, WaitersInside, Waiters, Items
  <2> QED  BY <1>6, <2>1
<1>11. Counted'
  <2>1. \A s \in Sems : Holders(s)' \subseteq Holders(s)
    BY <1>6, <1>9 DEF Holders, LetIn, InBlock
  <2> QED  BY <1>2, <1>4, <2>1, CountedKept DEF LockOK, LockPlaces
<1>12. OneTurn'
  <2>1. \A t \in Threads : PcOf(t) \in Leaving => PcOf(t)' \in Leaving
    BY <1>6 DEF Leaving
  <2>0. \A t \in Threads : Turns(t) \in Nat
    BY <1>c, TurnsTyped
  <2>2. \A t \in Threads : Turns(t)' <= Turns(t)
    BY <1>8, <2>0
  <2>3. \A t \in Threads : Waiting(t)' = Waiting(t)
    BY <1>9 DEF Waiting
  <2> QED  BY <2>1, <2>2, <2>3, OneTurnKept DEF LockOK, StackOK
<1>13. FramesLeft'
  BY <1>3, <1>4 DEF LockOK, FramesLeft, LockPlaces
<1>14. BootQuiet'
  BY <1>1, <1>2 DEF BootQuiet
<1> QED  BY <1>10, <1>11, <1>12, <1>13, <1>14 DEF LockOK


(* sem_wait decrements the count and lets the thread in; *)
LEMMA WaitDecLock ==
    ASSUME LockOK, IsFiniteSet(Threads), StackOK', WaitDec
    PROVE  LockOK'
<1>c. StackOK /\ QueuesTyped /\ CtxTyped
  BY DEF LockOK, StackOK
<1>0. PICK c \in Threads, q \in Sems : cpu.thr = c /\ cpu.sem = q
  BY <1>c DEF CtxTyped, Context
<1>1. /\ mode = "run" /\ cpu.pc = "dec" /\ cpu'.pc = "crit"
      /\ cpu'.thr = c /\ cpu'.sem = q /\ cpu'.nxt = cpu.nxt
  BY <1>0, <1>c, GoFields DEF WaitDec, Pcs
<1>2. /\ count' = [count EXCEPT ![q] = @ - 1]
      /\ UNCHANGED <<mode, thr_current, thr_ready, thr_sleep, wait_list, kctx>>
  BY <1>0 DEF WaitDec, lists
<1>3. /\ \A u \in Threads : u # c => PcOf(u)' = PcOf(u) /\ SemOf(u)' = SemOf(u)
      /\ \A t \in Threads : Turns(t)' = Turns(t)
  BY <1>0, <1>1, <1>2, LocalLock DEF HoldPcs
<1>4. PcOf(c) = "dec" /\ PcOf(c)' = "crit" /\ SemOf(c) = q /\ SemOf(c)' = q
  BY <1>0, <1>1 DEF PcOf, SemOf
<1>5. \A s \in Sems : Waiters(s)' = Waiters(s)
  BY <1>2, WaitersSame
<1>6. \A s \in Sems : c \notin Waiters(s)
  BY <1>0, <1>1, CurrentAwake DEF InBlock
<1>7. WaitersInside'
  <2> SUFFICES ASSUME NEW s \in Sems, NEW t \in Waiters(s)
               PROVE  SemOf(t)' = s /\ PcOf(t)' \in InBlock \cup {"ret"}
    BY <1>2, <1>5 DEF LockOK, WaitersInside
  <2>1. SemOf(t) = s /\ PcOf(t) \in InBlock \cup {"ret"} /\ t \in Threads
    BY <1>c DEF LockOK, QueuesTyped, WaitersInside, Waiters, Items
  <2> QED  BY <1>3, <1>6, <2>1
<1>8. Counted'
  <2>1. count \in [Sems -> Nat] /\ count[q] > 0
    BY <1>0, <1>1 DEF LockOK, Counted
  <2>2. /\ count' \in [Sems -> Nat] /\ count'[q] = count[q] - 1
        /\ \A s \in Sems : s # q => count'[s] = count[s]
    BY <1>2, <2>1
  <2>3. ASSUME NEW s \in Sems PROVE count'[s] + Cardinality(Holders(s)') <= InitCount[s]
    <3>1. /\ IsFiniteSet(Holders(s)) /\ Cardinality(Holders(s)) \in Nat
          /\ count[s] \in Nat /\ InitCount[s] \in Nat
          /\ count[s] + Cardinality(Holders(s)) <= InitCount[s]
      BY <2>1, HoldersFinite, SemsAssumption DEF LockOK, Counted
    <3>2. CASE s = q
      <4>1. Holders(s)' = Holders(s) \cup {c} /\ c \notin Holders(s)
        BY <1>3, <1>4, <1>5, <3>2 DEF Holders, LetIn, InBlock
      <4>2. Cardinality(Holders(s) \cup {c}) = Cardinality(Holders(s)) + 1
        BY <3>1, <4>1, FS_AddElement
      <4> QED  BY <2>1, <2>2, <3>1, <3>2, <4>1, <4>2
    <3>3. CASE s # q
      <4>1. Holders(s)' = Holders(s)
        BY <1>3, <1>4, <1>5, <3>3 DEF Holders
      <4> QED  BY <2>2, <3>1, <3>3, <4>1
    <3> QED  BY <3>2, <3>3
  <2> QED  BY <1>1, <2>2, <2>3 DEF Counted
<1>9. OneTurn'
  <2>0. \A t \in Threads : Turns(t) \in Nat
    BY <1>c, TurnsTyped
  <2>1. \A t \in Threads : PcOf(t) \in Leaving => PcOf(t)' \in Leaving
    BY <1>3, <1>4 DEF Leaving
  <2>2. \A t \in Threads : Turns(t)' <= Turns(t)
    BY <1>3, <2>0
  <2>3. \A t \in Threads : Waiting(t)' = Waiting(t)
    BY <1>5 DEF Waiting
  <2> QED  BY <2>1, <2>2, <2>3, OneTurnKept DEF LockOK, StackOK
<1>10. FramesLeft' /\ BootQuiet'
  BY <1>1, <1>2 DEF LockOK, FramesLeft, BootQuiet
<1> QED  BY <1>7, <1>8, <1>9, <1>10 DEF LockOK

(* or it queues the thread, whose turn is then one too many until it is off *)
(* the CPU.                                                                 *)
LEMMA WaitQueueLock ==
    ASSUME LockOK, IsFiniteSet(Threads), StackOK', WaitQueue
    PROVE  LockOK'
<1>c. StackOK /\ QueuesTyped /\ CtxTyped
  BY DEF LockOK, StackOK
<1>0. PICK c \in Threads, q \in Sems : cpu.thr = c /\ cpu.sem = q
  BY <1>c DEF CtxTyped, Context
<1>1. /\ mode = "run" /\ cpu.pc = "queue" /\ cpu'.pc = "mark"
      /\ cpu'.thr = c /\ cpu'.sem = q /\ cpu'.nxt = cpu.nxt
  BY <1>0, <1>c, GoFields DEF WaitQueue, Pcs
<1>2. thr_current = c
  BY <1>0, <1>1, <1>c DEF StackOK, OwnStack
<1>3. /\ wait_list' = [wait_list EXCEPT ![q] = Append(@, c)]
      /\ UNCHANGED <<mode, thr_current, thr_ready, thr_sleep, count, kctx>>
  BY <1>0, <1>2 DEF WaitQueue
<1>4. /\ \A u \in Threads : u # c => PcOf(u)' = PcOf(u) /\ SemOf(u)' = SemOf(u)
      /\ \A t \in Threads : Turns(t)' = Turns(t)
  BY <1>0, <1>1, <1>3, LocalLock DEF HoldPcs
<1>5. PcOf(c) = "queue" /\ PcOf(c)' = "mark" /\ SemOf(c) = q /\ SemOf(c)' = q
  BY <1>0, <1>1 DEF PcOf, SemOf
<1>6. \A s \in Sems : c \notin Waiters(s)
  BY <1>0, <1>1, CurrentAwake DEF InBlock
<1>7. /\ NoDuplicates(wait_list'[q]) /\ Waiters(q)' = Waiters(q) \cup {c}
      /\ \A s \in Sems : s # q => wait_list'[s] = wait_list[s] /\ Waiters(s)' = Waiters(s)
  <2>1. /\ wait_list \in [Sems -> Seq(Threads)] /\ NoDuplicates(wait_list[q])
        /\ c \notin Items(wait_list[q])
    BY <1>c, <1>6 DEF QueuesTyped, LockOK, WaitersInside, Waiters
  <2>2. /\ wait_list'[q] = Append(wait_list[q], c)
        /\ \A s \in Sems : s # q => wait_list'[s] = wait_list[s]
    BY <1>3, <2>1
  <2>3. /\ Items(Append(wait_list[q], c)) = Items(wait_list[q]) \cup {c}
        /\ NoDuplicates(Append(wait_list[q], c))
    BY <2>1, AppendItems
  <2> QED  BY <2>2, <2>3 DEF Waiters
<1>8. WaitersInside'
  <2>1. ASSUME NEW s \in Sems PROVE NoDuplicates(wait_list'[s])
    BY <1>7 DEF LockOK, WaitersInside
  <2>2. ASSUME NEW s \in Sems, NEW t \in Waiters(s)'
        PROVE  SemOf(t)' = s /\ PcOf(t)' \in InBlock \cup {"ret"}
    <3>1. CASE t = c
      <4>1. s = q
        BY <1>6, <1>7, <3>1
      <4> QED  BY <1>5, <3>1, <4>1 DEF InBlock
    <3>2. CASE t # c
      <4>1. t \in Waiters(s)
        BY <1>7, <3>2
      <4>2. SemOf(t) = s /\ PcOf(t) \in InBlock \cup {"ret"} /\ t \in Threads
        BY <1>c, <4>1 DEF LockOK, QueuesTyped, WaitersInside, Waiters, Items
      <4> QED  BY <1>4, <3>2, <4>2
    <3> QED  BY <3>1, <3>2
  <2> QED  BY <2>1, <2>2 DEF WaitersInside
<1>9. Counted'
  <2>1. ASSUME NEW s \in Sems, NEW t \in Threads, t \in Holders(s)' PROVE t \in Holders(s)
    <3>1. t # c
      BY <1>5, <1>7, <2>1 DEF Holders, LetIn
    <3> QED  BY <1>4, <1>7, <2>1, <3>1 DEF Holders
  <2>2. \A s \in Sems : Holders(s)' \subseteq Holders(s)
    BY <2>1 DEF Holders
  <2> QED  BY <1>1, <1>3, <2>2, CountedKept DEF LockOK
<1>10. OneTurn'
  <2> SUFFICES ASSUME NEW t \in Threads
               PROVE  Turns(t)' + (IF Waiting(t)' THEN 1 ELSE 0)
                      <= 1 + (IF PcOf(t)' \in Leaving THEN 1 ELSE 0)
    BY DEF OneTurn
  <2>1. /\ Turns(t) \in Nat /\ Turns(t)' = Turns(t)
        /\ Turns(t) + (IF Waiting(t) THEN 1 ELSE 0) <= 1 + (IF PcOf(t) \in Leaving THEN 1 ELSE 0)
    BY <1>4, <1>c, TurnsTyped DEF LockOK, OneTurn
  <2>2. CASE t = c
    <3>1. PcOf(t)' \in Leaving /\ PcOf(t) \notin Leaving
      BY <1>5, <2>2 DEF Leaving
    <3> QED  BY <2>1, <3>1
  <2>3. CASE t # c
    <3>1. Waiting(t)' => Waiting(t)
      BY <1>7, <2>3 DEF Waiting
    <3>2. PcOf(t)' = PcOf(t)
      BY <1>4, <2>3
    <3> QED  BY <2>1, <3>1, <3>2
  <2> QED  BY <2>2, <2>3
<1>11. FramesLeft' /\ BootQuiet'
  BY <1>1, <1>3 DEF LockOK, FramesLeft, BootQuiet
<1> QED  BY <1>8, <1>9, <1>10, <1>11 DEF LockOK

(* sem_release takes the first waiter off the list: what the releasing      *)
(* thread held passes to it, and so does a turn.                            *)
LEMMA ReleasePopLock ==
    ASSUME LockOK, IsFiniteSet(Threads), StackOK', ReleasePop
    PROVE  LockOK'
<1>c. StackOK /\ QueuesTyped /\ CtxTyped
  BY DEF LockOK, StackOK
<1>0. PICK c \in Threads, q \in Sems : cpu.thr = c /\ cpu.sem = q
  BY <1>c DEF CtxTyped, Context
<1> DEFINE x == DelFirst(wait_list[q])
<1>1. /\ mode = "run" /\ cpu.pc = "rpop"
      /\ cpu' = [cpu EXCEPT !.pc = "radd", !.nxt = x]
      /\ wait_list' = [wait_list EXCEPT ![q] = Rest(@)]
      /\ UNCHANGED <<mode, thr_current, thr_ready, thr_sleep, count, kctx>>
  BY <1>0 DEF ReleasePop
<1>2. cpu'.pc = "radd" /\ cpu'.nxt = x /\ cpu'.thr = c /\ cpu'.sem = q
  BY <1>0, <1>1, <1>c DEF CtxTyped, Context
<1>3. /\ \A s \in Sems : s # q => wait_list'[s] = wait_list[s]
      /\ NoDuplicates(wait_list'[q])
      /\ Items(wait_list'[q]) = Items(wait_list[q]) \ {x}
      /\ x \in Threads => x \in Items(wait_list[q])
  <2>1. /\ wait_list \in [Sems -> Seq(Threads)] /\ NoDuplicates(wait_list[q])
        /\ wait_list[q] \in Seq(Threads)
    BY <1>c DEF QueuesTyped, LockOK, WaitersInside
  <2>2. /\ wait_list'[q] = Rest(wait_list[q])
        /\ \A s \in Sems : s # q => wait_list'[s] = wait_list[s]
    BY <1>1, <2>1
  <2>3. CASE wait_list[q] = <<>>
    <3>1. x = NULL /\ wait_list'[q] = wait_list[q] /\ Items(wait_list[q]) = {}
      BY <2>2, <2>3 DEF DelFirst, Rest, Items
    <3> QED  BY <2>1, <2>2, <3>1, ThreadsAssumption
  <2>4. CASE wait_list[q] # <<>>
    <3>1. x = Head(wait_list[q]) /\ wait_list'[q] = Tail(wait_list[q])
      BY <2>2, <2>4 DEF DelFirst, Rest
    <3>2. /\ Head(wait_list[q]) \in Items(wait_list[q])
          /\ Items(wait_list[q]) = {Head(wait_list[q])} \cup Items(Tail(wait_list[q]))
      BY <2>1, <2>4, TailItems
    <3>3. NoDuplicates(Tail(wait_list[q])) /\ Head(wait_list[q]) \notin Items(Tail(wait_list[q]))
      BY <2>1, <2>4, TailNoDuplicates
    <3> HIDE DEF x
    <3> QED  BY <2>2, <3>1, <3>2, <3>3
  <2> QED  BY <2>3, <2>4
<1> HIDE DEF x
<1>4. /\ \A u \in Threads : u # c => PcOf(u)' = PcOf(u) /\ SemOf(u)' = SemOf(u) /\ NxtOf(u)' = NxtOf(u)
      /\ PcOf(c) = "rpop" /\ PcOf(c)' = "radd" /\ NxtOf(c)' = x /\ SemOf(c) = q /\ SemOf(c)' = q
  BY <1>0, <1>1, <1>2 DEF PcOf, SemOf, NxtOf
<1>5. /\ \A s \in Sems : s # q => Waiters(s)' = Waiters(s)
      /\ Waiters(q)' = Waiters(q) \ {x}
      /\ x \in Threads => x \in Waiters(q)
  BY <1>3 DEF Waiters
<1>6. \A s \in Sems : c \notin Waiters(s)
  BY <1>0, <1>1, CurrentAwake DEF InBlock
<1>7. \A s \in Sems : \A t \in Waiters(s) : SemOf(t) = s /\ PcOf(t) \in InBlock \cup {"ret"} /\ t \in Threads
  BY <1>c DEF LockOK, QueuesTyped, WaitersInside, Waiters, Items
<1>8. WaitersInside'
  <2>1. ASSUME NEW s \in Sems PROVE NoDuplicates(wait_list'[s])
    BY <1>3 DEF LockOK, WaitersInside
  <2>2. ASSUME NEW s \in Sems, NEW t \in Waiters(s)'
        PROVE  SemOf(t)' = s /\ PcOf(t)' \in InBlock \cup {"ret"}
    <3>1. t \in Waiters(s) /\ t # c
      BY <1>5, <1>6
    <3> QED  BY <1>4, <1>7, <3>1
  <2> QED  BY <2>1, <2>2 DEF WaitersInside
<1>9. Counted'
  <2>1. count \in [Sems -> Nat]
    BY DEF LockOK, Counted
  <2>2. ASSUME NEW s \in Sems PROVE count[s] + Cardinality(Holders(s)') <= InitCount[s]
    <3>1. /\ IsFiniteSet(Holders(s)) /\ Cardinality(Holders(s)) \in Nat
          /\ count[s] \in Nat /\ InitCount[s] \in Nat
          /\ count[s] + Cardinality(Holders(s)) <= InitCount[s]
      BY <2>1, HoldersFinite, SemsAssumption DEF LockOK, Counted
    <3>2. CASE s = q
      <4>1. c \in Holders(s) /\ c \notin Holders(s)'
        BY <1>4, <3>2 DEF Holders, LetIn, InBlock
      <4>2. \A t \in Threads : t # c /\ t # x => (t \in Holders(s)' <=> t \in Holders(s))
        BY <1>4, <1>5, <3>2 DEF Holders
      <4>3. Holders(s)' \subseteq (Holders(s) \ {c}) \cup {x}
        BY <4>1, <4>2 DEF Holders
      <4>4. /\ IsFiniteSet(Holders(s) \ {c})
            /\ Cardinality(Holders(s) \ {c}) = Cardinality(Holders(s)) - 1
        BY <3>1, <4>1, FS_RemoveElement
      <4>5. /\ IsFiniteSet((Holders(s) \ {c}) \cup {x})
            /\ Cardinality((Holders(s) \ {c}) \cup {x}) <= Cardinality(Holders(s))
        <5> DEFINE R == Holders(s) \ {c}
        <5>1. IsFiniteSet(R) /\ Cardinality(R) = Cardinality(Holders(s)) - 1
          BY <4>4
        <5> HIDE DEF R
        <5>2. /\ IsFiniteSet(R \cup {x})
              /\ Cardinality(R \cup {x}) = IF x \in R THEN Cardinality(R) ELSE Cardinality(R) + 1
          BY <5>1, FS_AddElement
        <5>3. Cardinality(R \cup {x}) <= Cardinality(Holders(s))
          BY <3>1, <5>1, <5>2
        <5> QED  BY <5>2, <5>3 DEF R
      <4>6. Cardinality(Holders(s)') <= Cardinality((Holders(s) \ {c}) \cup {x})
            /\ Cardinality(Holders(s)') \in Nat /\ Cardinality((Holders(s) \ {c}) \cup {x}) \in Nat
        BY <4>3, <4>5, FS_Subset, FS_CardinalityType
      <4> QED  BY <3>1, <4>5, <4>6
    <3>3. CASE s # q
      <4>1. Holders(s)' = Holders(s)
        BY <1>4, <1>5, <3>3 DEF Holders
      <4> QED  BY <3>1, <4>1
    <3> QED  BY <3>2, <3>3
  <2> QED  BY <1>1, <1>2, <2>1, <2>2 DEF Counted
<1>10. \A t \in Threads : Cardinality(Hold(t)') = Cardinality(Hold(t)) + IF t = x THEN 1 ELSE 0
  BY <1>c, <1>4, HoldTake DEF HoldPcs
<1>11. ASSUME NEW t \in Threads
       PROVE  Turns(t) \in Nat /\ Turns(t)' = Turns(t) + IF t = x THEN 1 ELSE 0
  <2>1. /\ Mult(thr_ready, {t}) \in Nat /\ Mult(thr_sleep, EntriesOf(t)) \in Nat
        /\ Cardinality(Hold(t)) \in Nat /\ Turns(t) \in Nat
    BY <1>c, TurnsTyped
  <2> QED  BY <1>1, <1>10, <2>1 DEF Turns, OnCpu
<1>12. OneTurn'
  <2> SUFFICES ASSUME NEW t \in Threads
               PROVE  Turns(t)' + (IF Waiting(t)' THEN 1 ELSE 0)
                      <= 1 + (IF PcOf(t)' \in Leaving THEN 1 ELSE 0)
    BY DEF OneTurn
  <2>1. /\ Turns(t) \in Nat /\ Turns(t)' = Turns(t) + (IF t = x THEN 1 ELSE 0)
        /\ Turns(t) + (IF Waiting(t) THEN 1 ELSE 0) <= 1 + (IF PcOf(t) \in Leaving THEN 1 ELSE 0)
    BY <1>11 DEF LockOK, OneTurn
  <2>2. Waiting(t)' => Waiting(t)
    BY <1>5 DEF Waiting
  <2>3. PcOf(t) \in Leaving => PcOf(t)' \in Leaving
    BY <1>4 DEF Leaving
  <2>4. CASE t = x
    <3>1. t \in Waiters(q) /\ t \notin Waiters(q)'
      BY <1>5, <2>4
    <3>2. \A s \in Sems : s # q => t \notin Waiters(s)'
      BY <1>5, <1>7, <3>1
    <3>3. Waiting(t) /\ ~Waiting(t)'
      BY <3>1, <3>2 DEF Waiting
    <3> QED  BY <2>1, <2>3, <2>4, <3>3
  <2>5. CASE t # x
    BY <2>1, <2>2, <2>3, <2>5
  <2> QED  BY <2>4, <2>5
<1>13. FramesLeft' /\ BootQuiet'
  BY <1>1, <1>2 DEF LockOK, FramesLeft, BootQuiet
<1> QED  BY <1>8, <1>9, <1>12, <1>13 DEF LockOK

(* It makes the waiter ready; *)
LEMMA ReleaseAddLock ==
    ASSUME LockOK, IsFiniteSet(Threads), StackOK', ReleaseAdd
    PROVE  LockOK'
<1>c. StackOK /\ QueuesTyped /\ CtxTyped
  BY DEF LockOK, StackOK
<1>0. PICK c \in Threads, x \in Threads : cpu.thr = c /\ cpu.nxt = x
  BY <1>c DEF ReleaseAdd, CtxTyped, Context
<1>1. /\ mode = "run" /\ cpu.pc = "radd" /\ cpu'.pc = "rmark"
      /\ cpu'.thr = c /\ cpu'.sem = cpu.sem /\ cpu'.nxt = x
  BY <1>0, <1>c, GoFields DEF ReleaseAdd, Pcs
<1>2. /\ thr_ready' = OlistAdd(thr_ready, x, ByPriority)
      /\ UNCHANGED <<mode, thr_current, thr_sleep, count, wait_list, kctx>>
  BY <1>0 DEF ReleaseAdd
<1>3. /\ \A u \in Threads : u # c => PcOf(u)' = PcOf(u) /\ SemOf(u)' = SemOf(u) /\ NxtOf(u)' = NxtOf(u)
      /\ PcOf(c) = "radd" /\ PcOf(c)' = "rmark" /\ NxtOf(c) = x
  BY <1>0, <1>1, <1>2 DEF PcOf, SemOf, NxtOf
<1>4. \A t \in Threads : Cardinality(Hold(t)) = Cardinality(Hold(t)') + IF t = x THEN 1 ELSE 0
  BY <1>c, <1>3, HoldDrop DEF HoldPcs
<1>5. \A t \in Threads : Mult(thr_ready', {t}) = Mult(thr_ready, {t}) + IF t = x THEN 1 ELSE 0
  <2> SUFFICES ASSUME NEW t \in Threads
               PROVE  Mult(thr_ready', {t}) = Mult(thr_ready, {t}) + IF t = x THEN 1 ELSE 0
    OBVIOUS
  <2>1. thr_ready \in Seq(Threads) /\ ByPriority \in [Threads -> Int]
    BY <1>c, KeyTypes DEF QueuesTyped
  <2>2. Mult(OlistAdd(thr_ready, x, ByPriority), {t})
        = Mult(thr_ready, {t}) + IF x \in {t} THEN 1 ELSE 0
    BY <2>1, MultOlistAdd
  <2> QED  BY <1>2, <2>2
<1>6. ASSUME NEW t \in Threads PROVE Turns(t)' <= Turns(t)
  <2>1. /\ Mult(thr_ready, {t}) \in Nat /\ Mult(thr_sleep, EntriesOf(t)) \in Nat
        /\ Cardinality(Hold(t)) \in Nat /\ Turns(t) \in Nat
    BY <1>c, TurnsTyped
  <2>2. Cardinality(Hold(t)') \in Nat
    BY TurnsTypedNext DEF StackOK
  <2> QED  BY <1>2, <1>4, <1>5, <2>1, <2>2 DEF Turns, OnCpu
<1>7. /\ WaitersInside' /\ Counted'
      /\ \A t \in Threads : Waiting(t)' = Waiting(t)
  BY <1>0, <1>1, <1>2, <1>3, LocalWaiters DEF InBlock, LetIn
<1>8. OneTurn'
  <2>1. \A t \in Threads : PcOf(t) \in Leaving => PcOf(t)' \in Leaving
    BY <1>3 DEF Leaving
  <2> QED  BY <1>6, <1>7, <2>1, OneTurnKept DEF LockOK, StackOK
<1>9. FramesLeft' /\ BootQuiet'
  BY <1>1, <1>2 DEF LockOK, FramesLeft, BootQuiet
<1> QED  BY <1>7, <1>8, <1>9 DEF LockOK

(* without a waiter it counts. *)
LEMMA ReleaseIncLock ==
    ASSUME LockOK, IsFiniteSet(Threads), StackOK', ReleaseInc
    PROVE  LockOK'
<1>c. StackOK /\ QueuesTyped /\ CtxTyped
  BY DEF LockOK, StackOK
<1>0. PICK c \in Threads, q \in Sems : cpu.thr = c /\ cpu.sem = q
  BY <1>c DEF CtxTyped, Context
<1>1. /\ mode = "run" /\ cpu.pc = "rinc" /\ cpu'.pc = "idle"
      /\ cpu'.thr = c /\ cpu'.sem = q /\ cpu'.nxt = cpu.nxt
  BY <1>0, <1>c, GoFields DEF ReleaseInc, Pcs
<1>2. /\ count' = [count EXCEPT ![q] = @ + 1]
      /\ UNCHANGED <<mode, thr_current, thr_ready, thr_sleep, wait_list, kctx>>
  BY <1>0 DEF ReleaseInc, lists
<1>3. /\ \A u \in Threads : u # c => PcOf(u)' = PcOf(u) /\ SemOf(u)' = SemOf(u)
      /\ \A t \in Threads : Turns(t)' = Turns(t)
  BY <1>0, <1>1, <1>2, LocalLock DEF HoldPcs
<1>4. PcOf(c) = "rinc" /\ PcOf(c)' = "idle" /\ SemOf(c) = q /\ SemOf(c)' = q
  BY <1>0, <1>1 DEF PcOf, SemOf
<1>5. \A s \in Sems : Waiters(s)' = Waiters(s)
  BY <1>2, WaitersSame
<1>6. \A s \in Sems : c \notin Waiters(s)
  BY <1>0, <1>1, CurrentAwake DEF InBlock
<1>7. WaitersInside'
  <2> SUFFICES ASSUME NEW s \in Sems, NEW t \in Waiters(s)
               PROVE  SemOf(t)' = s /\ PcOf(t)' \in InBlock \cup {"ret"}
    BY <1>2, <1>5 DEF LockOK, WaitersInside
  <2>1. SemOf(t) = s /\ PcOf(t) \in InBlock \cup {"ret"} /\ t \in Threads
    BY <1>c DEF LockOK, QueuesTyped, WaitersInside, Waiters, Items
  <2> QED  BY <1>3, <1>6, <2>1
<1>8. Counted'
  <2>1. count \in [Sems -> Nat]
    BY DEF LockOK, Counted
  <2>2. /\ count' \in [Sems -> Nat] /\ count'[q] = count[q] + 1
        /\ \A s \in Sems : s # q => count'[s] = count[s]
    BY <1>2, <2>1
  <2>3. ASSUME NEW s \in Sems PROVE count'[s] + Cardinality(Holders(s)') <= InitCount[s]
    <3>1. /\ IsFiniteSet(Holders(s)) /\ Cardinality(Holders(s)) \in Nat
          /\ count[s] \in Nat /\ InitCount[s] \in Nat
          /\ count[s] + Cardinality(Holders(s)) <= InitCount[s]
      BY <2>1, HoldersFinite, SemsAssumption DEF LockOK, Counted
    <3>2. CASE s = q
      <4>1. Holders(s)' = Holders(s) \ {c} /\ c \in Holders(s)
        BY <1>3, <1>4, <1>5, <3>2 DEF Holders, LetIn, InBlock
      <4>2. Cardinality(Holders(s) \ {c}) = Cardinality(Holders(s)) - 1
        BY <3>1, <4>1, FS_RemoveElement
      <4> QED  BY <2>2, <3>1, <3>2, <4>1, <4>2
    <3>3. CASE s # q
      <4>1. Holders(s)' = Holders(s)
        BY <1>3, <1>4, <1>5, <3>3 DEF Holders
      <4> QED  BY <2>2, <3>1, <3>3, <4>1
    <3> QED  BY <3>2, <3>3
  <2> QED  BY <1>1, <2>2, <2>3 DEF Counted
<1>9. OneTurn'
  <2>0. \A t \in Threads : Turns(t) \in Nat
    BY <1>c, TurnsTyped
  <2>1. \A t \in Threads : PcOf(t) \in Leaving => PcOf(t)' \in Leaving
    BY <1>3, <1>4 DEF Leaving
  <2>2. \A t \in Threads : Turns(t)' <= Turns(t)
    BY <1>3, <2>0
  <2>3. \A t \in Threads : Waiting(t)' = Waiting(t)
    BY <1>5 DEF Waiting
  <2> QED  BY <2>1, <2>2, <2>3, OneTurnKept DEF LockOK, StackOK
<1>10. FramesLeft' /\ BootQuiet'
  BY <1>1, <1>2 DEF LockOK, FramesLeft, BootQuiet
<1> QED  BY <1>7, <1>8, <1>9, <1>10 DEF LockOK

(* A step that leaves every thread where it is in its program.              *)
LEMMA ContextsKept ==
    ASSUME LockOK, IsFiniteSet(Threads), UNCHANGED <<count, wait_list>>, cpu'.pc # "dec",
           \A t \in Threads : PcOf(t)' = PcOf(t) /\ SemOf(t)' = SemOf(t)
    PROVE  /\ WaitersInside' /\ Counted'
           /\ \A t \in Threads : Waiting(t)' = Waiting(t)
<1>1. \A s \in Sems : Waiters(s)' = Waiters(s)
  BY WaitersSame
<1>2. WaitersInside'
  <2> SUFFICES ASSUME NEW s \in Sems, NEW t \in Waiters(s)
               PROVE  SemOf(t)' = s /\ PcOf(t)' \in InBlock \cup {"ret"}
    BY <1>1 DEF LockOK, WaitersInside
  <2>1. SemOf(t) = s /\ PcOf(t) \in InBlock \cup {"ret"} /\ t \in Threads
    BY DEF LockOK, StackOK, QueuesTyped, WaitersInside, Waiters, Items
  <2> QED  BY <2>1
<1>3. \A s \in Sems : Holders(s)' \subseteq Holders(s)
  BY <1>1 DEF Holders
<1>4. Counted'
  BY <1>3, CountedKept DEF LockOK
<1> QED  BY <1>1, <1>2, <1>4 DEF Waiting

(* One that gives nobody another turn. *)
LEMMA TurnsKept ==
    ASSUME LockOK, StackOK', IsFiniteSet(Threads), UNCHANGED <<count, wait_list>>,
           cpu'.pc # "dec",
           \A t \in Threads : PcOf(t)' = PcOf(t) /\ SemOf(t)' = SemOf(t),
           \A t \in Threads : Turns(t)' <= Turns(t)
    PROVE  WaitersInside' /\ Counted' /\ OneTurn'
<1>1. /\ WaitersInside' /\ Counted'
      /\ \A t \in Threads : Waiting(t)' = Waiting(t)
  BY ContextsKept
<1>2. OneTurn'
  BY <1>1, OneTurnKept DEF LockOK, StackOK
<1> QED  BY <1>1, <1>2

(* The timer interrupt: the current thread's turn is on the ready list.     *)
LEMMA IrqEnterLock ==
    ASSUME LockOK, IsFiniteSet(Threads), StackOK', IrqEnter, Uncut(LockPlaces)'
    PROVE  LockOK'
<1>c. StackOK /\ QueuesTyped /\ CtxTyped
  BY DEF LockOK, StackOK
<1>1. /\ mode = "run" /\ mode' = "irq"
      /\ UNCHANGED <<thr_current, thr_sleep, count, wait_list, cpu, kctx>>
  BY DEF IrqEnter, TimerEnter
<1>2. cpu.pc \notin LockPlaces
  BY DEF IrqEnter, Uncut, LockPlaces, InCall, InWait, InBlock
<1>3. PICK c \in Threads : thr_current = c
  BY <1>c DEF IrqEnter, QueuesTyped
<1>4. PICK ok \in Alloc :
         thr_ready' = IF ok THEN OlistAdd(thr_ready, c, ByPriority) ELSE thr_ready
  BY <1>3 DEF IrqEnter, TimerEnter
<1>5. \A t \in Threads : /\ PcOf(t)' = PcOf(t) /\ SemOf(t)' = SemOf(t)
                         /\ Hold(t)' = Hold(t)
  BY <1>1 DEF PcOf, SemOf, Hold, NxtOf
<1>6. ASSUME NEW t \in Threads PROVE Turns(t)' <= Turns(t)
  <2>1. thr_ready \in Seq(Threads) /\ ByPriority \in [Threads -> Int]
    BY <1>c, KeyTypes DEF QueuesTyped
  <2>2. Mult(OlistAdd(thr_ready, c, ByPriority), {t})
        = Mult(thr_ready, {t}) + IF c \in {t} THEN 1 ELSE 0
    BY <2>1, MultOlistAdd
  <2>3. /\ Mult(thr_ready, {t}) \in Nat /\ Mult(thr_sleep, EntriesOf(t)) \in Nat
        /\ Cardinality(Hold(t)) \in Nat /\ Turns(t) \in Nat
    BY <1>c, TurnsTyped
  <2>4. Mult(thr_ready', {t}) <= Mult(thr_ready, {t}) + (IF t = c THEN 1 ELSE 0)
    BY <1>4, <2>2, <2>3
  <2>5. Mult(thr_ready', {t}) \in Nat
    BY TurnsTypedNext DEF StackOK
  <2>6. (OnCpu(t) <=> t = c) /\ ~OnCpu(t)'
    BY <1>1, <1>3 DEF OnCpu
  <2> QED  BY <1>1, <1>5, <2>3, <2>4, <2>5, <2>6 DEF Turns
<1>7. WaitersInside' /\ Counted' /\ OneTurn'
  BY <1>1, <1>2, <1>5, <1>6, TurnsKept DEF LockPlaces
<1>8. FramesLeft' /\ BootQuiet'
  BY <1>1, <1>2 DEF LockOK, FramesLeft, BootQuiet
<1> QED  BY <1>7, <1>8 DEF LockOK

(* A sleeper that is due gets its turn on the ready list.                   *)
LEMMA IrqWakeLock ==
    ASSUME LockOK, IsFiniteSet(Threads), StackOK', IrqWake
    PROVE  LockOK'
<1>c. StackOK /\ QueuesTyped /\ CtxTyped
  BY DEF LockOK, StackOK
<1>1. /\ mode = "irq" /\ mode' \in {"irq", "panic"}
      /\ thr_sleep # <<>> /\ thr_sleep' = Tail(thr_sleep)
      /\ UNCHANGED <<thr_current, count, wait_list, cpu, kctx>>
  BY DEF IrqWake, WakeOne, SleeperDue
<1>2. cpu.pc \notin LockPlaces
  BY <1>1 DEF LockOK, FramesLeft
<1>3. Head(thr_sleep) \in SleepEntry
  BY <1>1, <1>c, TailItems DEF QueuesTyped
<1>4. PICK w \in Threads : Head(thr_sleep).thread = w
  BY <1>3 DEF SleepEntry
<1>5. PICK ok \in Alloc :
         thr_ready' = IF ok THEN OlistAdd(thr_ready, w, ByPriority) ELSE thr_ready
  BY <1>4 DEF IrqWake, WakeOne
<1>6. \A t \in Threads : /\ PcOf(t)' = PcOf(t) /\ SemOf(t)' = SemOf(t)
                         /\ Hold(t)' = Hold(t)
  BY <1>1 DEF PcOf, SemOf, Hold, NxtOf
<1>7. ASSUME NEW t \in Threads PROVE Turns(t)' <= Turns(t)
  <2>1. /\ thr_ready \in Seq(Threads) /\ ByPriority \in [Threads -> Int]
        /\ thr_sleep \in Seq(SleepEntry)
    BY <1>c, KeyTypes DEF QueuesTyped
  <2>2. Mult(OlistAdd(thr_ready, w, ByPriority), {t})
        = Mult(thr_ready, {t}) + IF w \in {t} THEN 1 ELSE 0
    BY <2>1, MultOlistAdd
  <2>3. Mult(thr_sleep, EntriesOf(t))
        = Mult(Tail(thr_sleep), EntriesOf(t)) + IF Head(thr_sleep) \in EntriesOf(t) THEN 1 ELSE 0
    BY <1>1, <2>1, MultTail
  <2>4. Head(thr_sleep) \in EntriesOf(t) <=> t = w
    BY <1>3, <1>4 DEF EntriesOf
  <2>5. /\ Mult(thr_ready, {t}) \in Nat /\ Mult(thr_sleep, EntriesOf(t)) \in Nat
        /\ Cardinality(Hold(t)) \in Nat /\ Turns(t) \in Nat
    BY <1>c, TurnsTyped
  <2>6. Mult(thr_ready', {t}) <= Mult(thr_ready, {t}) + (IF t = w THEN 1 ELSE 0)
    BY <1>5, <2>2, <2>5
  <2>7. Mult(thr_ready', {t}) \in Nat /\ Mult(thr_sleep', EntriesOf(t)) \in Nat
    BY TurnsTypedNext DEF StackOK
  <2>8. Mult(thr_sleep, EntriesOf(t)) = Mult(thr_sleep', EntriesOf(t)) + (IF t = w THEN 1 ELSE 0)
    BY <1>1, <2>3, <2>4
  <2>9. ~OnCpu(t) /\ ~OnCpu(t)'
    BY <1>1 DEF OnCpu
  <2> QED  BY <1>6, <2>5, <2>6, <2>7, <2>8, <2>9 DEF Turns
<1>8. WaitersInside' /\ Counted' /\ OneTurn'
  BY <1>1, <1>2, <1>6, <1>7, TurnsKept DEF LockPlaces
<1>9. FramesLeft' /\ BootQuiet'
  BY <1>1, <1>2 DEF LockOK, FramesLeft, BootQuiet
<1> QED  BY <1>8, <1>9 DEF LockOK

(* A dispatch leaves every thread where it is in its program. *)
LEMMA SwitchLock ==
    ASSUME LockOK, cpu.pc \notin LockPlaces, mode \in {"run", "irq"},
           thr_current' \in Threads \cup {NULL},
           Resume([kctx EXCEPT ![thr_current] = cpu], thr_current')
    PROVE  /\ \A t \in Threads : PcOf(t)' = PcOf(t) /\ SemOf(t)' = SemOf(t) /\ Hold(t)' = Hold(t)
           /\ thr_current \in Threads /\ thr_current' \in Threads
           /\ cpu'.pc \notin LockPlaces
           /\ FramesLeft'
<1>c. StackOK /\ QueuesTyped /\ CtxTyped
  BY DEF LockOK, StackOK
<1>0. PICK c \in Threads : cpu.thr = c /\ thr_current = c
  BY <1>c DEF CtxTyped, Context, StackOK, OwnStack, LockPlaces
<1> DEFINE saved == [kctx EXCEPT ![c] = cpu]
<1>1. /\ saved \in [Threads -> Context] /\ saved[c] = cpu
      /\ \A t \in Threads : t # c => saved[t] = kctx[t]
  BY <1>c DEF CtxTyped
<1>2. Resume(saved, thr_current')
  BY <1>0
<1> HIDE DEF saved
<1>3. PICK u \in Threads : thr_current' = u
  BY DEF Resume
<1>4. /\ cpu' = saved[u] /\ kctx'[u].pc = "used"
      /\ \A t \in Threads : t # u => kctx'[t] = saved[t]
  BY <1>1, <1>2, <1>3, ResumeFields
<1>5. \A t \in Threads : saved[t].thr = t /\ saved[t].pc \notin LockPlaces
  BY <1>0, <1>1, <1>c DEF StackOK, OwnStack, LockOK, FramesLeft
<1>6. \A t \in Threads : PcOf(t) = saved[t].pc /\ SemOf(t) = saved[t].sem /\ NxtOf(t) = saved[t].nxt
  BY <1>0, <1>1 DEF PcOf, SemOf, NxtOf
<1>7. \A t \in Threads : /\ PcOf(t)' = saved[t].pc /\ SemOf(t)' = saved[t].sem
                         /\ NxtOf(t)' = saved[t].nxt
  BY <1>4, <1>5 DEF PcOf, SemOf, NxtOf
<1>8. \A t \in Threads : Hold(t)' = Hold(t)
  BY <1>6, <1>7 DEF Hold
<1>9. cpu'.pc \notin LockPlaces
  BY <1>4, <1>5
<1>10. FramesLeft'
  BY <1>4, <1>5, <1>9 DEF FramesLeft, LockPlaces
<1> QED  BY <1>0, <1>3, <1>6, <1>7, <1>8, <1>9, <1>10

(* The end of the timer handler: the first ready thread has the CPU. *)
LEMMA IrqExitLock ==
    ASSUME LockOK, IsFiniteSet(Threads), StackOK', IrqExit
    PROVE  LockOK'
<1>c. StackOK /\ QueuesTyped /\ CtxTyped
  BY DEF LockOK, StackOK
<1>1. /\ mode = "irq" /\ Resched(thr_ready)
      /\ UNCHANGED <<thr_sleep, count, wait_list>>
      /\ Resume([kctx EXCEPT ![thr_current] = cpu], thr_current')
  BY DEF IrqExit, TimerExit
<1>2. cpu.pc \notin LockPlaces
  BY <1>1 DEF LockOK, FramesLeft
<1>3. thr_current' \in Threads \cup {NULL}
  BY DEF StackOK, QueuesTyped
<1>4. /\ \A t \in Threads : PcOf(t)' = PcOf(t) /\ SemOf(t)' = SemOf(t) /\ Hold(t)' = Hold(t)
      /\ thr_current' \in Threads /\ cpu'.pc \notin LockPlaces
      /\ FramesLeft'
  BY <1>1, <1>2, <1>3, SwitchLock
<1>5. /\ thr_ready # <<>> /\ thr_current' = Head(thr_ready) /\ thr_ready' = Tail(thr_ready)
      /\ mode' = "run"
  BY <1>1, <1>4, ThreadsAssumption DEF Resched
<1>6. ASSUME NEW t \in Threads PROVE Turns(t)' <= Turns(t)
  <2>1. thr_ready \in Seq(Threads)
    BY <1>c DEF QueuesTyped
  <2>2. Mult(thr_ready, {t}) = Mult(Tail(thr_ready), {t}) + IF Head(thr_ready) \in {t} THEN 1 ELSE 0
    BY <1>5, <2>1, MultTail
  <2>3. /\ Mult(thr_ready, {t}) \in Nat /\ Mult(thr_sleep, EntriesOf(t)) \in Nat
        /\ Cardinality(Hold(t)) \in Nat /\ Turns(t) \in Nat
    BY <1>c, TurnsTyped
  <2>4. Mult(thr_ready', {t}) \in Nat
    BY TurnsTypedNext DEF StackOK
  <2>5. ~OnCpu(t) /\ (OnCpu(t)' <=> Head(thr_ready) = t)
    BY <1>1, <1>5 DEF OnCpu
  <2>6. Mult(thr_ready, {t}) = Mult(thr_ready', {t}) + IF Head(thr_ready) = t THEN 1 ELSE 0
    BY <1>5, <2>2
  <2> QED  BY <1>1, <1>4, <2>3, <2>4, <2>5, <2>6 DEF Turns
<1>7. WaitersInside' /\ Counted' /\ OneTurn'
  BY <1>1, <1>4, <1>6, TurnsKept DEF LockPlaces
<1>8. BootQuiet'
  BY <1>5 DEF BootQuiet
<1> QED  BY <1>4, <1>7, <1>8 DEF LockOK

(* The sleep system call: the caller's turn is on the sleep list. *)
LEMMA SleepCallLock ==
    ASSUME LockOK, IsFiniteSet(Threads), StackOK', NEW a \in SleepArgs,
           SleepCall(a[1], a[2])
    PROVE  LockOK'
<1>c. StackOK /\ QueuesTyped /\ CtxTyped
  BY DEF LockOK, StackOK
<1>1. /\ mode = "run" /\ cpu.pc = "idle" /\ UNCHANGED <<count, wait_list>>
      /\ Resume([kctx EXCEPT ![thr_current] = cpu], thr_current')
  BY DEF SleepCall, Sleep, SleepQueued, SleepPanics, lists
<1>2. cpu.pc \notin LockPlaces
  BY <1>1 DEF LockPlaces
<1>3. thr_current' \in Threads \cup {NULL}
  BY DEF StackOK, QueuesTyped
<1>4. /\ \A t \in Threads : PcOf(t)' = PcOf(t) /\ SemOf(t)' = SemOf(t) /\ Hold(t)' = Hold(t)
      /\ thr_current \in Threads /\ thr_current' \in Threads /\ cpu'.pc \notin LockPlaces
      /\ FramesLeft'
  BY <1>1, <1>2, <1>3, SwitchLock
<1>5. mode' # "boot" /\ \A t \in Threads : Turns(t)' <= Turns(t)
  <2>1. CASE SleepPanics
    <3>1. mode' = "panic" /\ UNCHANGED <<thr_ready, thr_sleep>>
      BY <2>1 DEF SleepPanics, lists
    <3>2. ASSUME NEW t \in Threads PROVE Turns(t)' <= Turns(t)
      <4>1. /\ Mult(thr_ready, {t}) \in Nat /\ Mult(thr_sleep, EntriesOf(t)) \in Nat
            /\ Cardinality(Hold(t)) \in Nat /\ Turns(t) \in Nat
        BY <1>c, TurnsTyped
      <4>2. ~OnCpu(t)'
        BY <3>1 DEF OnCpu
      <4> QED  BY <1>4, <3>1, <4>1, <4>2 DEF Turns
    <3> QED  BY <3>1, <3>2
  <2>2. CASE SleepQueued(a[1], a[2])
    <3> DEFINE c == thr_current
    <3>1. PICK targ \in TargTicks(a[1], a[2]), ok \in Alloc :
             thr_sleep' = IF ok THEN OlistAdd(thr_sleep, [thread |-> c, time |-> targ], ByTime)
                          ELSE thr_sleep
      BY <2>2 DEF SleepQueued
    <3> DEFINE ent == [thread |-> c, time |-> targ]
    <3>2. ent \in SleepEntry /\ ent.thread = c
      BY <1>4, <1>c, TargTicksType DEF QueuesTyped, SleepEntry
    <3>3. thr_sleep' = IF ok THEN OlistAdd(thr_sleep, ent, ByTime) ELSE thr_sleep
      BY <3>1
    <3>4. c \in Threads
      BY <1>4
    <3>5. Resched(thr_ready)
      BY <2>2 DEF SleepQueued
    <3>6. /\ thr_ready # <<>> /\ thr_current' = Head(thr_ready) /\ thr_ready' = Tail(thr_ready)
          /\ mode' = "run"
      BY <1>4, <3>5, ThreadsAssumption DEF Resched
    <3> HIDE DEF ent
    <3>7. ASSUME NEW t \in Threads PROVE Turns(t)' <= Turns(t)
      <4>1. /\ thr_ready \in Seq(Threads) /\ thr_sleep \in Seq(SleepEntry)
            /\ ByTime \in [SleepEntry -> Int]
        BY <1>c, KeyTypes DEF QueuesTyped
      <4>2. Mult(thr_ready, {t})
            = Mult(Tail(thr_ready), {t}) + IF Head(thr_ready) \in {t} THEN 1 ELSE 0
        BY <3>6, <4>1, MultTail
      <4>3. Mult(OlistAdd(thr_sleep, ent, ByTime), EntriesOf(t))
            = Mult(thr_sleep, EntriesOf(t)) + IF ent \in EntriesOf(t) THEN 1 ELSE 0
        BY <3>2, <4>1, MultOlistAdd
      <4>4. ent \in EntriesOf(t) <=> t = c
        BY <3>2 DEF EntriesOf
      <4>5. /\ Mult(thr_ready, {t}) \in Nat /\ Mult(thr_sleep, EntriesOf(t)) \in Nat
            /\ Cardinality(Hold(t)) \in Nat /\ Turns(t) \in Nat
        BY <1>c, TurnsTyped
      <4>6. Mult(thr_ready', {t}) \in Nat /\ Mult(thr_sleep', EntriesOf(t)) \in Nat
        BY TurnsTypedNext DEF StackOK
      <4>7. (OnCpu(t) <=> t = c) /\ (OnCpu(t)' <=> Head(thr_ready) = t)
        BY <1>1, <3>6 DEF OnCpu
      <4>8. Mult(thr_ready, {t}) = Mult(thr_ready', {t}) + IF Head(thr_ready) = t THEN 1 ELSE 0
        BY <3>6, <4>2
      <4>9. Mult(thr_sleep', EntriesOf(t)) <= Mult(thr_sleep, EntriesOf(t)) + IF t = c THEN 1 ELSE 0
        BY <3>3, <4>3, <4>4, <4>5
      <4> QED  BY <1>4, <4>5, <4>6, <4>7, <4>8, <4>9 DEF Turns
    <3> QED  BY <3>6, <3>7
  <2> QED  BY <2>1, <2>2 DEF SleepCall, Sleep
<1>6. WaitersInside' /\ Counted' /\ OneTurn'
  BY <1>1, <1>4, <1>5, TurnsKept DEF LockPlaces
<1>7. BootQuiet'
  BY <1>5 DEF BootQuiet
<1> QED  BY <1>4, <1>6, <1>7 DEF LockOK

(* Booting: a thread that is created gets its first turn. *)
LEMMA BootLock ==
    ASSUME LockOK, IsFiniteSet(Threads), StackOK', Boot
    PROVE  LockOK'
<1>c. StackOK /\ QueuesTyped /\ CtxTyped
  BY DEF LockOK, StackOK
<1>1. /\ mode = "boot" /\ mode' \in {"boot", "run", "panic"}
      /\ thr_threads \subseteq thr_threads'
      /\ UNCHANGED <<thr_current, thr_sleep, count, wait_list, cpu, kctx>>
  BY DEF Boot, NewThread, EnableInterrupts, lists
<1>2. cpu.pc \notin LockPlaces
  BY <1>1 DEF LockOK, FramesLeft
<1>3. /\ thr_current \in thr_threads /\ thr_sleep = <<>>
      /\ \A t \in Threads : PcOf(t) \in {"idle", "used"}
      /\ \A s \in Sems : wait_list[s] = <<>>
  BY <1>1 DEF LockOK, BootQuiet
<1>4. \A t \in Threads : /\ PcOf(t)' = PcOf(t) /\ SemOf(t)' = SemOf(t)
                         /\ Hold(t)' = Hold(t)
  BY <1>1 DEF PcOf, SemOf, Hold, NxtOf
<1>5. /\ WaitersInside' /\ Counted'
      /\ \A t \in Threads : Waiting(t)' = Waiting(t)
  BY <1>1, <1>2, <1>4, ContextsKept DEF LockPlaces
<1>6. \A t \in Threads : ~Waiting(t)
  BY <1>3 DEF Waiting, Waiters, Items
<1>7. OneTurn'
  <2>1. CASE thr_ready' = thr_ready
    <3>1. \A t \in Threads : OnCpu(t)' => OnCpu(t)
      BY <1>1 DEF OnCpu
    <3>2. ASSUME NEW t \in Threads PROVE Turns(t)' <= Turns(t)
      <4>1. /\ Mult(thr_ready, {t}) \in Nat /\ Mult(thr_sleep, EntriesOf(t)) \in Nat
            /\ Cardinality(Hold(t)) \in Nat /\ Turns(t) \in Nat
        BY <1>c, TurnsTyped
      <4> QED  BY <1>1, <1>4, <2>1, <3>1, <4>1 DEF Turns
    <3> QED  BY <1>1, <1>2, <1>4, <3>2, TurnsKept DEF LockPlaces
  <2>2. ASSUME NEW n \in Threads, n \notin thr_threads \cup Items(thr_ready),
               thr_ready' = OlistAdd(thr_ready, n, ByPriority), mode' = mode
        PROVE  OneTurn'
    <3> SUFFICES ASSUME NEW t \in Threads
                 PROVE  Turns(t)' + (IF Waiting(t)' THEN 1 ELSE 0)
                        <= 1 + (IF PcOf(t)' \in Leaving THEN 1 ELSE 0)
      BY DEF OneTurn
    <3>1. thr_ready \in Seq(Threads) /\ ByPriority \in [Threads -> Int]
      BY <1>c, KeyTypes DEF QueuesTyped
    <3>2. Mult(OlistAdd(thr_ready, n, ByPriority), {t})
          = Mult(thr_ready, {t}) + IF n \in {t} THEN 1 ELSE 0
      BY <3>1, MultOlistAdd
    <3>3. /\ Mult(thr_ready, {t}) \in Nat /\ Mult(thr_sleep, EntriesOf(t)) \in Nat
          /\ Cardinality(Hold(t)) \in Nat /\ Turns(t) \in Nat
      BY <1>c, TurnsTyped
    <3>4. OnCpu(t)' <=> OnCpu(t)
      BY <1>1, <2>2 DEF OnCpu
    <3>5. Turns(t)' = Turns(t) + IF t = n THEN 1 ELSE 0
      BY <1>1, <1>4, <2>2, <3>2, <3>3, <3>4 DEF Turns
    <3>6. CASE t # n
      <4>1. Turns(t) + (IF Waiting(t) THEN 1 ELSE 0) <= 1 + (IF PcOf(t) \in Leaving THEN 1 ELSE 0)
        BY DEF LockOK, OneTurn
      <4> QED  BY <1>4, <1>5, <3>3, <3>5, <3>6, <4>1
    <3>7. CASE t = n
      <4>1. \A i \in 1 .. Len(thr_ready) : thr_ready[i] \notin {t}
        BY <2>2, <3>7 DEF Items
      <4>2. \A i \in 1 .. Len(thr_sleep) : thr_sleep[i] \notin EntriesOf(t)
        BY <1>3
      <4>3. Mult(thr_ready, {t}) = 0 /\ Mult(thr_sleep, EntriesOf(t)) = 0
        BY <1>c, <4>1, <4>2, MultType DEF QueuesTyped
      <4>4. Hold(t) = {} /\ Cardinality({}) = 0
        BY <1>3, FS_EmptySet DEF Hold, HoldPcs
      <4>5. ~OnCpu(t)
        BY <1>3, <2>2, <3>7 DEF OnCpu
      <4>6. Turns(t) = 0
        BY <4>3, <4>4, <4>5 DEF Turns
      <4>7. ~Waiting(t)' /\ Turns(t)' = 1
        BY <1>5, <1>6, <3>5, <3>7, <4>6
      <4> QED  BY <4>7
    <3> QED  BY <3>6, <3>7
  <2> QED  BY <2>1, <2>2 DEF Boot, NewThread, EnableInterrupts, lists
<1>8. FramesLeft' /\ BootQuiet'
  BY <1>1, <1>2, <1>3, <1>4 DEF LockOK, FramesLeft, BootQuiet, LockPlaces
<1> QED  BY <1>5, <1>7, <1>8 DEF LockOK

(* LockInv holds at boot. *)
LEMMA InitLockInv ==
    ASSUME IsFiniteSet(Threads), PInit
    PROVE  LockInv
<1>1. PICK z \in Sems :
         /\ cpu = [thr |-> Main, pc |-> "idle", sem |-> z, nxt |-> NULL]
         /\ kctx = [t \in Threads |->
                      [cpu EXCEPT !.thr = t, !.pc = IF t = Main THEN "used" ELSE "idle"]]
  BY DEF PInit
<1>2. /\ mode = "boot" /\ thr_current = Main /\ thr_threads = {Null, Main}
      /\ thr_ready = <<Null>> /\ thr_sleep = <<>>
      /\ count = InitCount /\ wait_list = [q \in Sems |-> <<>>]
  BY DEF PInit, Init
<1>3. StackOK
  BY InitStackInv DEF PInit, StackInv, Uncut, StackOK
<1>4. cpu.thr = Main /\ cpu.pc = "idle"
  BY <1>1
<1>5. \A t \in Threads : kctx[t].pc \in {"idle", "used"}
  BY <1>1
<1>6. \A t \in Threads : PcOf(t) \in {"idle", "used"}
  BY <1>4, <1>5 DEF PcOf
<1>7. FramesLeft /\ BootQuiet
  BY <1>2, <1>4, <1>5, <1>6 DEF FramesLeft, BootQuiet, LockPlaces
<1>8. WaitersInside /\ \A t \in Threads : ~Waiting(t)
  BY <1>2 DEF WaitersInside, Waiting, Waiters, Items, NoDuplicates
<1>9. OneTurn
  <2> SUFFICES ASSUME NEW t \in Threads
               PROVE  Turns(t) + (IF Waiting(t) THEN 1 ELSE 0)
                      <= 1 + (IF PcOf(t) \in Leaving THEN 1 ELSE 0)
    BY DEF OneTurn
  <2>1. Hold(t) = {} /\ Cardinality({}) = 0
    BY <1>6, FS_EmptySet DEF Hold, HoldPcs
  <2>2. \A i \in 1 .. Len(thr_sleep) : thr_sleep[i] \notin EntriesOf(t)
    BY <1>2
  <2>3. thr_ready \in Seq(Threads) /\ thr_sleep \in Seq(SleepEntry)
    BY <1>3 DEF StackOK, QueuesTyped
  <2>4. Mult(thr_sleep, EntriesOf(t)) = 0
    BY <2>2, <2>3, MultType
  <2>5. Mult(thr_ready, {t}) = IF t = Null THEN 1 ELSE 0
    <3>1. Places(thr_ready, {t}) = IF t = Null THEN {1} ELSE {}
      BY <1>2 DEF Places
    <3>2. Cardinality({1}) = 1
      BY FS_Singleton
    <3> QED  BY <2>1, <3>1, <3>2 DEF Mult
  <2>6. OnCpu(t) => t # Null
    BY <1>2, ThreadsAssumption DEF OnCpu
  <2>7. Turns(t) = 0 \/ Turns(t) = 1
    BY <2>1, <2>4, <2>5, <2>6 DEF Turns
  <2> QED  BY <1>8, <2>7
<1>10. Counted
  <2>1. \A s \in Sems : Holders(s) = {}
    BY <1>6 DEF Holders, LetIn, InBlock
  <2>2. count \in [Sems -> Nat] /\ \A s \in Sems : count[s] = InitCount[s] /\ InitCount[s] \in Nat
    BY <1>2, SemsAssumption
  <2>3. Cardinality({}) = 0
    BY FS_EmptySet
  <2>4. \A s \in Sems : count[s] + Cardinality(Holders(s)) <= InitCount[s]
    BY <2>1, <2>2, <2>3
  <2>5. cpu.pc # "dec"
    BY <1>4
  <2> QED  BY <2>2, <2>4, <2>5 DEF Counted
<1> QED  BY <1>3, <1>7, <1>8, <1>9, <1>10 DEF LockInv, LockOK

(* Every step keeps it, wherever else interrupts come. *)
LEMMA NextLockInv ==
    ASSUME IsFiniteSet(Threads), LockInv, [PNext]_pvars
    PROVE  LockInv'
<1> SUFFICES ASSUME Uncut(LockPlaces)' PROVE LockOK'
  BY DEF LockInv
<1>1. cuts \subseteq cuts' /\ cuts' \cap LockPlaces = {}
  BY CutsGrow DEF Uncut
<1>2. LockOK
  BY <1>1 DEF LockInv, Uncut
<1>3. StackOK'
  <2>1. StackInv
    BY <1>2 DEF LockOK, StackOK, StackInv
  <2>2. StackInv'
    BY <2>1, NextStackInv
  <2> QED  BY <1>1, <2>2 DEF StackInv, StackOK, Uncut, LockPlaces
<1>4. CASE Boot
  BY <1>2, <1>3, <1>4, BootLock
<1>5. CASE Irq
  BY <1>2, <1>3, <1>5, IrqEnterLock, IrqWakeLock, IrqExitLock DEF Irq
<1>6. ASSUME NEW a \in SleepArgs, SleepCall(a[1], a[2]) PROVE LockOK'
  BY <1>2, <1>3, <1>6, SleepCallLock
<1>7. ASSUME NEW s \in Sems, WaitCall(s) PROVE LockOK'
  BY <1>2, <1>3, <1>7, WaitCallLock
<1>8. CASE Wait
  BY <1>2, <1>3, <1>8, PlainLockSteps, WaitDecLock, WaitQueueLock, WaitPickLock, WaitSaveLock,
     WaitCurrLock, WaitRunLock DEF Wait
<1>9. CASE Release
  BY <1>2, <1>3, <1>9, PlainLockSteps, ReleasePopLock, ReleaseAddLock, ReleaseIncLock DEF Release
<1>10. CASE UNCHANGED pvars
  <2>1. UNCHANGED <<mode, thr_threads, thr_current, thr_ready, thr_sleep, count, wait_list, cpu, kctx>>
    BY <1>10 DEF pvars, vars, lists
  <2>2. \A t \in Threads : /\ PcOf(t)' = PcOf(t) /\ SemOf(t)' = SemOf(t)
                           /\ Hold(t)' = Hold(t)
    BY <2>1 DEF PcOf, SemOf, Hold, NxtOf
  <2>3. \A s \in Sems : Waiters(s)' = Waiters(s) /\ Holders(s)' = Holders(s)
    BY <2>1, <2>2, WaitersSame DEF Holders
  <2>4. \A t \in Threads : Turns(t)' = Turns(t) /\ Waiting(t)' = Waiting(t)
    BY <2>1, <2>2, <2>3 DEF Turns, OnCpu, Waiting
  <2>5. OneTurn'
    BY <1>2, <2>2, <2>4 DEF LockOK, OneTurn
  <2>6. WaitersInside'
    <3>1. ASSUME NEW s \in Sems, NEW t \in Waiters(s)
          PROVE  SemOf(t)' = s /\ PcOf(t)' \in InBlock \cup {"ret"}
      <4>1. SemOf(t) = s /\ PcOf(t) \in InBlock \cup {"ret"} /\ t \in Threads
        BY <1>2 DEF LockOK, StackOK, QueuesTyped, WaitersInside, Waiters, Items
      <4> QED  BY <2>2, <4>1
    <3>2. \A s \in Sems : NoDuplicates(wait_list'[s])
      BY <1>2, <2>1 DEF LockOK, WaitersInside
    <3> QED  BY <2>3, <3>1, <3>2 DEF WaitersInside
  <2>7. Counted'
    BY <1>2, <2>1, <2>3 DEF LockOK, Counted
  <2>8. FramesLeft' /\ BootQuiet'
    BY <1>2, <2>1, <2>2 DEF LockOK, FramesLeft, BootQuiet
  <2> QED  BY <1>3, <2>5, <2>6, <2>7, <2>8 DEF LockOK
<1> QED  BY <1>4, <1>5, <1>6, <1>7, <1>8, <1>9, <1>10 DEF PNext

(* LockInv holds in every state. *)
LEMMA LockInvAlways ==
    ASSUME IsFiniteSet(Threads) PROVE PSpec => []LockInv
<1>1. PInit => LockInv
  BY InitLockInv
<1>2. LockInv /\ [PNext]_pvars => LockInv'
  BY NextLockInv
<1> QED  BY <1>1, <1>2, PTL DEF PSpec

(* A semaphore made for n lets in n threads at a time at most.              *)
AtMostInitCount ==
    \A s \in Sems : IsFiniteSet(Inside(s)) /\ Cardinality(Inside(s)) <= InitCount[s]

(* sem_wait: as long as no interrupt comes between the test of the count    *)
(* and the decrement, nor inside thr_switch, no more threads are past       *)
(* sem_wait than sem_new was told, whatever the threads and semaphores are  *)
(* and wherever else the interrupts come.                                   *)
THEOREM AtMostInitCountAlways ==
    ASSUME IsFiniteSet(Threads)
    PROVE  PSpec => [](Uncut(LockPlaces) => AtMostInitCount)
<1>1. LockInv => (Uncut(LockPlaces) => AtMostInitCount)
  <2> SUFFICES ASSUME LockOK, NEW s \in Sems
               PROVE  IsFiniteSet(Inside(s)) /\ Cardinality(Inside(s)) <= InitCount[s]
    BY DEF LockInv, AtMostInitCount
  <2>1. Inside(s) \subseteq Holders(s)
    BY DEF Inside, Holders, SemOf, LetIn
  <2>2. IsFiniteSet(Holders(s)) /\ Cardinality(Holders(s)) \in Nat
    BY HoldersFinite
  <2>3. IsFiniteSet(Inside(s)) /\ Cardinality(Inside(s)) <= Cardinality(Holders(s))
        /\ Cardinality(Inside(s)) \in Nat
    BY <2>1, <2>2, FS_Subset, FS_CardinalityType
  <2>4. count[s] \in Nat /\ InitCount[s] \in Nat /\ count[s] + Cardinality(Holders(s)) <= InitCount[s]
    BY SemsAssumption DEF LockOK, Counted
  <2> QED  BY <2>2, <2>3, <2>4
<1> QED  BY <1>1, LockInvAlways, PTL

(* ata.c: "Create the device's semaphore lock."  A semaphore made with      *)
(* sem_new(1) lets in one thread at a time under the same condition: the    *)
(* interrupt that breaks the lock comes between sem.c:30 and sem.c:31.      *)
THEOREM LockHoldsAlways ==
    ASSUME IsFiniteSet(Threads)
    PROVE  PSpec => []LockHolds
<1>1. (Uncut(LockPlaces) => AtMostInitCount) => LockHolds
  <2> SUFFICES ASSUME AtMostInitCount, NEW s \in Sems, NEW t \in Inside(s), NEW u \in Inside(s),
                      InitCount[s] = 1, t # u
               PROVE  FALSE
    BY DEF LockHolds, LockPlaces, MutualExclusion
  <2>1. IsFiniteSet({t}) /\ Cardinality({t}) = 1
    BY FS_Singleton
  <2>2. IsFiniteSet({t} \cup {u}) /\ Cardinality({t} \cup {u}) = 2
    <3>1. u \notin {t}
      OBVIOUS
    <3>2. /\ IsFiniteSet({t} \cup {u})
          /\ Cardinality({t} \cup {u}) = IF u \in {t} THEN Cardinality({t}) ELSE Cardinality({t}) + 1
      BY <2>1, FS_AddElement
    <3> QED  BY <2>1, <3>1, <3>2
  <2>3. {t} \cup {u} \subseteq Inside(s)
    OBVIOUS
  <2>4. IsFiniteSet(Inside(s)) /\ Cardinality(Inside(s)) <= 1 /\ Cardinality(Inside(s)) \in Nat
    BY FS_CardinalityType DEF AtMostInitCount
  <2>5. Cardinality({t} \cup {u}) <= Cardinality(Inside(s))
    BY <2>3, <2>4, FS_Subset
  <2> QED  BY <2>2, <2>4, <2>5
<1> QED  BY <1>1, AtMostInitCountAlways, PTL
-----------------------------------------------------------------------------
(* Memory lasts, there are finitely many threads, and MaxCount, which is    *)
(* the model's and not the code's, lies above the semaphores' counts.       *)
PlainCase ==
    /\ MemoryLasts
    /\ IsFiniteSet(Threads)
    /\ MaxCount \in Nat /\ \A s \in Sems : InitCount[s] <= MaxCount

(* The invariants of module Sched, for the scheduler these steps implement. *)
AtomicP == INSTANCE SchedProofs WITH
    thr_current <- AbsCurrent, thr_ready <- AbsReady, state <- AbsState

(* Outside a call, or at its first or last instruction.                     *)
Quiet == {"idle", "crit", "ret", "test", "rtest"}

(* While no interrupt has come inside a call, every thread but the running  *)
(* one is put aside in its own code, at the edge of a call or inside        *)
(* resched_no_int.                                                          *)
SavedRight ==
    /\ \A t \in Threads : kctx[t].thr = t /\ kctx[t].pc \in Quiet \cup {"used"}
    /\ \A t \in Threads :
          kctx[t].pc = "used" <=> t = cpu.thr /\ cpu.pc \notin {"curr", "run"}
    /\ kctx[Null].pc \in {"idle", "used"}

(* What holds at each step of a semaphore call. *)
AtPc ==
    /\ thr_current = IF cpu.pc = "run" THEN cpu.nxt ELSE cpu.thr
    /\ mode # "run" => cpu.pc \in Quiet
    /\ cpu.pc # "used"
    /\ cpu.thr = Null => cpu.pc = "idle"
    /\ cpu.pc = "dec" => count[cpu.sem] > 0
    /\ cpu.pc = "queue" => ~(count[cpu.sem] > 0)
    /\ cpu.pc \in InBlock => cpu.thr \in Waiters(cpu.sem)
    /\ cpu.pc \in {"mark", "pick"} => thr_ready # <<>>
    /\ cpu.pc \in {"curr", "run"} => kctx[cpu.thr].pc = "ret" /\ kctx[cpu.thr].sem = cpu.sem
    /\ cpu.pc = "rpop" => wait_list[cpu.sem] # <<>>
    /\ cpu.pc = "rinc" => wait_list[cpu.sem] = <<>>
    /\ cpu.pc \in {"radd", "rmark"} => cpu.nxt \in Threads

(* A thread on a wait list is still inside the sem_wait that put it there.  *)
WaitersWait ==
    \A s \in Sems : \A t \in Waiters(s) :
        SemOf(t) = s /\ PcOf(t) \in IF cpu.thr = t THEN InBlock ELSE {"ret"}

CtxControl == CtxTyped /\ SavedRight /\ AtPc /\ WaitersWait

PInv == MemoryLasts /\ TypeInv /\ AtomicP!TypeInv /\ AtomicP!Placement /\ CtxControl

-----------------------------------------------------------------------------
(* The two instances of Sched, Atomic and the one AtomicP extends, are one. *)
LEMMA SameAtomic ==
    /\ Atomic!Init <=> AtomicP!Init
    /\ [Atomic!Next]_(Atomic!vars) => [AtomicP!Next]_(AtomicP!vars)
BY DEF Atomic!Init, AtomicP!Init, Atomic!Next, AtomicP!Next, Atomic!OtherStep,
       AtomicP!OtherStep, Atomic!Timer, AtomicP!Timer, Atomic!Sleep, AtomicP!Sleep,
       Atomic!NewThread, AtomicP!NewThread, Atomic!EnableInterrupts, AtomicP!EnableInterrupts,
       Atomic!TimerEnter, AtomicP!TimerEnter, Atomic!WakeOne, AtomicP!WakeOne,
       Atomic!TimerExit, AtomicP!TimerExit, Atomic!SleepQueued, AtomicP!SleepQueued,
       Atomic!SleepPanics, AtomicP!SleepPanics, Atomic!SemTake, AtomicP!SemTake,
       Atomic!SemBlock, AtomicP!SemBlock, Atomic!SemHandOver, AtomicP!SemHandOver,
       Atomic!SemPost, AtomicP!SemPost, Atomic!Resched, AtomicP!Resched, Atomic!SleeperDue,
       AtomicP!SleeperDue, Atomic!TargTicks, AtomicP!TargTicks, Atomic!Ticks, AtomicP!Ticks,
       Atomic!UnitTicks, AtomicP!UnitTicks, Atomic!OlistAdd, AtomicP!OlistAdd, Atomic!OlistPos,
       AtomicP!OlistPos, Atomic!ByPriority, AtomicP!ByPriority, Atomic!ByTime, AtomicP!ByTime,
       Atomic!SleepEntry, AtomicP!SleepEntry, Atomic!Items, AtomicP!Items, Atomic!vars,
       AtomicP!vars, Atomic!lists, AtomicP!lists

(* The constant operators and the lists the instances share with Sched.    *)
LEMMA SameOperators ==
    /\ \A q, x, key : Atomic!OlistAdd(q, x, key) = OlistAdd(q, x, key)
    /\ Atomic!ByPriority = ByPriority /\ Atomic!ByTime = ByTime
    /\ \A q : Atomic!Items(q) = Items(q)
    /\ \A no, units : Atomic!TargTicks(no, units) = TargTicks(no, units)
    /\ Atomic!SleeperDue = SleeperDue
BY DEF Atomic!OlistAdd, OlistAdd, Atomic!OlistPos, OlistPos, Atomic!ByPriority, ByPriority,
       Atomic!ByTime, ByTime, Atomic!SleepEntry, SleepEntry, Atomic!Ticks, Ticks,
       Atomic!Items, Items, Atomic!TargTicks, TargTicks, Atomic!UnitTicks, UnitTicks,
       Atomic!SleeperDue, SleeperDue

(* The operators that say where a thread is mean the same on both levels. *)
LEMMA SamePlaces ==
    /\ \A q : AtomicP!Items(q) = Items(q)
    /\ \A q : AtomicP!NoDuplicates(q) = NoDuplicates(q)
    /\ AtomicP!Sleepers = Sleepers /\ AtomicP!Blocked = Blocked
    /\ \A s \in Sems : AtomicP!Waiters(s) = Waiters(s)
BY DEF AtomicP!Items, Items, AtomicP!NoDuplicates, NoDuplicates, AtomicP!Sleepers, Sleepers,
       AtomicP!EntryThreads, EntryThreads, AtomicP!Waiters, Waiters, AtomicP!Blocked, Blocked

(* Where threads are for the scheduler that is implemented.                *)
LEMMA AbsPlaces ==
    ASSUME MemoryLasts, AtomicP!TypeInv, AtomicP!Placement
    PROVE  /\ mode # "crash"
           /\ AbsCurrent \in Threads
           /\ AbsCurrent \notin Blocked
           /\ Items(AbsReady) \cap Blocked = {}
           /\ mode \notin {"irq", "panic"} => AbsCurrent \notin Items(AbsReady)
           /\ Null \in Items(AbsReady) \cup {AbsCurrent}
           /\ mode = "irq" => AbsCurrent \in Items(AbsReady)
           /\ \A s \in Sems : NoDuplicates(wait_list[s])
           /\ \A r, s \in Sems : r # s => Waiters(r) \cap Waiters(s) = {}
<1>1. FALSE \notin Alloc
  BY DEF MemoryLasts
<1>2. mode # "crash" /\ AbsCurrent \in Threads
  BY <1>1 DEF AtomicP!TypeInv, AtomicP!Placement, AtomicP!NoThreadLost
<1> QED
  BY <1>1, <1>2, SamePlaces
     DEF AtomicP!Placement, AtomicP!OnePlace, AtomicP!NoThreadLost, AtomicP!Requeued

(* Outside a semaphore call that blocks or hands over, the scheduler that   *)
(* is implemented is the one that is there.                                 *)
Plain == Quiet \cup {"dec", "queue", "rpop", "rinc"}

(* Outside resched the refinement mapping is the identity. *)
LEMMA PlainAbs ==
    cpu.pc \in Plain => AbsCurrent = thr_current /\ AbsReady = thr_ready /\ AbsState = state
BY DEF Plain, Quiet, AbsCurrent, AbsReady, AbsState

(* The same in the next state. *)
LEMMA PlainAbsNext ==
    cpu'.pc \in Plain =>
        AbsCurrent' = thr_current' /\ AbsReady' = thr_ready' /\ AbsState' = state'
BY DEF Plain, Quiet, AbsCurrent, AbsReady, AbsState

(* Then its steps are the steps of the implemented one.                    *)
LEMMA PlainSteps ==
    ASSUME AbsCurrent = thr_current, AbsReady = thr_ready, AbsState = state,
           AbsCurrent' = thr_current', AbsReady' = thr_ready', AbsState' = state'
    PROVE  /\ \A t \in Threads : NewThread(t) => Atomic!NewThread(t)
           /\ EnableInterrupts => Atomic!EnableInterrupts
           /\ TimerEnter => Atomic!TimerEnter
           /\ WakeOne => Atomic!WakeOne
           /\ TimerExit => Atomic!TimerExit
           /\ \A a \in SleepArgs : Sleep(a[1], a[2]) => Atomic!Sleep(a[1], a[2])
<1>1. ASSUME NEW t \in Threads, NewThread(t) PROVE Atomic!NewThread(t)
  BY <1>1, SameOperators DEF NewThread, Atomic!NewThread
<1>2. EnableInterrupts => Atomic!EnableInterrupts
  BY DEF EnableInterrupts, Atomic!EnableInterrupts, lists, Atomic!lists
<1>3. TimerEnter => Atomic!TimerEnter
  BY SameOperators DEF TimerEnter, Atomic!TimerEnter
<1>4. WakeOne => Atomic!WakeOne
  BY SameOperators DEF WakeOne, Atomic!WakeOne
<1>5. TimerExit => Atomic!TimerExit
  BY SameOperators DEF TimerExit, Atomic!TimerExit, Resched, Atomic!Resched
<1>6. ASSUME NEW a \in SleepArgs, Sleep(a[1], a[2]) PROVE Atomic!Sleep(a[1], a[2])
  BY <1>6, SameOperators
     DEF Sleep, SleepQueued, SleepPanics, Resched, lists,
         Atomic!Sleep, Atomic!SleepQueued, Atomic!SleepPanics, Atomic!Resched, Atomic!lists
<1> QED  BY <1>1, <1>2, <1>3, <1>4, <1>5, <1>6
-----------------------------------------------------------------------------
(* The implemented scheduler keeps its invariants. *)
LEMMA AbsNext ==
    AtomicP!TypeInv /\ AtomicP!Placement /\ [Atomic!Next]_(Atomic!vars)
    => AtomicP!TypeInv' /\ AtomicP!Placement'
BY SameAtomic, AtomicP!NextTypeInv, AtomicP!NextPlacement,
   ThreadsAssumption, PriorityAssumption, SemsAssumption, TimeAssumption, AllocAssumption

(* A step inside one call of one thread: what it may do to the pc without   *)
(* letting a thread in or a waiter go.                                      *)
LEMMA LocalStep ==
    ASSUME PInv, CtxTyped', SavedRight', wait_list' = wait_list, count' = count,
           \A t \in Threads : t # cpu.thr => kctx'[t] = kctx[t],
           cpu'.thr = cpu.thr,
           cpu'.sem = cpu.sem \/ cpu.pc = "idle",
           cpu.pc \in InBlock => cpu'.pc \in InBlock
    PROVE  WaitersWait'
<1>w. WaitersWait
  BY DEF PInv, CtxControl
<1>1. \A s \in Sems : Waiters(s)' = Waiters(s)
  BY WaitersSame
<1>2. \A t \in Threads : t # cpu.thr => SemOf(t)' = SemOf(t) /\ PcOf(t)' = PcOf(t)
  BY DEF SemOf, PcOf
<1>3. /\ SemOf(cpu.thr) = cpu.sem /\ PcOf(cpu.thr) = cpu.pc
      /\ SemOf(cpu.thr)' = cpu'.sem /\ PcOf(cpu.thr)' = cpu'.pc
  BY DEF SemOf, PcOf
<1>4. \A s \in Sems : Waiters(s) \subseteq Threads
  BY DEF PInv, TypeInv, TypeOK, Waiters, Items
<1>5. cpu.thr \in Threads
  BY DEF PInv, CtxControl, CtxTyped, Context
<1> SUFFICES ASSUME NEW s \in Sems, NEW t \in Waiters(s)
             PROVE  /\ SemOf(t)' = s
                    /\ PcOf(t)' \in IF cpu.thr = t THEN InBlock ELSE {"ret"}
  BY <1>1 DEF WaitersWait
<1>6. SemOf(t) = s /\ PcOf(t) \in IF cpu.thr = t THEN InBlock ELSE {"ret"}
  BY <1>w DEF WaitersWait
<1>7. CASE t = cpu.thr
  <2>1. cpu.pc \in InBlock /\ cpu.sem = s
    BY <1>3, <1>6, <1>7
  <2>2. cpu.pc # "idle"
    BY <2>1 DEF InBlock
  <2> QED  BY <1>3, <1>7, <2>1, <2>2
<1>8. CASE t # cpu.thr
  BY <1>2, <1>4, <1>6, <1>8
<1> QED  BY <1>7, <1>8

(* The running thread is not waiting, but where it is giving up the CPU.    *)
LEMMA NotWaiting ==
    ASSUME PInv, cpu.pc \notin InBlock, NEW s \in Sems
    PROVE  cpu.thr \notin Waiters(s)
BY DEF PInv, CtxControl, WaitersWait, PcOf

Goal == [Atomic!Next]_(Atomic!vars) /\ TypeInv' /\ CtxControl'

(* sem_wait, step by step: each maps to a step of Sched or a stutter and   *)
(* keeps TypeInv and CtxControl.                                              *)
LEMMA WaitTestStep == ASSUME PInv, WaitTest PROVE Goal
<1> USE DEF PInv, CtxControl
<1>1. /\ mode = "run" /\ cpu.pc = "test"
      /\ cpu' \in Context /\ cpu'.pc = IF count[cpu.sem] > 0 THEN "dec" ELSE "queue"
      /\ cpu'.thr = cpu.thr /\ cpu'.sem = cpu.sem
  BY GoFields DEF WaitTest, Pcs
<1>2. UNCHANGED <<vars, kctx>>
  BY DEF WaitTest
<1>3. UNCHANGED <<mode, time_ticks, thr_threads, thr_current, thr_ready, thr_sleep, state, count, wait_list>>
  BY <1>2 DEF vars, lists
<1>4. TypeInv'
  BY <1>3 DEF TypeInv, TypeOK
<1>5. CtxTyped' /\ SavedRight' /\ AtPc'
  BY <1>1, <1>2, <1>3 DEF CtxTyped, SavedRight, AtPc, Quiet, InBlock
<1>6. WaitersWait'
  BY <1>1, <1>2, <1>3, <1>5, LocalStep DEF InBlock
<1>7. UNCHANGED Atomic!vars
  BY <1>1, <1>3, PlainAbs, PlainAbsNext DEF Plain, Quiet, Atomic!vars, Atomic!lists
<1> QED  BY <1>4, <1>5, <1>6, <1>7 DEF Goal

LEMMA WaitCallStep == ASSUME PInv, NEW s \in Sems, WaitCall(s) PROVE Goal
<1> USE DEF PInv, CtxControl
<1>1. /\ mode = "run" /\ cpu.pc = "idle" /\ cpu.thr # Null
      /\ cpu' \in Context /\ cpu'.pc = "test" /\ cpu'.thr = cpu.thr
  BY DEF WaitCall, CtxTyped, Context, Pcs
<1>2. UNCHANGED <<vars, kctx>>
  BY DEF WaitCall
<1>3. UNCHANGED <<mode, time_ticks, thr_threads, thr_current, thr_ready, thr_sleep, state, count, wait_list>>
  BY <1>2 DEF vars, lists
<1>4. TypeInv'
  BY <1>3 DEF TypeInv, TypeOK
<1>5. CtxTyped' /\ SavedRight' /\ AtPc'
  BY <1>1, <1>2, <1>3 DEF CtxTyped, SavedRight, AtPc, Quiet, InBlock
<1>6. WaitersWait'
  BY <1>1, <1>2, <1>3, <1>5, LocalStep DEF InBlock
<1>7. UNCHANGED Atomic!vars
  BY <1>1, <1>3, PlainAbs, PlainAbsNext DEF Plain, Quiet, Atomic!vars, Atomic!lists
<1> QED  BY <1>4, <1>5, <1>6, <1>7 DEF Goal

LEMMA WaitMarkStep == ASSUME PInv, WaitMark PROVE Goal
<1> USE DEF PInv, CtxControl
<1>1. /\ mode = "run" /\ cpu.pc = "mark"
      /\ cpu' \in Context /\ cpu'.pc = "pick"
      /\ cpu'.thr = cpu.thr /\ cpu'.sem = cpu.sem
  BY GoFields DEF WaitMark, Pcs
<1>2. /\ state' = [state EXCEPT ![thr_current] = "SEM"] /\ kctx' = kctx
      /\ UNCHANGED <<mode, time_ticks, thr_threads, thr_current, thr_ready, thr_sleep, count, wait_list>>
  BY DEF WaitMark, lists
<1>3. thr_current = cpu.thr /\ thr_current \in Threads
  BY <1>1 DEF AtPc, TypeInv
<1>4. TypeInv'
  BY <1>2, <1>3 DEF TypeInv, TypeOK
<1>5. CtxTyped' /\ SavedRight' /\ AtPc'
  BY <1>1, <1>2, WaitersSame DEF CtxTyped, SavedRight, AtPc, Quiet, InBlock, Context
<1>6. WaitersWait'
  BY <1>1, <1>2, <1>5, LocalStep DEF InBlock
<1>7. UNCHANGED Atomic!vars
  BY <1>1, <1>2, <1>3 DEF AbsCurrent, AbsReady, AbsState, Atomic!vars, Atomic!lists
<1> QED  BY <1>4, <1>5, <1>6, <1>7 DEF Goal

LEMMA WaitPickStep == ASSUME PInv, WaitPick PROVE Goal
<1> USE DEF PInv, CtxControl
<1>1. /\ mode = "run" /\ cpu.pc = "pick" /\ thr_ready # <<>> /\ thr_ready \in Seq(Threads)
  BY DEF WaitPick, AtPc, TypeInv, TypeOK
<1>2. Head(thr_ready) \in Threads /\ Tail(thr_ready) \in Seq(Threads)
  BY <1>1, TailItems
<1>3. /\ cpu' = [cpu EXCEPT !.pc = "save", !.nxt = Head(thr_ready)] /\ thr_ready' = Tail(thr_ready)
      /\ UNCHANGED <<mode, time_ticks, thr_threads, thr_current, thr_sleep, state, count, wait_list, kctx>>
  BY <1>1 DEF WaitPick, DelFirst, Rest
<1>4. /\ cpu' \in Context /\ cpu'.pc = "save" /\ cpu'.nxt = Head(thr_ready)
      /\ cpu'.thr = cpu.thr /\ cpu'.sem = cpu.sem
  BY <1>2, <1>3 DEF CtxTyped, Context, Pcs
<1>5. TypeInv'
  BY <1>2, <1>3 DEF TypeInv, TypeOK
<1>6. CtxTyped' /\ SavedRight' /\ AtPc'
  BY <1>1, <1>3, <1>4, WaitersSame DEF CtxTyped, SavedRight, AtPc, Quiet, InBlock, Context
<1>7. WaitersWait'
  BY <1>1, <1>3, <1>4, <1>6, LocalStep DEF InBlock
<1>8. UNCHANGED Atomic!vars
  BY <1>1, <1>3, <1>4 DEF AbsCurrent, AbsReady, AbsState, Atomic!vars, Atomic!lists
<1> QED  BY <1>5, <1>6, <1>7, <1>8 DEF Goal

LEMMA WaitSaveStep == ASSUME PInv, WaitSave PROVE Goal
<1> USE DEF PInv, CtxControl
<1>1. /\ mode = "run" /\ cpu.pc = "save"
      /\ cpu' \in Context /\ cpu'.pc = "curr"
      /\ cpu'.thr = cpu.thr /\ cpu'.sem = cpu.sem /\ cpu'.nxt = cpu.nxt
  BY GoFields DEF WaitSave, Pcs
<1>2. UNCHANGED <<mode, time_ticks, thr_threads, thr_current, thr_ready, thr_sleep, state, count, wait_list>>
  BY DEF WaitSave, vars, lists
<1>3. thr_current = cpu.thr /\ cpu.thr \in Threads \ {Null}
  BY <1>1 DEF AtPc, CtxTyped, Context
<1> DEFINE k == [cpu EXCEPT !.pc = "ret", !.nxt = NULL]
<1>4. k \in Context /\ k.thr = cpu.thr /\ k.pc = "ret" /\ k.sem = cpu.sem
  BY DEF CtxTyped, Context, Pcs
<1>5. kctx' = [kctx EXCEPT ![cpu.thr] = k]
  BY <1>3 DEF WaitSave
<1> HIDE DEF k
<1>6. CtxTyped' /\ kctx'[cpu.thr] = k /\ \A t \in Threads : t # cpu.thr => kctx'[t] = kctx[t]
  BY <1>1, <1>3, <1>4, <1>5 DEF CtxTyped
<1>7. SavedRight'
  BY <1>1, <1>3, <1>4, <1>6, ThreadsAssumption DEF SavedRight, Quiet
<1>8. TypeInv'
  BY <1>2 DEF TypeInv, TypeOK
<1>9. AtPc'
  BY <1>1, <1>2, <1>3, <1>4, <1>6, WaitersSame DEF AtPc, Quiet, InBlock, CtxTyped, Context
<1>10. WaitersWait'
  BY <1>1, <1>2, <1>6, <1>7, LocalStep DEF InBlock
<1>11. UNCHANGED Atomic!vars
  BY <1>1, <1>2 DEF AbsCurrent, AbsReady, AbsState, Atomic!vars, Atomic!lists
<1> QED  BY <1>6, <1>7, <1>8, <1>9, <1>10, <1>11 DEF Goal

LEMMA WaitCurrStep == ASSUME PInv, WaitCurr PROVE Goal
<1> USE DEF PInv, CtxControl
<1>1. /\ mode = "run" /\ cpu.pc = "curr"
      /\ cpu' \in Context /\ cpu'.pc = "run"
      /\ cpu'.thr = cpu.thr /\ cpu'.sem = cpu.sem /\ cpu'.nxt = cpu.nxt
  BY GoFields DEF WaitCurr, Pcs
<1>2. /\ thr_current' = cpu.nxt
      /\ UNCHANGED <<mode, time_ticks, thr_threads, thr_ready, thr_sleep, state, count, wait_list, kctx>>
  BY DEF WaitCurr, lists
<1>3. cpu.nxt \in Threads
  BY <1>1, AbsPlaces DEF AbsCurrent
<1>4. TypeInv'
  BY <1>2, <1>3 DEF TypeInv, TypeOK
<1>5. CtxTyped' /\ SavedRight' /\ AtPc'
  BY <1>1, <1>2, WaitersSame DEF CtxTyped, SavedRight, AtPc, Quiet, InBlock, Context
<1>6. WaitersWait'
  BY <1>1, <1>2, <1>5, LocalStep DEF InBlock
<1>7. UNCHANGED Atomic!vars
  BY <1>1, <1>2 DEF AbsCurrent, AbsReady, AbsState, Atomic!vars, Atomic!lists
<1> QED  BY <1>4, <1>5, <1>6, <1>7 DEF Goal

LEMMA WaitReturnStep == ASSUME PInv, WaitReturn PROVE Goal
<1> USE DEF PInv, CtxControl
<1>1. /\ mode = "run" /\ cpu.pc = "ret"
      /\ cpu' \in Context /\ cpu'.pc = "crit"
      /\ cpu'.thr = cpu.thr /\ cpu'.sem = cpu.sem
  BY GoFields DEF WaitReturn, Pcs
<1>2. UNCHANGED <<mode, time_ticks, thr_threads, thr_current, thr_ready, thr_sleep, state, count, wait_list, kctx>>
  BY DEF WaitReturn, vars, lists
<1>3. TypeInv'
  BY <1>2 DEF TypeInv, TypeOK
<1>4. CtxTyped' /\ SavedRight' /\ AtPc'
  BY <1>1, <1>2 DEF CtxTyped, SavedRight, AtPc, Quiet, InBlock
<1>5. WaitersWait'
  BY <1>1, <1>2, <1>4, LocalStep DEF InBlock
<1>6. UNCHANGED Atomic!vars
  BY <1>1, <1>2, PlainAbs, PlainAbsNext DEF Plain, Quiet, Atomic!vars, Atomic!lists
<1> QED  BY <1>3, <1>4, <1>5, <1>6 DEF Goal

(* sem_release, step by step. *)
LEMMA ReleaseCallStep == ASSUME PInv, ReleaseCall PROVE Goal
<1> USE DEF PInv, CtxControl
<1>1. /\ mode = "run" /\ cpu.pc = "crit"
      /\ cpu' \in Context /\ cpu'.pc = "rtest"
      /\ cpu'.thr = cpu.thr /\ cpu'.sem = cpu.sem
  BY GoFields DEF ReleaseCall, Pcs
<1>2. UNCHANGED <<mode, time_ticks, thr_threads, thr_current, thr_ready, thr_sleep, state, count, wait_list, kctx>>
  BY DEF ReleaseCall, vars, lists
<1>3. TypeInv'
  BY <1>2 DEF TypeInv, TypeOK
<1>4. CtxTyped' /\ SavedRight' /\ AtPc'
  BY <1>1, <1>2 DEF CtxTyped, SavedRight, AtPc, Quiet, InBlock
<1>5. WaitersWait'
  BY <1>1, <1>2, <1>4, LocalStep DEF InBlock
<1>6. UNCHANGED Atomic!vars
  BY <1>1, <1>2, PlainAbs, PlainAbsNext DEF Plain, Quiet, Atomic!vars, Atomic!lists
<1> QED  BY <1>3, <1>4, <1>5, <1>6 DEF Goal

LEMMA ReleaseTestStep == ASSUME PInv, ReleaseTest PROVE Goal
<1> USE DEF PInv, CtxControl
<1>1. /\ mode = "run" /\ cpu.pc = "rtest"
      /\ cpu' \in Context /\ cpu'.pc = IF wait_list[cpu.sem] # <<>> THEN "rpop" ELSE "rinc"
      /\ cpu'.thr = cpu.thr /\ cpu'.sem = cpu.sem
  BY GoFields DEF ReleaseTest, Pcs
<1>2. UNCHANGED <<mode, time_ticks, thr_threads, thr_current, thr_ready, thr_sleep, state, count, wait_list, kctx>>
  BY DEF ReleaseTest, vars, lists
<1>3. TypeInv'
  BY <1>2 DEF TypeInv, TypeOK
<1>4. CtxTyped' /\ SavedRight' /\ AtPc'
  BY <1>1, <1>2 DEF CtxTyped, SavedRight, AtPc, Quiet, InBlock
<1>5. WaitersWait'
  BY <1>1, <1>2, <1>4, LocalStep DEF InBlock
<1>6. UNCHANGED Atomic!vars
  BY <1>1, <1>2, PlainAbs, PlainAbsNext DEF Plain, Quiet, Atomic!vars, Atomic!lists
<1> QED  BY <1>3, <1>4, <1>5, <1>6 DEF Goal

LEMMA ReleaseAddStep == ASSUME PInv, ReleaseAdd PROVE Goal
<1> USE DEF PInv, CtxControl
<1>1. /\ mode = "run" /\ cpu.pc = "radd"
      /\ cpu' \in Context /\ cpu'.pc = "rmark"
      /\ cpu'.thr = cpu.thr /\ cpu'.sem = cpu.sem /\ cpu'.nxt = cpu.nxt
  BY GoFields DEF ReleaseAdd, Pcs
<1>2. /\ thr_ready' = OlistAdd(thr_ready, cpu.nxt, ByPriority)
      /\ UNCHANGED <<mode, time_ticks, thr_threads, thr_current, thr_sleep, state, count, wait_list, kctx>>
  BY DEF ReleaseAdd
<1>3. thr_ready' \in Seq(Threads)
  BY <1>1, <1>2, ReadyAdd DEF AtPc, TypeInv, TypeOK
<1>4. TypeInv'
  BY <1>2, <1>3 DEF TypeInv, TypeOK
<1>5. CtxTyped' /\ SavedRight' /\ AtPc'
  BY <1>1, <1>2 DEF CtxTyped, SavedRight, AtPc, Quiet, InBlock
<1>6. WaitersWait'
  BY <1>1, <1>2, <1>5, LocalStep DEF InBlock
<1>7. UNCHANGED Atomic!vars
  BY <1>1, <1>2 DEF AbsCurrent, AbsReady, AbsState, Atomic!vars, Atomic!lists
<1> QED  BY <1>4, <1>5, <1>6, <1>7 DEF Goal

LEMMA ReleaseMarkStep == ASSUME PInv, ReleaseMark PROVE Goal
<1> USE DEF PInv, CtxControl
<1>1. /\ mode = "run" /\ cpu.pc = "rmark"
      /\ cpu' \in Context /\ cpu'.pc = "idle"
      /\ cpu'.thr = cpu.thr /\ cpu'.sem = cpu.sem
  BY DEF ReleaseMark, CtxTyped, Context, Pcs
<1>2. /\ state' = [state EXCEPT ![cpu.nxt] = "READY"]
      /\ UNCHANGED <<mode, time_ticks, thr_threads, thr_current, thr_ready, thr_sleep, count, wait_list, kctx>>
  BY DEF ReleaseMark, lists
<1>3. TypeInv'
  BY <1>1, <1>2 DEF TypeInv, TypeOK, AtPc
<1>4. CtxTyped' /\ SavedRight' /\ AtPc'
  BY <1>1, <1>2 DEF CtxTyped, SavedRight, AtPc, Quiet, InBlock
<1>5. WaitersWait'
  BY <1>1, <1>2, <1>4, LocalStep DEF InBlock
<1>6. UNCHANGED Atomic!vars
  BY <1>1, <1>2, PlainAbsNext
     DEF AbsCurrent, AbsReady, AbsState, Plain, Quiet, Atomic!vars, Atomic!lists
<1> QED  BY <1>3, <1>4, <1>5, <1>6 DEF Goal

-----------------------------------------------------------------------------
(* The steps at which the atomic semaphore operations take effect.         *)
LEMMA WaitersTyped ==
    ASSUME PInv, NEW s \in Sems
    PROVE  Waiters(s) \subseteq Threads /\ Waiters(s) \subseteq Blocked
<1>1. wait_list[s] \in Seq(Threads)
  BY DEF PInv, TypeInv, TypeOK
<1> QED  BY <1>1 DEF Waiters, Items, Blocked

(* The steps that change a count:                                          *)
(* sem_wait takes one,                                                     *)
LEMMA WaitDecStep == ASSUME PInv, PlainCase, WaitDec PROVE Goal
<1> USE DEF PInv, CtxControl
<1>0. PICK s \in Sems, t \in Threads : cpu.sem = s /\ cpu.thr = t
  BY DEF CtxTyped, Context
<1>1. /\ mode = "run" /\ cpu.pc = "dec"
      /\ cpu' \in Context /\ cpu'.pc = "crit"
      /\ cpu'.thr = t /\ cpu'.sem = s
  BY <1>0, GoFields DEF WaitDec, Pcs
<1>2. /\ count' = [count EXCEPT ![s] = @ - 1]
      /\ UNCHANGED <<mode, time_ticks, thr_threads, thr_current, thr_ready, thr_sleep, state, wait_list, kctx>>
  BY <1>0 DEF WaitDec, lists
<1>3. s \in Sems /\ t \in Threads /\ count \in [Sems -> Nat] /\ count[s] > 0
  BY <1>0, <1>1 DEF CtxTyped, Context, TypeInv, TypeOK, AtPc
<1>4. TypeInv'
  <2>1. count' \in [Sems -> Nat]
    BY <1>0, <1>2, <1>3
  <2> QED  BY <1>0, <1>2, <2>1 DEF TypeInv, TypeOK
<1>5. CtxTyped' /\ SavedRight' /\ AtPc'
  BY <1>0, <1>1, <1>2 DEF CtxTyped, SavedRight, AtPc, Quiet, InBlock
<1>6. \A u \in Threads : u # t => SemOf(u)' = SemOf(u) /\ PcOf(u)' = PcOf(u)
  BY <1>0, <1>1, <1>2 DEF SemOf, PcOf
<1>7. /\ SemOf(t) = s /\ PcOf(t) = "dec" /\ SemOf(t)' = s /\ PcOf(t)' = "crit"
      /\ \A q \in Sems : Waiters(q)' = Waiters(q) /\ t \notin Waiters(q)
  BY <1>0, <1>1, <1>2, NotWaiting, WaitersSame DEF SemOf, PcOf, InBlock
<1>8. WaitersWait'
  BY <1>0, <1>1, <1>6, <1>7, WaitersTyped DEF WaitersWait
<1>10. Atomic!SemTake(s)
  <2>1. thr_current # Null
    BY <1>0, <1>1 DEF AtPc
  <2> QED
    BY <1>0, <1>1, <1>2, <1>3, <2>1, PlainAbs, PlainAbsNext
       DEF Plain, Quiet, Atomic!SemTake, Atomic!lists
<1> QED  BY <1>0, <1>3, <1>4, <1>5, <1>8, <1>10 DEF Goal, Atomic!Next, Atomic!OtherStep

(* or queues the thread, *)
LEMMA WaitQueueStep == ASSUME PInv, WaitQueue PROVE Goal
<1> USE DEF PInv, CtxControl
<1>0. PICK s \in Sems, t \in Threads : cpu.sem = s /\ cpu.thr = t
  BY DEF CtxTyped, Context
<1>1. /\ mode = "run" /\ cpu.pc = "queue"
      /\ cpu' \in Context /\ cpu'.pc = "mark"
      /\ cpu'.thr = t /\ cpu'.sem = s
  BY <1>0, GoFields DEF WaitQueue, Pcs
<1>2. /\ wait_list' = [wait_list EXCEPT ![s] = Append(@, thr_current)]
      /\ UNCHANGED <<mode, time_ticks, thr_threads, thr_current, thr_ready, thr_sleep, state, count, kctx>>
  BY <1>0 DEF WaitQueue
<1>3. /\ s \in Sems /\ t \in Threads /\ t # Null /\ thr_current = t /\ ~(count[s] > 0)
      /\ wait_list \in [Sems -> Seq(Threads)]
  BY <1>0, <1>1 DEF CtxTyped, Context, TypeInv, TypeOK, AtPc
<1>4. /\ wait_list' \in [Sems -> Seq(Threads)]
      /\ Waiters(s)' = Waiters(s) \cup {t}
      /\ \A q \in Sems : q # s => Waiters(q)' = Waiters(q)
  BY <1>0, <1>2, <1>3, AppendItems DEF Waiters
<1>5. AbsCurrent = thr_current /\ AbsReady = thr_ready /\ AbsState = state
  BY <1>0, <1>1, PlainAbs DEF Plain, Quiet
<1>6. thr_ready # <<>>
  <2>1. Null \in Items(thr_ready)
    BY <1>0, <1>3, <1>5, AbsPlaces
  <2> QED  BY <1>0, <2>1 DEF Items
<1>7. TypeInv'
  BY <1>0, <1>2, <1>4 DEF TypeInv, TypeOK
<1>8. CtxTyped' /\ SavedRight' /\ AtPc'
  BY <1>0, <1>1, <1>2, <1>3, <1>4, <1>6 DEF CtxTyped, SavedRight, AtPc, Quiet, InBlock
<1>9. \A u \in Threads : u # t => SemOf(u)' = SemOf(u) /\ PcOf(u)' = PcOf(u)
  BY <1>0, <1>1, <1>2 DEF SemOf, PcOf
<1>10. /\ SemOf(t) = s /\ PcOf(t) = "queue" /\ SemOf(t)' = s /\ PcOf(t)' = "mark"
       /\ \A q \in Sems : t \notin Waiters(q)
  BY <1>0, <1>1, NotWaiting DEF SemOf, PcOf, InBlock
<1>11. WaitersWait'
  <2> SUFFICES ASSUME NEW q \in Sems, NEW u \in Waiters(q)'
               PROVE  SemOf(u)' = q /\ PcOf(u)' \in IF cpu'.thr = u THEN InBlock ELSE {"ret"}
    BY <1>0 DEF WaitersWait
  <2>1. CASE u = t
    <3>1. q = s
      BY <1>0, <1>4, <1>10, <2>1
    <3> QED  BY <1>0, <1>1, <1>10, <2>1, <3>1 DEF InBlock
  <2>2. CASE u # t
    <3>1. u \in Waiters(q) /\ u \in Threads
      BY <1>0, <1>4, <2>2, WaitersTyped
    <3> QED  BY <1>0, <1>1, <1>9, <2>2, <3>1 DEF WaitersWait
  <2> QED  BY <1>0, <2>1, <2>2
<1>13. Atomic!SemBlock(s)
  <2>1. AbsCurrent' = Head(thr_ready) /\ AbsReady' = Tail(thr_ready)
        /\ AbsState' = [state EXCEPT ![thr_current] = "SEM"]
    BY <1>0, <1>1, <1>2, <1>3 DEF AbsCurrent, AbsReady, AbsState
  <2>2. \E ok \in Alloc :
           wait_list' = [wait_list EXCEPT ![s] = IF ok THEN Append(@, AbsCurrent) ELSE @]
    BY <1>0, <1>2, <1>5, AllocAssumption
  <2>3. Atomic!Resched(AbsReady)
    BY <1>0, <1>1, <1>2, <1>5, <1>6, <2>1 DEF Atomic!Resched
  <2> QED  BY <1>0, <1>1, <1>2, <1>3, <1>5, <2>1, <2>2, <2>3 DEF Atomic!SemBlock
<1> QED  BY <1>0, <1>3, <1>7, <1>8, <1>11, <1>13 DEF Goal, Atomic!Next, Atomic!OtherStep

(* and sem_release gives one back, *)
LEMMA ReleaseIncStep ==
    ASSUME PInv, PlainCase, LockOK, ReleaseInc PROVE Goal
<1> USE DEF PInv, CtxControl
<1>0. PICK s \in Sems, t \in Threads : cpu.sem = s /\ cpu.thr = t
  BY DEF CtxTyped, Context
<1>1. /\ mode = "run" /\ cpu.pc = "rinc"
      /\ cpu' \in Context /\ cpu'.pc = "idle"
      /\ cpu'.thr = t /\ cpu'.sem = s
  BY <1>0, GoFields DEF ReleaseInc, Pcs
<1>2. /\ count' = [count EXCEPT ![s] = @ + 1]
      /\ UNCHANGED <<mode, time_ticks, thr_threads, thr_current, thr_ready, thr_sleep, state, wait_list, kctx>>
  BY <1>0 DEF ReleaseInc, lists
<1>3. s \in Sems /\ t \in Threads /\ count \in [Sems -> Nat] /\ wait_list[s] = <<>>
  BY <1>0, <1>1 DEF CtxTyped, Context, TypeInv, TypeOK, AtPc
<1>4. TypeInv'
  <2>1. count' \in [Sems -> Nat]
    BY <1>0, <1>2, <1>3
  <2> QED  BY <1>0, <1>2, <2>1 DEF TypeInv, TypeOK
<1>5. CtxTyped' /\ SavedRight' /\ AtPc'
  BY <1>0, <1>1, <1>2 DEF CtxTyped, SavedRight, AtPc, Quiet, InBlock
<1>6. \A u \in Threads : u # t => SemOf(u)' = SemOf(u) /\ PcOf(u)' = PcOf(u)
  BY <1>0, <1>1, <1>2 DEF SemOf, PcOf
<1>7. /\ SemOf(t) = s /\ PcOf(t) = "rinc" /\ SemOf(t)' = s /\ PcOf(t)' = "idle"
      /\ \A q \in Sems : Waiters(q)' = Waiters(q) /\ t \notin Waiters(q)
  BY <1>0, <1>1, <1>2, NotWaiting, WaitersSame DEF SemOf, PcOf, InBlock
<1>8. WaitersWait'
  BY <1>0, <1>1, <1>6, <1>7, WaitersTyped DEF WaitersWait
<1>9. t \in Holders(s)
  BY <1>0, <1>3, <1>7 DEF Holders, LetIn
<1>10. Cardinality(Holders(s)) \in Nat /\ Cardinality(Holders(s)) > 0
  <2>1. IsFiniteSet(Holders(s)) /\ Cardinality(Holders(s)) \in Nat
    BY <1>0, <1>3, HoldersFinite DEF PlainCase
  <2>2. Cardinality(Holders(s)) # 0
    BY <1>0, <1>9, <2>1, FS_EmptySet
  <2> QED  BY <1>0, <2>1, <2>2
<1>11. count[s] + Cardinality(Holders(s)) <= InitCount[s]
  BY <1>0, <1>3 DEF LockOK, Counted
<1>12. count[s] \in Nat /\ count'[s] = count[s] + 1 /\ InitCount[s] \in Nat
  BY <1>0, <1>2, <1>3, SemsAssumption
<1>14. Atomic!SemPost(s)
  <2>1. thr_current # Null
    BY <1>0, <1>1 DEF AtPc
  <2>2. count[s] < MaxCount
    <3>1. MaxCount \in Nat /\ InitCount[s] <= MaxCount
      BY <1>0, <1>3 DEF PlainCase
    <3> QED  BY <1>0, <1>10, <1>11, <1>12, <3>1
  <2> QED
    BY <1>0, <1>1, <1>2, <1>3, <2>1, <2>2, PlainAbs, PlainAbsNext
       DEF Plain, Quiet, Atomic!SemPost, Atomic!lists
<1> QED  BY <1>0, <1>3, <1>4, <1>5, <1>8, <1>14 DEF Goal, Atomic!Next, Atomic!OtherStep

(* or hands it to a waiter. *)
LEMMA ReleasePopStep == ASSUME PInv, PlainCase, ReleasePop PROVE Goal
<1> USE DEF PInv, CtxControl
<1>0. PICK s \in Sems, t \in Threads : cpu.sem = s /\ cpu.thr = t
  BY DEF CtxTyped, Context
<1>1. /\ mode = "run" /\ cpu.pc = "rpop" /\ wait_list[s] # <<>> /\ thr_current = t /\ t # Null
      /\ wait_list \in [Sems -> Seq(Threads)]
  BY <1>0 DEF ReleasePop, AtPc, TypeInv, TypeOK
<1>2. PICK w \in Threads : w = Head(wait_list[s])
  BY <1>1, TailItems
<1>3. /\ w \in Waiters(s)
      /\ wait_list' = [wait_list EXCEPT ![s] = Tail(@)]
      /\ wait_list' \in [Sems -> Seq(Threads)]
      /\ Waiters(s) = Waiters(s)' \cup {w} /\ w \notin Waiters(s)'
      /\ \A q \in Sems : q # s => Waiters(q)' = Waiters(q)
  <2>1. wait_list' = [wait_list EXCEPT ![s] = Tail(@)]
    BY <1>0, <1>1 DEF ReleasePop, Rest
  <2>2. NoDuplicates(wait_list[s])
    BY AbsPlaces
  <2> QED  BY <1>1, <1>2, <2>1, <2>2, TailItems, TailNoDuplicates DEF Waiters
<1>4. /\ cpu' = [cpu EXCEPT !.pc = "radd", !.nxt = w]
      /\ UNCHANGED <<mode, time_ticks, thr_threads, thr_current, thr_ready, thr_sleep, state, count, kctx>>
  BY <1>0, <1>1, <1>2 DEF ReleasePop, DelFirst
<1>5. /\ cpu' \in Context /\ cpu'.pc = "radd" /\ cpu'.nxt = w
      /\ cpu'.thr = t /\ cpu'.sem = s
  BY <1>0, <1>2, <1>4 DEF CtxTyped, Context, Pcs
<1>6. TypeInv'
  BY <1>3, <1>4 DEF TypeInv, TypeOK
<1>7. CtxTyped' /\ SavedRight' /\ AtPc'
  BY <1>0, <1>1, <1>2, <1>4, <1>5 DEF CtxTyped, SavedRight, AtPc, Quiet, InBlock
<1>8. \A u \in Threads : u # t => SemOf(u)' = SemOf(u) /\ PcOf(u)' = PcOf(u)
  BY <1>0, <1>4, <1>5 DEF SemOf, PcOf
<1>9. /\ SemOf(t) = s /\ PcOf(t) = "rpop" /\ SemOf(t)' = s /\ PcOf(t)' = "radd"
      /\ \A q \in Sems : t \notin Waiters(q)
  BY <1>0, <1>1, <1>5, NotWaiting DEF SemOf, PcOf, InBlock
<1>10. SemOf(w) = s /\ PcOf(w) = "ret" /\ w # t /\ \A q \in Sems : q # s => w \notin Waiters(q)
  BY <1>0, <1>3, <1>9, AbsPlaces DEF WaitersWait
<1>11. WaitersWait'
  <2> SUFFICES ASSUME NEW q \in Sems, NEW u \in Waiters(q)'
               PROVE  SemOf(u)' = q /\ PcOf(u)' \in IF cpu'.thr = u THEN InBlock ELSE {"ret"}
    BY DEF WaitersWait
  <2>1. u \in Waiters(q) /\ u \in Threads
    BY <1>3, WaitersTyped
  <2>2. u # t
    BY <1>9, <2>1
  <2> QED  BY <1>0, <1>5, <1>8, <2>1, <2>2 DEF WaitersWait
<1>13. Atomic!SemHandOver(s)
  <2>1. AbsCurrent = thr_current /\ AbsReady = thr_ready /\ AbsState = state
    BY <1>1, PlainAbs DEF Plain, Quiet
  <2>2. /\ AbsCurrent' = thr_current
        /\ AbsReady' = OlistAdd(thr_ready, w, ByPriority)
        /\ AbsState' = [state EXCEPT ![w] = "READY"]
    BY <1>4, <1>5 DEF AbsCurrent, AbsReady, AbsState
  <2>3. \E ok \in Alloc :
           AbsReady' = IF ok THEN Atomic!OlistAdd(AbsReady, w, Atomic!ByPriority) ELSE AbsReady
    BY <2>1, <2>2, AllocAssumption, SameOperators
  <2> QED  BY <1>1, <1>2, <1>3, <1>4, <2>1, <2>2, <2>3 DEF Atomic!SemHandOver
<1> QED  BY <1>6, <1>7, <1>11, <1>13 DEF Goal, Atomic!Next, Atomic!OtherStep

-----------------------------------------------------------------------------
(* Steps that touch no context and no semaphore. *)
LEMMA StillControl ==
    ASSUME CtxControl, UNCHANGED <<cpu, kctx, wait_list, count>>
    PROVE  CtxTyped' /\ SavedRight' /\ WaitersWait'
<1>1. \A s \in Sems : Waiters(s)' = Waiters(s)
  BY WaitersSame
<1>2. \A t \in Threads : SemOf(t)' = SemOf(t) /\ PcOf(t)' = PcOf(t)
  BY DEF SemOf, PcOf
<1>3. \A s \in Sems : \A t \in Waiters(s) : SemOf(t)' = SemOf(t) /\ PcOf(t)' = PcOf(t)
  BY DEF SemOf, PcOf
<1>5. WaitersWait'
  BY <1>1, <1>3 DEF CtxControl, WaitersWait
<1> QED  BY <1>5 DEF CtxControl, CtxTyped, SavedRight

(* The CPU is given to another thread, or back to the same one, by a step   *)
(* that saves the context it leaves.                                        *)
LEMMA SwitchControl ==
    ASSUME PInv, cpu.pc \in Quiet, UNCHANGED <<wait_list, count>>,
           thr_current' \in Threads, thr_current' \notin Blocked, mode' = "run",
           Resume([kctx EXCEPT ![thr_current] = cpu], thr_current')
    PROVE  CtxControl' /\ cpu'.pc \in Quiet
<1> USE DEF PInv, CtxControl
<1>0. PICK t \in Threads, u \in Threads : cpu.thr = t /\ thr_current' = u
  BY DEF CtxTyped, Context
<1> DEFINE saved == [kctx EXCEPT ![t] = cpu]
<1>1. saved \in [Threads -> Context] /\ \A x \in Threads : saved[x] = IF x = t THEN cpu ELSE kctx[x]
  BY <1>0 DEF CtxTyped
<1>a. Resume(saved, u)
  <2>1. thr_current = t
    BY <1>0 DEF AtPc, Quiet
  <2> QED  BY <1>0, <2>1
<1> HIDE DEF saved
<1>b. /\ cpu' = saved[u] /\ CtxTyped'
      /\ kctx'[u].thr = saved[u].thr /\ kctx'[u].pc = "used"
      /\ \A x \in Threads : x # u => kctx'[x] = saved[x]
  BY <1>1, <1>a, ResumeFields
<1>2. \A x \in Threads : /\ saved[x].thr = x /\ saved[x].pc \in Quiet
                         /\ x = Null => saved[x].pc = "idle"
  BY <1>0, <1>1, ThreadsAssumption DEF SavedRight, AtPc, Quiet
<1>4. cpu'.thr = u /\ cpu'.pc \in Quiet /\ (u = Null => cpu'.pc = "idle")
  BY <1>2, <1>b
<1>3. SavedRight'
  BY <1>2, <1>4, <1>b, ThreadsAssumption DEF SavedRight, Quiet
<1>5. AtPc'
  BY <1>0, <1>4 DEF AtPc, Quiet, InBlock
<1>6. \A x \in Threads : SemOf(x)' = SemOf(x) /\ PcOf(x)' = PcOf(x)
  BY <1>0, <1>1, <1>4, <1>b DEF SemOf, PcOf
<1>7. \A s \in Sems : Waiters(s)' = Waiters(s)
  BY WaitersSame
<1>8. WaitersWait'
  <2> SUFFICES ASSUME NEW s \in Sems, NEW x \in Waiters(s)
               PROVE  SemOf(x)' = s /\ PcOf(x)' \in IF cpu'.thr = x THEN InBlock ELSE {"ret"}
    BY <1>7 DEF WaitersWait
  <2>1. x # t /\ x # u /\ x \in Threads
    BY <1>0, NotWaiting, WaitersTyped DEF Quiet, InBlock
  <2> QED  BY <1>0, <1>4, <1>6, <2>1 DEF WaitersWait
<1> QED  BY <1>3, <1>4, <1>5, <1>8, <1>b

(* thr_run: the CPU continues where the chosen thread was put aside.        *)
LEMMA WaitRunStep == ASSUME PInv, WaitRun PROVE Goal
<1> USE DEF PInv, CtxControl
<1>0. PICK t \in Threads, u \in Threads, s \in Sems :
         cpu.thr = t /\ cpu.nxt = u /\ cpu.sem = s
  BY DEF WaitRun, Resume, CtxTyped, Context
<1>1. mode = "run" /\ cpu.pc = "run" /\ UNCHANGED vars
  BY <1>0 DEF WaitRun
<1>a. /\ cpu' = kctx[u] /\ CtxTyped'
      /\ kctx'[u].thr = kctx[u].thr /\ kctx'[u].pc = "used"
      /\ \A x \in Threads : x # u => kctx'[x] = kctx[x]
  <2>1. Resume(kctx, u) /\ kctx \in [Threads -> Context]
    BY <1>0 DEF WaitRun, CtxTyped
  <2> QED  BY <2>1, ResumeFields
<1>2. UNCHANGED <<mode, time_ticks, thr_threads, thr_current, thr_ready, thr_sleep, state, count, wait_list>>
  BY <1>1 DEF vars, lists
<1>3. /\ thr_current = u /\ t \in Waiters(s)
      /\ kctx[t].pc = "ret" /\ kctx[t].sem = s
  BY <1>0, <1>1 DEF AtPc, InBlock
<1>4. u \notin Blocked /\ t # u
  <2>1. u \notin Blocked
    BY <1>0, <1>1, AbsPlaces DEF AbsCurrent
  <2> QED  BY <1>3, <2>1, WaitersTyped
<1>5. /\ cpu' \in Context /\ cpu'.thr = u /\ cpu'.pc \in Quiet
      /\ u = Null => cpu'.pc = "idle"
  BY <1>0, <1>1, <1>a DEF CtxTyped, SavedRight, Quiet
<1>6. TypeInv'
  BY <1>2 DEF TypeInv, TypeOK
<1>7. SavedRight'
  BY <1>0, <1>1, <1>5, <1>a, ThreadsAssumption DEF SavedRight, Quiet
<1>8. AtPc'
  BY <1>1, <1>2, <1>3, <1>5 DEF AtPc, Quiet, InBlock
<1>9. /\ \A x \in Threads : SemOf(x)' = SemOf(x)
      /\ \A x \in Threads : x # t => PcOf(x)' = PcOf(x)
      /\ PcOf(t) = "run" /\ PcOf(t)' = "ret"
  BY <1>0, <1>1, <1>3, <1>4, <1>5, <1>a DEF SemOf, PcOf
<1>10. \A q \in Sems : Waiters(q)' = Waiters(q)
  BY <1>2, WaitersSame
<1>11. WaitersWait'
  <2> SUFFICES ASSUME NEW q \in Sems, NEW x \in Waiters(q)
               PROVE  SemOf(x)' = q /\ PcOf(x)' \in IF cpu'.thr = x THEN InBlock ELSE {"ret"}
    BY <1>10 DEF WaitersWait
  <2>1. x # u /\ x \in Threads
    BY <1>4, WaitersTyped
  <2> QED  BY <1>0, <1>5, <1>9, <2>1 DEF WaitersWait
<1>13. UNCHANGED Atomic!vars
  <2>1. cpu'.pc \in Plain
    BY <1>5 DEF Plain, Quiet
  <2> QED
    BY <1>0, <1>1, <1>2, <1>3, <2>1, PlainAbsNext
       DEF AbsCurrent, AbsReady, AbsState, Atomic!vars, Atomic!lists
<1> QED  BY <1>6, <1>7, <1>8, <1>11, <1>13, <1>a DEF Goal

(* A step of Sched taken where the contexts say that the scheduler is as it *)
(* seems, before and after.                                                 *)
LEMMA PlainNext ==
    ASSUME PInv, cpu.pc \in Plain, cpu'.pc \in Plain,
           \/ \E t \in Threads : NewThread(t)
           \/ EnableInterrupts
           \/ Timer
           \/ \E a \in SleepArgs : Sleep(a[1], a[2])
    PROVE  [Atomic!Next]_(Atomic!vars) /\ TypeInv'
<1>1. TypeInv'
  BY NextTypeInv DEF PInv, Next, OtherStep
<1>2. /\ AbsCurrent = thr_current /\ AbsReady = thr_ready /\ AbsState = state
      /\ AbsCurrent' = thr_current' /\ AbsReady' = thr_ready' /\ AbsState' = state'
  BY PlainAbs, PlainAbsNext
<1>3. Atomic!Next
  <2>1. ASSUME NEW t \in Threads, NewThread(t) PROVE Atomic!Next
    BY <1>2, <2>1, PlainSteps DEF Atomic!Next, Atomic!OtherStep
  <2>2. ASSUME EnableInterrupts PROVE Atomic!Next
    BY <1>2, <2>2, PlainSteps DEF Atomic!Next, Atomic!OtherStep
  <2>3. ASSUME Timer PROVE Atomic!Next
    BY <1>2, <2>3, PlainSteps DEF Timer, Atomic!Timer, Atomic!Next, Atomic!OtherStep
  <2>4. ASSUME NEW a \in SleepArgs, Sleep(a[1], a[2]) PROVE Atomic!Next
    BY <1>2, <2>4, PlainSteps DEF Atomic!Next
  <2> QED  BY <2>1, <2>2, <2>3, <2>4
<1> QED  BY <1>1, <1>3

(* The other steps: boot, *)
LEMMA BootStep == ASSUME PInv, Boot PROVE Goal
<1> USE DEF PInv, CtxControl
<1>1. /\ mode = "boot" /\ mode' \in {"boot", "run", "panic"}
      /\ UNCHANGED <<thr_current, count, wait_list, cpu, kctx>>
  BY DEF Boot, NewThread, EnableInterrupts, lists
<1>2. cpu.pc \in Quiet
  BY <1>1 DEF AtPc
<1>3. [Atomic!Next]_(Atomic!vars) /\ TypeInv'
  BY <1>1, <1>2, PlainNext DEF Boot, Plain, Quiet
<1>4. CtxTyped' /\ SavedRight' /\ WaitersWait'
  BY <1>1, StillControl
<1>5. AtPc'
  BY <1>1, <1>2 DEF AtPc, Quiet, InBlock
<1> QED  BY <1>3, <1>4, <1>5 DEF Goal

(* the timer handler's entry, *)
LEMMA IrqEnterStep == ASSUME PInv, IrqEnter, cuts' = {} PROVE Goal
<1> USE DEF PInv, CtxControl
<1>1. /\ mode = "run" /\ TimerEnter
      /\ UNCHANGED <<thr_current, count, wait_list, cpu, kctx>>
  BY DEF IrqEnter, TimerEnter
<1>2. cpu.pc \in Quiet
  <2>1. cpu.pc \notin InCall
    BY DEF IrqEnter
  <2>2. cpu.pc \in Pcs /\ cpu.pc # "used"
    BY DEF CtxTyped, Context, AtPc
  <2> QED  BY <2>1, <2>2 DEF Pcs, Quiet, InCall, InWait, InRelease, InBlock
<1>3. [Atomic!Next]_(Atomic!vars) /\ TypeInv'
  BY <1>1, <1>2, PlainNext DEF Timer, Plain, Quiet
<1>4. CtxTyped' /\ SavedRight' /\ WaitersWait'
  BY <1>1, StillControl
<1>5. AtPc'
  BY <1>1, <1>2 DEF AtPc, Quiet, InBlock
<1> QED  BY <1>3, <1>4, <1>5 DEF Goal

(* its loop, *)
LEMMA IrqWakeStep == ASSUME PInv, IrqWake PROVE Goal
<1> USE DEF PInv, CtxControl
<1>1. /\ mode = "irq" /\ WakeOne
      /\ UNCHANGED <<thr_current, count, wait_list, cpu, kctx>>
  BY DEF IrqWake, WakeOne
<1>2. cpu.pc \in Quiet
  BY <1>1 DEF AtPc
<1>3. [Atomic!Next]_(Atomic!vars) /\ TypeInv'
  BY <1>1, <1>2, PlainNext DEF Timer, Plain, Quiet
<1>4. CtxTyped' /\ SavedRight' /\ WaitersWait'
  BY <1>1, StillControl
<1>5. AtPc'
  BY <1>1, <1>2 DEF AtPc, Quiet, InBlock
<1> QED  BY <1>3, <1>4, <1>5 DEF Goal

(* The CPU goes to the first ready thread, which blocks nowhere.            *)
LEMMA Dispatched ==
    ASSUME PInv, cpu.pc \in Quiet, Resched(thr_ready),
           mode = "irq" \/ thr_current # Null
    PROVE  thr_current' \in Threads /\ thr_current' \notin Blocked /\ mode' = "run"
<1>1. AbsCurrent = thr_current /\ AbsReady = thr_ready
  BY PlainAbs DEF Plain, Quiet
<1>2. thr_ready # <<>> /\ thr_ready \in Seq(Threads)
  <2>1. Items(thr_ready) # {}
    BY <1>1, AbsPlaces DEF PInv
  <2> QED  BY <2>1 DEF PInv, TypeInv, TypeOK, Items
<1>3. thr_current' = Head(thr_ready) /\ mode' = "run"
  BY <1>2 DEF Resched
<1> QED  BY <1>1, <1>2, <1>3, TailItems, AbsPlaces DEF PInv

(* its resched, *)
LEMMA IrqExitStep == ASSUME PInv, IrqExit PROVE Goal
<1> USE DEF PInv, CtxControl
<1>1. /\ mode = "irq" /\ TimerExit /\ Resched(thr_ready)
      /\ UNCHANGED <<count, wait_list>>
      /\ Resume([kctx EXCEPT ![thr_current] = cpu], thr_current')
  BY DEF IrqExit, TimerExit
<1>2. cpu.pc \in Quiet
  BY <1>1 DEF AtPc
<1>3. thr_current' \in Threads /\ thr_current' \notin Blocked /\ mode' = "run"
  BY <1>1, <1>2, Dispatched
<1>4. CtxControl' /\ cpu'.pc \in Quiet
  BY <1>1, <1>2, <1>3, SwitchControl
<1>6. [Atomic!Next]_(Atomic!vars) /\ TypeInv'
  BY <1>1, <1>2, <1>4, PlainNext DEF Timer, Plain
<1> QED  BY <1>4, <1>6 DEF Goal

(* and the sleep system call. *)
LEMMA SleepCallStep == ASSUME PInv, NEW a \in SleepArgs, SleepCall(a[1], a[2]) PROVE Goal
<1> USE DEF PInv, CtxControl
<1>1. /\ cpu.pc = "idle" /\ thr_current # Null
      /\ Sleep(a[1], a[2]) /\ Resched(thr_ready)
      /\ UNCHANGED <<count, wait_list>>
      /\ Resume([kctx EXCEPT ![thr_current] = cpu], thr_current')
  BY DEF MemoryLasts, SleepCall, Sleep, SleepQueued
<1>a. cpu.pc \in Quiet
  BY <1>1 DEF Quiet
<1>2. thr_current' \in Threads /\ thr_current' \notin Blocked /\ mode' = "run"
  BY <1>1, <1>a, Dispatched
<1>4. CtxControl' /\ cpu'.pc \in Quiet
  BY <1>1, <1>2, <1>a, SwitchControl
<1>5. [Atomic!Next]_(Atomic!vars) /\ TypeInv'
  BY <1>1, <1>4, <1>a, PlainNext DEF Plain
<1> QED  BY <1>4, <1>5 DEF Goal

-----------------------------------------------------------------------------
(* PInv holds at boot, and the mapped state is an initial one of Sched. *)
LEMMA InitPInv == ASSUME PlainCase PROVE PInit => PInv /\ Atomic!Init
<1> SUFFICES ASSUME PInit PROVE PInv /\ Atomic!Init
  OBVIOUS
<1>1. PICK s \in Sems :
         /\ cpu = [thr |-> Main, pc |-> "idle", sem |-> s, nxt |-> NULL]
         /\ kctx = [t \in Threads |->
                      [cpu EXCEPT !.thr = t, !.pc = IF t = Main THEN "used" ELSE "idle"]]
  BY DEF PInit
<1>2. Init /\ TypeInv
  BY InitTypeInv DEF PInit
<1>3. /\ cpu = [thr |-> Main, pc |-> "idle", sem |-> s, nxt |-> NULL]
      /\ \A t \in Threads : /\ kctx[t] \in Context /\ kctx[t].thr = t
                             /\ kctx[t].pc = IF t = Main THEN "used" ELSE "idle"
  BY <1>1, ThreadsAssumption DEF Context, Pcs
<1>4. Atomic!Init
  <2>1. AbsCurrent = thr_current /\ AbsReady = thr_ready /\ AbsState = state
    BY <1>3, PlainAbs DEF Plain, Quiet
  <2> QED  BY <1>2, <2>1 DEF Init, Atomic!Init
<1>5. AtomicP!TypeInv /\ AtomicP!Placement
  BY <1>4, SameAtomic, AtomicP!InitTypeInv, AtomicP!InitPlacement,
     ThreadsAssumption, PriorityAssumption, SemsAssumption, TimeAssumption, AllocAssumption
<1>c. cpu \in Context /\ cpu.thr = Main /\ cpu.pc = "idle"
  BY <1>3, ThreadsAssumption DEF Context, Pcs
<1>d. kctx \in [Threads -> Context]
  BY <1>1, <1>3
<1>6. CtxTyped /\ SavedRight
  BY <1>3, <1>c, <1>d, ThreadsAssumption DEF CtxTyped, SavedRight, Quiet
<1>7. AtPc
  BY <1>2, <1>3, ThreadsAssumption DEF AtPc, Init, Quiet, InBlock
<1>8. \A q \in Sems : Waiters(q) = {}
  BY <1>2 DEF Init, Waiters, Items
<1>9. WaitersWait
  BY <1>8 DEF WaitersWait
<1> QED  BY <1>2, <1>4, <1>5, <1>6, <1>7, <1>9 DEF PInv, CtxControl, PlainCase

(* Every step keeps PInv and maps to a step of Sched or a stutter. *)
LEMMA NextPInv ==
    ASSUME PInv, PlainCase, LockOK, [PNext]_pvars, cuts' = {}
    PROVE  PInv' /\ [Atomic!Next]_(Atomic!vars)
<1>1. ASSUME PNext PROVE Goal
  <2>1. CASE Wait
    BY <2>1, WaitTestStep, WaitDecStep, WaitQueueStep, WaitMarkStep, WaitPickStep,
       WaitSaveStep, WaitCurrStep, WaitRunStep, WaitReturnStep DEF Wait
  <2>2. CASE Release
    BY <2>2, ReleaseCallStep, ReleaseTestStep, ReleasePopStep, ReleaseAddStep,
       ReleaseMarkStep, ReleaseIncStep DEF Release
  <2>3. CASE Irq
    BY <2>3, IrqEnterStep, IrqWakeStep, IrqExitStep DEF Irq
  <2>4. CASE Boot
    BY <2>4, BootStep
  <2>5. ASSUME NEW a \in SleepArgs, SleepCall(a[1], a[2]) PROVE Goal
    BY <2>5, SleepCallStep
  <2>6. ASSUME NEW s \in Sems, WaitCall(s) PROVE Goal
    BY <2>6, WaitCallStep
  <2> QED  BY <1>1, <2>1, <2>2, <2>3, <2>4, <2>5, <2>6 DEF PNext
<1>2. ASSUME UNCHANGED pvars PROVE Goal
  <2>1. UNCHANGED <<vars, cpu, kctx>>
    BY <1>2 DEF pvars
  <2>2. UNCHANGED <<mode, time_ticks, thr_threads, thr_current, thr_ready, thr_sleep, state, count, wait_list>>
    BY <2>1 DEF vars, lists
  <2>3. TypeInv'
    BY <2>2 DEF PInv, TypeInv, TypeOK
  <2>4. CtxTyped' /\ SavedRight' /\ WaitersWait'
    BY <2>1, <2>2, StillControl DEF PInv
  <2>5. AtPc'
    BY <2>1, <2>2, WaitersSame DEF PInv, CtxControl, CtxTyped, Context, AtPc, InBlock
  <2>6. UNCHANGED Atomic!vars
    BY <2>1, <2>2 DEF AbsCurrent, AbsReady, AbsState, Atomic!vars, Atomic!lists
  <2> QED  BY <2>3, <2>4, <2>5, <2>6 DEF Goal, CtxControl
<1>3. Goal
  BY <1>1, <1>2
<1>4. AtomicP!TypeInv' /\ AtomicP!Placement'
  BY <1>3, AbsNext DEF Goal, PInv
<1> QED  BY <1>3, <1>4 DEF Goal, PInv, MemoryLasts

(* PInv holds until an interrupt has come inside a call. *)
UncutInv == cuts = {} => PInv

LEMMA UncutInvAlways == ASSUME PlainCase PROVE PSpec => []UncutInv
<1>1. UncutInv /\ LockInv /\ [PNext]_pvars => UncutInv'
  BY NextPInv, CutsGrow DEF UncutInv, LockInv, Uncut
<1>2. PInit => UncutInv
  BY InitPInv DEF UncutInv
<1>3. PSpec => []LockInv
  BY LockInvAlways DEF PlainCase
<1> QED  BY <1>1, <1>2, <1>3, PTL DEF PSpec

(* sem_wait, sem_release, resched_no_int, thr_switch, thr_run: while no     *)
(* timer interrupt has come inside a call, every step of these functions is *)
(* a step of the atomic scheduler or changes nothing it can see.            *)
THEOREM ImplementsSchedAlways == ASSUME PlainCase PROVE PSpec => ImplementsSched
<1>1. UncutInv /\ LockInv /\ [PNext]_pvars => [cuts' = {} => Atomic!Next]_(Atomic!vars)
  BY NextPInv, CutsGrow DEF UncutInv, LockInv, Uncut
<1>2. PInit => Atomic!Init
  BY InitPInv
<1>3. PSpec => []LockInv
  BY LockInvAlways DEF PlainCase
<1> QED  BY <1>1, <1>2, <1>3, UncutInvAlways, PTL DEF PSpec, ImplementsSched
=============================================================================
