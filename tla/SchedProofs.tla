---------------------------- MODULE SchedProofs ----------------------------
(***************************************************************************)
(* Proofs about module Sched, for every set of threads and semaphores,     *)
(* every assignment of priorities and every size of the tick counter.      *)
(***************************************************************************)
EXTENDS Sched, OlistProofs

(* The keys of the two ordered lists are integers. *)
LEMMA KeyTypes ==
    /\ ByPriority \in [Threads -> Int]
    /\ ByTime \in [SleepEntry -> Int]
BY PriorityAssumption, TimeAssumption DEF ByPriority, ByTime, SleepEntry, Ticks

(* Adding a thread to the ready list. *)
LEMMA ReadyAdd ==
    ASSUME thr_ready \in Seq(Threads), NEW t \in Threads
    PROVE  LET r == OlistAdd(thr_ready, t, ByPriority)
           IN  /\ r \in Seq(Threads)
               /\ Items(r) = Items(thr_ready) \cup {t}
               /\ NoDuplicates(thr_ready) /\ t \notin Items(thr_ready) => NoDuplicates(r)
               /\ Ordered(thr_ready, ByPriority) => Ordered(r, ByPriority)
<1> DEFINE l == OlistAdd(thr_ready, t, ByPriority)
<1>1. ByPriority \in [Threads -> Int]
  BY KeyTypes
<1>2. l \in Seq(Threads)
  BY <1>1, OlistAddShape
<1>3. Items(l) = Items(thr_ready) \cup {t}
  BY <1>1, OlistAddItems
<1>4. NoDuplicates(thr_ready) /\ t \notin Items(thr_ready) => NoDuplicates(l)
  BY <1>1, OlistAddNoDuplicates
<1>5. Ordered(thr_ready, ByPriority) => Ordered(l, ByPriority)
  BY <1>1, OlistAddOrdered
<1> QED  BY <1>2, <1>3, <1>4, <1>5

(* Adding an entry to the sleep list. *)
LEMMA SleepAdd ==
    ASSUME thr_sleep \in Seq(SleepEntry), NEW e \in SleepEntry
    PROVE  LET q == OlistAdd(thr_sleep, e, ByTime)
           IN  /\ q \in Seq(SleepEntry)
               /\ Items(q) = Items(thr_sleep) \cup {e}
               /\ NoDuplicates(thr_sleep) /\ e \notin Items(thr_sleep) => NoDuplicates(q)
               /\ Ordered(thr_sleep, ByTime) => Ordered(q, ByTime)
<1> DEFINE l == OlistAdd(thr_sleep, e, ByTime)
<1>1. ByTime \in [SleepEntry -> Int]
  BY KeyTypes
<1>2. l \in Seq(SleepEntry)
  BY <1>1, OlistAddShape
<1>3. Items(l) = Items(thr_sleep) \cup {e}
  BY <1>1, OlistAddItems
<1>4. NoDuplicates(thr_sleep) /\ e \notin Items(thr_sleep) => NoDuplicates(l)
  BY <1>1, OlistAddNoDuplicates
<1>5. Ordered(thr_sleep, ByTime) => Ordered(l, ByTime)
  BY <1>1, OlistAddOrdered
<1> QED  BY <1>2, <1>3, <1>4, <1>5

(* Ticks are natural numbers. *)
LEMMA TicksNat == Ticks \subseteq Nat /\ 0 \in Ticks
BY TimeAssumption DEF Ticks

(* A wake-up time is a value of the tick counter. *)
LEMMA TargTicksType ==
    ASSUME time_ticks \in Ticks, NEW a \in SleepArgs
    PROVE  TargTicks(a[1], a[2]) \subseteq Ticks
<1>1. a[1] \in Nat
  BY TimeAssumption
<1>2. CASE a[2] \in DOMAIN UnitTicks
  <2>1. UnitTicks[a[2]] \in Nat
    BY <1>2 DEF UnitTicks
  <2>2. time_ticks \in Nat
    BY TicksNat
  <2> DEFINE u == UnitTicks[a[2]]
             n == time_ticks + u * a[1]
  <2>3. n \in Int
    <3> HIDE DEF u
    <3>1. u \in Nat
      BY <2>1 DEF u
    <3> QED  BY <1>1, <2>2, <3>1
  <2> HIDE DEF n
  <2>4. n % TickMod \in Ticks
    BY <2>3, TimeAssumption DEF Ticks
  <2> QED  BY <1>2, <2>4 DEF TargTicks, n
<1>3. CASE a[2] \notin DOMAIN UnitTicks
  BY <1>3 DEF TargTicks
<1> QED  BY <1>2, <1>3

-----------------------------------------------------------------------------
(* Type correctness. A thread is current unless resched found none.        *)
TypeInv == TypeOK /\ (mode # "crash" => thr_current \in Threads)

(* resched runs a thread or, with an empty ready list, crashes. *)
LEMMA ReschedType ==
    ASSUME thr_ready \in Seq(Threads), Resched(thr_ready)
    PROVE  /\ thr_ready' \in Seq(Threads)
           /\ thr_current' \in Threads \cup {NULL}
           /\ mode' \in {"run", "crash"}
           /\ mode' # "crash" => thr_current' \in Threads
<1>1. CASE thr_ready # <<>>
  BY <1>1, TailItems DEF Resched
<1>2. CASE thr_ready = <<>>
  BY <1>2 DEF Resched
<1> QED  BY <1>1, <1>2

(* TypeInv holds at boot. *)
LEMMA InitTypeInv == Init => TypeInv
<1> SUFFICES ASSUME Init PROVE TypeInv
  OBVIOUS
<1>1. <<Null>> \in Seq(Threads) /\ <<>> \in Seq(Threads) /\ <<>> \in Seq(SleepEntry)
  BY ThreadsAssumption
<1> QED  BY <1>1, ThreadsAssumption, SemsAssumption, TicksNat DEF Init, TypeInv, TypeOK

(* Every step keeps TypeInv. *)
LEMMA NextTypeInv == TypeInv /\ [Next]_vars => TypeInv'
<1> SUFFICES ASSUME TypeInv, [Next]_vars PROVE TypeInv'
  OBVIOUS
<1> USE DEF TypeInv, TypeOK
<1>1. ASSUME NEW t \in Threads, NewThread(t) PROVE TypeInv'
  <2>1. thr_ready' \in Seq(Threads)
    BY <1>1, ReadyAdd DEF NewThread
  <2> QED  BY <1>1, <2>1 DEF NewThread
<1>2. CASE EnableInterrupts
  BY <1>2 DEF EnableInterrupts, lists
<1>3. CASE TimerEnter
  <2>1. time_ticks' \in Ticks
    BY <1>3, TimeAssumption DEF TimerEnter, Ticks
  <2>2. thr_ready' \in Seq(Threads)
    BY <1>3, ReadyAdd DEF TimerEnter
  <2> QED  BY <1>3, <2>1, <2>2 DEF TimerEnter
<1>4. CASE WakeOne
  <2>1. thr_sleep # <<>> /\ Head(thr_sleep) \in SleepEntry /\ thr_sleep' \in Seq(SleepEntry)
    BY <1>4, TailItems DEF WakeOne, SleeperDue
  <2>2. Head(thr_sleep).thread \in Threads
    BY <2>1 DEF SleepEntry
  <2>3. thr_ready' \in Seq(Threads)
    BY <1>4, <2>2, ReadyAdd DEF WakeOne
  <2> QED  BY <1>4, <2>1, <2>2, <2>3 DEF WakeOne
<1>5. CASE TimerExit
  BY <1>5, ReschedType DEF TimerExit
<1>6. ASSUME NEW a \in SleepArgs, SleepQueued(a[1], a[2]) PROVE TypeInv'
  <2>1. PICK targ_ticks \in TargTicks(a[1], a[2]), ok \in Alloc :
           thr_sleep' = IF ok THEN OlistAdd(thr_sleep, [thread |-> thr_current, time |-> targ_ticks], ByTime)
                        ELSE thr_sleep
    BY <1>6 DEF SleepQueued
  <2>2. [thread |-> thr_current, time |-> targ_ticks] \in SleepEntry
    BY <1>6, TargTicksType DEF SleepQueued, SleepEntry
  <2>3. thr_sleep' \in Seq(SleepEntry)
    BY <2>1, <2>2, SleepAdd
  <2> QED  BY <1>6, <2>3, ReschedType DEF SleepQueued
<1>7. CASE SleepPanics
  BY <1>7 DEF SleepPanics, lists
<1>8. ASSUME NEW s \in Sems, SemTake(s) PROVE TypeInv'
  BY <1>8 DEF SemTake, lists
<1>9. ASSUME NEW s \in Sems, SemBlock(s) PROVE TypeInv'
  <2>1. wait_list' \in [Sems -> Seq(Threads)]
    BY <1>9, AppendItems DEF SemBlock
  <2> QED  BY <1>9, <2>1, ReschedType DEF SemBlock
<1>10. ASSUME NEW s \in Sems, SemHandOver(s) PROVE TypeInv'
  <2>1. Head(wait_list[s]) \in Threads /\ Tail(wait_list[s]) \in Seq(Threads)
    BY <1>10, TailItems DEF SemHandOver
  <2>2. thr_ready' \in Seq(Threads)
    BY <1>10, <2>1, ReadyAdd DEF SemHandOver
  <2> QED  BY <1>10, <2>1, <2>2 DEF SemHandOver
<1>11. ASSUME NEW s \in Sems, SemPost(s) PROVE TypeInv'
  BY <1>11 DEF SemPost, lists
<1>12. CASE UNCHANGED vars
  BY <1>12 DEF vars, lists
<1> QED
  BY <1>1, <1>2, <1>3, <1>4, <1>5, <1>6, <1>7, <1>8, <1>9, <1>10, <1>11, <1>12
     DEF Next, OtherStep, Timer, Sleep

(* Every variable keeps its type.                                           *)
THEOREM TypeCorrect == Spec => []TypeOK
<1>1. Spec => []TypeInv
  BY InitTypeInv, NextTypeInv, PTL DEF Spec
<1>2. TypeInv => TypeOK
  BY DEF TypeInv
<1> QED  BY <1>1, <1>2, PTL

-----------------------------------------------------------------------------
(* The threads on the sleep list.                                          *)
LEMMA SleepAddThreads ==
    ASSUME thr_sleep \in Seq(SleepEntry), NEW e \in SleepEntry
    PROVE  LET q == OlistAdd(thr_sleep, e, ByTime)
           IN  /\ EntryThreads(q) = Sleepers \cup {e.thread}
               /\ OneEntryEach(thr_sleep) /\ e.thread \notin Sleepers => OneEntryEach(q)
<1> DEFINE q == OlistAdd(thr_sleep, e, ByTime)
           k == OlistPos(thr_sleep, e, ByTime)
<1>0. AddedAt(q, thr_sleep, e, k)
  BY KeyTypes, OlistAddShape
<1>2. Items(q) = Items(thr_sleep) \cup {e}
  BY SleepAdd
<1> HIDE DEF q, k
<1>1. /\ Len(q) = Len(thr_sleep) + 1
      /\ k \in 1 .. Len(q)
      /\ q[k] = e
      /\ \A i \in 1 .. k - 1 : i \in 1 .. Len(thr_sleep) /\ q[i] = thr_sleep[i]
      /\ \A i \in k + 1 .. Len(q) : i - 1 \in 1 .. Len(thr_sleep) /\ q[i] = thr_sleep[i - 1]
  BY <1>0 DEF AddedAt
<1>3. EntryThreads(q) = {x.thread : x \in Items(q)}
  BY DEF EntryThreads, Items
<1>4. Sleepers = {x.thread : x \in Items(thr_sleep)}
  BY DEF Sleepers, EntryThreads, Items
<1>5. EntryThreads(q) = Sleepers \cup {e.thread}
  BY <1>2, <1>3, <1>4
<1>6. ASSUME OneEntryEach(thr_sleep), e.thread \notin Sleepers PROVE OneEntryEach(q)
  <2> SUFFICES ASSUME NEW i \in 1 .. Len(q), NEW j \in 1 .. Len(q),
                      q[i].thread = q[j].thread
               PROVE  i = j
    BY DEF OneEntryEach
  <2>1. \A m \in 1 .. Len(q) : m # k => q[m].thread \in Sleepers
    BY <1>1, SMTT(30) DEF Sleepers, EntryThreads
  <2>2. CASE i = k \/ j = k
    BY <1>1, <1>6, <2>1, <2>2
  <2>3. CASE i # k /\ j # k
    <3> DEFINE old(m) == IF m < k THEN m ELSE m - 1
    <3>1. \A m \in 1 .. Len(q) : m # k => old(m) \in 1 .. Len(thr_sleep) /\ q[m] = thr_sleep[old(m)]
      BY <1>1
    <3>2. old(i) \in 1 .. Len(thr_sleep) /\ old(j) \in 1 .. Len(thr_sleep)
          /\ thr_sleep[old(i)].thread = thr_sleep[old(j)].thread
      <4> HIDE DEF old
      <4> QED  BY <2>3, <3>1
    <3>3. old(i) = old(j)
      <4> HIDE DEF old
      <4> QED  BY <1>6, <3>2 DEF OneEntryEach
    <3> QED  BY <1>1, <2>3, <3>3
  <2> QED  BY <2>2, <2>3
<1> QED  BY <1>5, <1>6 DEF q

(* Taking the first sleep entry off the list wakes its thread and no       *)
(* other.                                                                  *)
LEMMA SleepTailThreads ==
    ASSUME thr_sleep \in Seq(SleepEntry), thr_sleep # <<>>
    PROVE  LET q == Tail(thr_sleep)
               t == Head(thr_sleep).thread
           IN  /\ t \in Sleepers
               /\ Sleepers = EntryThreads(q) \cup {t}
               /\ OneEntryEach(thr_sleep) => OneEntryEach(q) /\ t \notin EntryThreads(q)
<1> DEFINE q == Tail(thr_sleep)
<1>1. /\ Head(thr_sleep) = thr_sleep[1]
      /\ 1 \in 1 .. Len(thr_sleep)
      /\ \A i \in 1 .. Len(q) : i + 1 \in 1 .. Len(thr_sleep) /\ q[i] = thr_sleep[i + 1]
      /\ Items(thr_sleep) = {Head(thr_sleep)} \cup Items(q)
  BY TailItems
<1>2. EntryThreads(q) = {x.thread : x \in Items(q)}
  BY DEF EntryThreads, Items
<1>3. Sleepers = {x.thread : x \in Items(thr_sleep)}
  BY DEF Sleepers, EntryThreads, Items
<1> HIDE DEF q
<1>4. ASSUME OneEntryEach(thr_sleep)
      PROVE  OneEntryEach(q) /\ Head(thr_sleep).thread \notin EntryThreads(q)
  <2>1. ASSUME NEW i \in 1 .. Len(q), NEW j \in 1 .. Len(q), q[i].thread = q[j].thread
        PROVE  i = j
    <3>1. i + 1 = j + 1
      BY <1>1, <1>4, <2>1 DEF OneEntryEach
    <3> QED  BY <3>1
  <2>2. ASSUME NEW i \in 1 .. Len(q) PROVE q[i].thread # Head(thr_sleep).thread
    <3>1. i + 1 # 1 /\ i + 1 \in 1 .. Len(thr_sleep) /\ q[i] = thr_sleep[i + 1]
      BY <1>1
    <3> QED  BY <1>1, <1>4, <3>1 DEF OneEntryEach
  <2> QED  BY <2>1, <2>2 DEF OneEntryEach, EntryThreads
<1> QED  BY <1>1, <1>2, <1>3, <1>4 DEF q

(* Rescheduling takes the first thread off the ready list.                 *)
LEMMA ReschedPlaces ==
    ASSUME thr_ready \in Seq(Threads), NoDuplicates(thr_ready), Resched(thr_ready)
    PROVE  /\ NoDuplicates(thr_ready')
           /\ thr_current' \notin Items(thr_ready')
           /\ thr_current' \in Items(thr_ready) \cup {NULL}
           /\ Items(thr_ready') \subseteq Items(thr_ready)
           /\ mode' \in {"run", "crash"}
           /\ Items(thr_ready) # {} => /\ mode' = "run"
                                      /\ Items(thr_ready) = Items(thr_ready') \cup {thr_current'}
<1>1. CASE thr_ready # <<>>
  <2>1. thr_ready' = Tail(thr_ready) /\ thr_current' = Head(thr_ready) /\ mode' = "run"
    BY <1>1 DEF Resched
  <2>2. /\ NoDuplicates(Tail(thr_ready))
        /\ Head(thr_ready) \notin Items(Tail(thr_ready))
    BY <1>1, TailNoDuplicates
  <2>3. Items(thr_ready) = {Head(thr_ready)} \cup Items(Tail(thr_ready))
    BY <1>1, TailItems
  <2> QED  BY <2>1, <2>2, <2>3
<1>2. CASE thr_ready = <<>>
  BY <1>2 DEF Resched, Items
<1> QED  BY <1>1, <1>2

-----------------------------------------------------------------------------
(* Where threads are.  OnePlace and NoThreadLost need two facts to be      *)
(* inductive: nobody is blocked while the system boots, and inside the     *)
(* timer handler the interrupted thread is back on the ready list.         *)
Known ==
    /\ Items(thr_ready) \cup Blocked \subseteq Threads
    /\ mode = "boot" => Blocked = {} /\ thr_current \in thr_threads

Requeued == FALSE \notin Alloc /\ mode = "irq" => thr_current \in Items(thr_ready)

Placement == OnePlace /\ NoThreadLost /\ Known /\ Requeued

(* Placement holds at boot. *)
LEMMA InitPlacement == Init => Placement
<1> SUFFICES ASSUME Init PROVE Placement
  OBVIOUS
<1>1. Items(thr_ready) = {Null} /\ NoDuplicates(thr_ready)
  BY DEF Init, Items, NoDuplicates
<1>2. Sleepers = {} /\ OneEntryEach(thr_sleep)
  BY DEF Init, Sleepers, EntryThreads, OneEntryEach
<1>3. \A s \in Sems : Waiters(s) = {} /\ NoDuplicates(wait_list[s])
  BY DEF Init, Waiters, Items, NoDuplicates
<1>4. Blocked = {}
  BY <1>2, <1>3 DEF Blocked
<1> QED
  BY <1>1, <1>2, <1>3, <1>4, ThreadsAssumption
     DEF Init, Placement, OnePlace, NoThreadLost, Known, Requeued

(* The steps that block the running thread: it goes to the sleep list or   *)
(* to a wait list, or is lost when memory runs out, and the CPU goes to    *)
(* the first ready thread.                                                 *)
LEMMA BlockPlacement ==
    ASSUME TypeInv, Placement, mode = "run", thr_current # Null, Resched(thr_ready),
           NEW X, X \subseteq {thr_current}, FALSE \notin Alloc => X = {thr_current},
           Blocked' = Blocked \cup X, thr_threads' = thr_threads
    PROVE  /\ NoDuplicates(thr_ready')
           /\ Items(thr_ready') \cap Blocked' = {}
           /\ thr_current' \notin Blocked'
           /\ thr_current' \notin Items(thr_ready')
           /\ NoThreadLost' /\ Known' /\ Requeued'
<1>1. /\ NoDuplicates(thr_ready')
      /\ thr_current' \notin Items(thr_ready')
      /\ thr_current' \in Items(thr_ready) \cup {NULL}
      /\ Items(thr_ready') \subseteq Items(thr_ready)
      /\ mode' \in {"run", "crash"}
      /\ Items(thr_ready) # {} => /\ mode' = "run"
                                 /\ Items(thr_ready) = Items(thr_ready') \cup {thr_current'}
  BY ReschedPlaces DEF TypeInv, TypeOK, Placement, OnePlace
<1>2. thr_current \notin Items(thr_ready) /\ Items(thr_ready) \cap Blocked = {}
  BY DEF Placement, OnePlace
<1>3. thr_current \in Threads
  BY DEF TypeInv, TypeOK
<1>4. NULL \notin Blocked'
  BY <1>3, ThreadsAssumption DEF Placement, Known
<1>5. NoThreadLost'
  <2> SUFFICES ASSUME FALSE \notin Alloc PROVE NoThreadLost'
    BY DEF NoThreadLost
  <2>1. Null \in Items(thr_ready)
    BY DEF Placement, NoThreadLost
  <2>2. mode' = "run" /\ Items(thr_ready) = Items(thr_ready') \cup {thr_current'}
    BY <1>1, <2>1
  <2> QED  BY <2>1, <2>2 DEF Placement, NoThreadLost
<1>6. Known'
  <2>1. Items(thr_ready') \cup Blocked' \subseteq Threads
    BY <1>1, <1>3 DEF Placement, Known
  <2> QED  BY <1>1, <2>1 DEF Known
<1>7. Requeued'
  BY <1>1 DEF Requeued
<1> QED  BY <1>1, <1>2, <1>4, <1>5, <1>6, <1>7

(* The sleepers depend on the sleep list only, *)
LEMMA SleepersSame == thr_sleep' = thr_sleep => Sleepers' = Sleepers
BY DEF Sleepers

(* the waiters on the wait lists only, *)
LEMMA WaitersSame ==
    wait_list' = wait_list => \A s \in Sems : Waiters(s)' = Waiters(s)
BY DEF Waiters

(* and the blocked threads on both. *)
LEMMA BlockedSame ==
    thr_sleep' = thr_sleep /\ wait_list' = wait_list => Blocked' = Blocked
BY SleepersSame, WaitersSame DEF Blocked

(* Steps that move no thread.                                              *)
LEMMA StillPlacement ==
    ASSUME Placement, thr_threads' = thr_threads, thr_current' = thr_current, lists' = lists,
           mode' = mode \/ mode' = "panic" \/ (mode = "boot" /\ mode' = "run")
    PROVE  Placement'
<1>1. Blocked' = Blocked /\ Sleepers' = Sleepers /\ \A s \in Sems : Waiters(s)' = Waiters(s)
  BY SleepersSame, WaitersSame, BlockedSame DEF lists
<1>2. UNCHANGED <<thr_threads, thr_current, thr_ready, thr_sleep, wait_list>>
  BY DEF lists
<1>3. OnePlace'
  BY <1>1, <1>2 DEF Placement, OnePlace
<1>4. NoThreadLost' /\ Known' /\ Requeued'
  BY <1>1, <1>2 DEF Placement, NoThreadLost, Known, Requeued
<1> QED  BY <1>3, <1>4 DEF Placement

(* No step puts a thread in two places. *)
LEMMA NextPlacement == TypeInv /\ Placement /\ [Next]_vars => Placement'
<1> SUFFICES ASSUME TypeInv, Placement, [Next]_vars PROVE Placement'
  OBVIOUS
<1>t. /\ thr_ready \in Seq(Threads)
      /\ thr_sleep \in Seq(SleepEntry)
      /\ wait_list \in [Sems -> Seq(Threads)]
      /\ mode # "crash" => thr_current \in Threads
  BY DEF TypeInv, TypeOK
<1>1. ASSUME NEW t \in Threads, NewThread(t) PROVE Placement'
  <2>1. /\ t \notin thr_threads \cup Items(thr_ready) /\ mode = "boot"
        /\ Blocked' = Blocked /\ Sleepers' = Sleepers
        /\ \A s \in Sems : Waiters(s)' = Waiters(s)
    BY <1>1, SleepersSame, WaitersSame, BlockedSame DEF NewThread
  <2>2. t \notin Items(thr_ready) /\ Blocked = {} /\ t # thr_current
    BY <2>1 DEF Placement, Known
  <2>3. PICK listed \in Alloc, ok \in Alloc :
           /\ thr_threads' = IF listed THEN thr_threads \cup {t} ELSE thr_threads
           /\ thr_ready' = IF ok THEN OlistAdd(thr_ready, t, ByPriority) ELSE thr_ready
           /\ mode' = IF ok THEN mode ELSE "panic"
           /\ UNCHANGED <<thr_current, thr_sleep, wait_list>>
    BY <1>1, AllocAssumption DEF NewThread
  <2>4. /\ NoDuplicates(thr_ready')
        /\ Items(thr_ready') = IF ok THEN Items(thr_ready) \cup {t} ELSE Items(thr_ready)
    BY <1>t, <2>2, <2>3, ReadyAdd DEF Placement, OnePlace
  <2>5. OnePlace'
    BY <2>1, <2>2, <2>3, <2>4 DEF Placement, OnePlace
  <2>6. NoThreadLost' /\ Known' /\ Requeued'
    BY <2>1, <2>2, <2>3, <2>4, AllocAssumption DEF Placement, NoThreadLost, Known, Requeued
  <2> QED  BY <2>5, <2>6 DEF Placement
<1>2. CASE EnableInterrupts
  BY <1>2, StillPlacement DEF EnableInterrupts
<1>3. CASE TimerEnter
  <2>1. /\ Blocked' = Blocked /\ Sleepers' = Sleepers
        /\ \A s \in Sems : Waiters(s)' = Waiters(s)
    BY <1>3, SleepersSame, WaitersSame, BlockedSame DEF TimerEnter
  <2>2. thr_current \in Threads /\ thr_current \notin Items(thr_ready) /\ thr_current \notin Blocked
    BY <1>3, <1>t DEF TimerEnter, Placement, OnePlace
  <2>4. PICK ok \in Alloc :
           thr_ready' = IF ok THEN OlistAdd(thr_ready, thr_current, ByPriority) ELSE thr_ready
    BY <1>3 DEF TimerEnter
  <2>5. /\ NoDuplicates(thr_ready')
        /\ Items(thr_ready') = IF ok THEN Items(thr_ready) \cup {thr_current} ELSE Items(thr_ready)
    BY <1>t, <2>2, <2>4, ReadyAdd DEF Placement, OnePlace
  <2>6. OnePlace'
    BY <1>3, <2>1, <2>2, <2>5 DEF Placement, OnePlace, TimerEnter
  <2>7. NoThreadLost' /\ Known' /\ Requeued'
    BY <1>3, <2>1, <2>2, <2>5, AllocAssumption
       DEF Placement, NoThreadLost, Known, Requeued, TimerEnter
  <2> QED  BY <2>6, <2>7 DEF Placement
<1>4. CASE WakeOne
  <2> DEFINE t == Head(thr_sleep).thread
  <2>1. /\ thr_sleep # <<>> /\ thr_sleep' = Tail(thr_sleep)
        /\ wait_list' = wait_list
        /\ UNCHANGED <<thr_threads, thr_current>>
        /\ mode = "irq"
    BY <1>4 DEF WakeOne, SleeperDue
  <2>2. /\ t \in Sleepers
        /\ Sleepers = Sleepers' \cup {t}
        /\ OneEntryEach(thr_sleep') /\ t \notin Sleepers'
    BY <1>t, <2>1, SleepTailThreads DEF Placement, OnePlace, Sleepers
  <2>3. t \in Threads
    <3>1. Head(thr_sleep) \in SleepEntry
      BY <1>t, <2>1, TailItems
    <3> QED  BY <3>1 DEF SleepEntry
  <2>4. \A s \in Sems : Waiters(s)' = Waiters(s)
    BY <2>1, WaitersSame
  <2>5. Blocked = Blocked' \cup {t}
    BY <2>2, <2>4 DEF Blocked
  <2>6. t \notin Blocked' /\ t \notin Items(thr_ready) /\ t # thr_current
    BY <2>2, <2>4 DEF Blocked, Placement, OnePlace
  <2>7. PICK ok \in Alloc :
           /\ thr_ready' = IF ok THEN OlistAdd(thr_ready, t, ByPriority) ELSE thr_ready
           /\ mode' = IF ok THEN mode ELSE "panic"
    BY <1>4, AllocAssumption DEF WakeOne
  <2>8. /\ NoDuplicates(thr_ready')
        /\ Items(thr_ready') = IF ok THEN Items(thr_ready) \cup {t} ELSE Items(thr_ready)
    BY <1>t, <2>3, <2>6, <2>7, ReadyAdd DEF Placement, OnePlace
  <2> HIDE DEF t
  <2>9. OnePlace'
    <3>1. \A s \in Sems : NoDuplicates(wait_list'[s])
      BY <2>1 DEF Placement, OnePlace
    <3>2. \A r, s \in Sems : r # s => Waiters(r)' \cap Waiters(s)' = {}
      BY <2>4 DEF Placement, OnePlace
    <3>3. Items(thr_ready') \cap Blocked' = {}
      BY <2>5, <2>6, <2>8 DEF Placement, OnePlace
    <3>4. \A s \in Sems : Sleepers' \cap Waiters(s)' = {}
      BY <2>2, <2>4 DEF Placement, OnePlace
    <3>5. thr_current' \notin Blocked' /\ mode' \in {"irq", "panic"}
      BY <2>1, <2>5, <2>7 DEF Placement, OnePlace
    <3> QED  BY <2>2, <2>8, <3>1, <3>2, <3>3, <3>4, <3>5 DEF OnePlace
  <2>10. NoThreadLost'
    BY <2>1, <2>5, <2>7, <2>8, AllocAssumption DEF Placement, NoThreadLost
  <2>11. Known' /\ Requeued'
    BY <2>1, <2>5, <2>7, <2>8 DEF Placement, Known, Requeued
  <2> QED  BY <2>9, <2>10, <2>11 DEF Placement
<1>5. CASE TimerExit
  <2>1. /\ Blocked' = Blocked /\ Sleepers' = Sleepers
        /\ \A s \in Sems : Waiters(s)' = Waiters(s)
    BY <1>5, SleepersSame, WaitersSame, BlockedSame DEF TimerExit
  <2>2. /\ NoDuplicates(thr_ready')
        /\ thr_current' \notin Items(thr_ready')
        /\ thr_current' \in Items(thr_ready) \cup {NULL}
        /\ Items(thr_ready') \subseteq Items(thr_ready)
        /\ mode' \in {"run", "crash"}
        /\ Items(thr_ready) # {} => /\ mode' = "run"
                                   /\ Items(thr_ready) = Items(thr_ready') \cup {thr_current'}
    BY <1>5, <1>t, ReschedPlaces DEF TimerExit, Placement, OnePlace
  <2>3. NULL \notin Blocked
    BY ThreadsAssumption DEF Placement, Known, TypeInv, TypeOK
  <2>4. OnePlace'
    BY <1>5, <2>1, <2>2, <2>3 DEF TimerExit, Placement, OnePlace
  <2>5. NoThreadLost'
    <3> SUFFICES ASSUME FALSE \notin Alloc PROVE NoThreadLost'
      BY DEF NoThreadLost
    <3>1. thr_current \in Items(thr_ready)
      BY <1>5 DEF TimerExit, Placement, Requeued
    <3>2. mode' = "run" /\ Items(thr_ready) = Items(thr_ready') \cup {thr_current'}
      BY <2>2, <3>1
    <3> QED  BY <1>5, <2>1, <3>1, <3>2 DEF TimerExit, Placement, NoThreadLost
  <2>6. Known' /\ Requeued'
    BY <1>5, <2>1, <2>2 DEF TimerExit, Placement, Known, Requeued
  <2> QED  BY <2>4, <2>5, <2>6 DEF Placement
<1>6. ASSUME NEW a \in SleepArgs, SleepQueued(a[1], a[2]) PROVE Placement'
  <2>1. PICK targ_ticks \in TargTicks(a[1], a[2]), ok \in Alloc :
           thr_sleep' = IF ok THEN OlistAdd(thr_sleep, [thread |-> thr_current, time |-> targ_ticks], ByTime)
                        ELSE thr_sleep
    BY <1>6 DEF SleepQueued
  <2> DEFINE e == [thread |-> thr_current, time |-> targ_ticks]
             X == IF ok THEN {thr_current} ELSE {}
  <2>2. mode = "run" /\ thr_current # Null /\ thr_current \in Threads /\ Resched(thr_ready)
        /\ UNCHANGED <<thr_threads, wait_list>>
    BY <1>6, <1>t DEF SleepQueued
  <2>3. e \in SleepEntry /\ e.thread = thr_current
    BY <2>2, TargTicksType DEF SleepEntry, TypeInv, TypeOK
  <2>4. thr_current \notin Blocked /\ thr_current \notin Sleepers
    BY DEF Placement, OnePlace, Blocked
  <2> HIDE DEF e
  <2>5. Sleepers' = Sleepers \cup X /\ OneEntryEach(thr_sleep')
    BY <1>t, <2>1, <2>3, <2>4, SleepAddThreads DEF Placement, OnePlace, Sleepers, e
  <2>6. \A s \in Sems : Waiters(s)' = Waiters(s)
    BY <2>2, WaitersSame
  <2>7. Blocked' = Blocked \cup X
    BY <2>5, <2>6 DEF Blocked
  <2>8. X \subseteq {thr_current} /\ (FALSE \notin Alloc => X = {thr_current})
    BY AllocAssumption
  <2> HIDE DEF X
  <2>9. /\ NoDuplicates(thr_ready')
        /\ Items(thr_ready') \cap Blocked' = {}
        /\ thr_current' \notin Blocked'
        /\ thr_current' \notin Items(thr_ready')
        /\ NoThreadLost' /\ Known' /\ Requeued'
    BY <2>2, <2>7, <2>8, BlockPlacement
  <2>10. \A s \in Sems : Sleepers' \cap Waiters(s)' = {}
    BY <2>4, <2>5, <2>6, <2>8 DEF Placement, OnePlace, Blocked
  <2>11. OnePlace'
    BY <2>2, <2>5, <2>6, <2>9, <2>10 DEF Placement, OnePlace
  <2> QED  BY <2>9, <2>11 DEF Placement
<1>7. CASE SleepPanics
  <2>1. thr_threads' = thr_threads /\ thr_current' = thr_current /\ lists' = lists /\ mode' = "panic"
    BY <1>7 DEF SleepPanics
  <2> QED  BY <2>1, StillPlacement
<1>8. ASSUME NEW s \in Sems, SemTake(s) PROVE Placement'
  BY <1>8, StillPlacement DEF SemTake
<1>9. ASSUME NEW s \in Sems, SemBlock(s) PROVE Placement'
  <2>1. PICK ok \in Alloc :
           wait_list' = [wait_list EXCEPT ![s] = IF ok THEN Append(@, thr_current) ELSE @]
    BY <1>9 DEF SemBlock
  <2> DEFINE X == IF ok THEN {thr_current} ELSE {}
  <2>2. mode = "run" /\ thr_current # Null /\ thr_current \in Threads /\ Resched(thr_ready)
        /\ UNCHANGED <<thr_threads, thr_sleep>>
    BY <1>9, <1>t DEF SemBlock
  <2>3. thr_current \notin Blocked /\ \A r \in Sems : thr_current \notin Waiters(r)
    BY DEF Placement, OnePlace, Blocked
  <2>4. Waiters(s)' = Waiters(s) \cup X /\ NoDuplicates(wait_list'[s])
    BY <1>t, <2>1, <2>2, <2>3, AppendItems DEF Waiters, Placement, OnePlace
  <2>5. \A r \in Sems : r # s => wait_list'[r] = wait_list[r] /\ Waiters(r)' = Waiters(r)
    BY <1>t, <2>1 DEF Waiters
  <2>6. Sleepers' = Sleepers
    BY <2>2, SleepersSame
  <2>7. Blocked' = Blocked \cup X
    BY <2>4, <2>5, <2>6 DEF Blocked
  <2>8. X \subseteq {thr_current} /\ (FALSE \notin Alloc => X = {thr_current})
    BY AllocAssumption
  <2> HIDE DEF X
  <2>9. /\ NoDuplicates(thr_ready')
        /\ Items(thr_ready') \cap Blocked' = {}
        /\ thr_current' \notin Blocked'
        /\ thr_current' \notin Items(thr_ready')
        /\ NoThreadLost' /\ Known' /\ Requeued'
    BY <2>2, <2>7, <2>8, BlockPlacement
  <2>10. \A r \in Sems : Sleepers' \cap Waiters(r)' = {}
    BY <2>3, <2>4, <2>5, <2>6, <2>8 DEF Placement, OnePlace, Blocked
  <2>11. \A q, r \in Sems : q # r => Waiters(q)' \cap Waiters(r)' = {}
    BY <2>3, <2>4, <2>5, <2>8 DEF Placement, OnePlace
  <2>12. \A r \in Sems : NoDuplicates(wait_list'[r])
    BY <2>4, <2>5 DEF Placement, OnePlace
  <2>13. OneEntryEach(thr_sleep')
    BY <2>2 DEF Placement, OnePlace
  <2>14. OnePlace'
    BY <2>9, <2>10, <2>11, <2>12, <2>13 DEF OnePlace
  <2> QED  BY <2>9, <2>14 DEF Placement
<1>10. ASSUME NEW s \in Sems, SemHandOver(s) PROVE Placement'
  <2> DEFINE t == Head(wait_list[s])
  <2>1. /\ wait_list[s] # <<>>
        /\ wait_list' = [wait_list EXCEPT ![s] = Tail(@)]
        /\ UNCHANGED <<mode, thr_threads, thr_current, thr_sleep>>
        /\ mode = "run"
    BY <1>10 DEF SemHandOver
  <2>2. PICK ok \in Alloc :
           thr_ready' = IF ok THEN OlistAdd(thr_ready, t, ByPriority) ELSE thr_ready
    BY <1>10 DEF SemHandOver
  <2>3. /\ t \in Threads /\ t \in Waiters(s)
        /\ Waiters(s) = Waiters(s)' \cup {t}
        /\ t \notin Waiters(s)'
        /\ NoDuplicates(wait_list'[s])
    BY <1>t, <2>1, TailItems, TailNoDuplicates DEF Waiters, Placement, OnePlace
  <2>4. \A r \in Sems : r # s => wait_list'[r] = wait_list[r] /\ Waiters(r)' = Waiters(r)
    BY <1>t, <2>1 DEF Waiters
  <2>5. Sleepers' = Sleepers
    BY <2>1, SleepersSame
  <2> HIDE DEF t
  <2>6. Blocked = Blocked' \cup {t}
    BY <2>3, <2>4, <2>5 DEF Blocked
  <2>7. t \notin Items(thr_ready) /\ t # thr_current /\ t \in Blocked
    BY <2>3 DEF Blocked, Placement, OnePlace
  <2>8. t \notin Blocked'
    BY <2>3, <2>4, <2>5 DEF Blocked, Placement, OnePlace
  <2>9. /\ NoDuplicates(thr_ready')
        /\ Items(thr_ready') = IF ok THEN Items(thr_ready) \cup {t} ELSE Items(thr_ready)
    BY <1>t, <2>2, <2>3, <2>7, ReadyAdd DEF Placement, OnePlace
  <2>10. OnePlace'
    <3>1. \A r \in Sems : NoDuplicates(wait_list'[r])
      BY <2>3, <2>4 DEF Placement, OnePlace
    <3>2. \A q, r \in Sems : q # r => Waiters(q)' \cap Waiters(r)' = {}
      BY <2>3, <2>4 DEF Placement, OnePlace
    <3>3. Items(thr_ready') \cap Blocked' = {}
      BY <2>6, <2>8, <2>9 DEF Placement, OnePlace
    <3>4. \A r \in Sems : Sleepers' \cap Waiters(r)' = {}
      BY <2>3, <2>4, <2>5 DEF Placement, OnePlace
    <3>5. /\ thr_current' \notin Blocked'
          /\ thr_current' \notin Items(thr_ready')
      BY <2>1, <2>6, <2>7, <2>9 DEF Placement, OnePlace
    <3>6. OneEntryEach(thr_sleep')
      BY <2>1 DEF Placement, OnePlace
    <3> QED  BY <2>9, <3>1, <3>2, <3>3, <3>4, <3>5, <3>6 DEF OnePlace
  <2>11. NoThreadLost'
    BY <2>1, <2>6, <2>9, AllocAssumption DEF Placement, NoThreadLost
  <2>12. Known' /\ Requeued'
    BY <2>1, <2>6, <2>7, <2>9 DEF Placement, Known, Requeued
  <2> QED  BY <2>10, <2>11, <2>12 DEF Placement
<1>11. ASSUME NEW s \in Sems, SemPost(s) PROVE Placement'
  BY <1>11, StillPlacement DEF SemPost
<1>12. CASE UNCHANGED vars
  <2>1. thr_threads' = thr_threads /\ thr_current' = thr_current /\ lists' = lists /\ mode' = mode
    BY <1>12 DEF vars
  <2> QED  BY <2>1, StillPlacement
<1> QED
  BY <1>1, <1>2, <1>3, <1>4, <1>5, <1>6, <1>7, <1>8, <1>9, <1>10, <1>11, <1>12
     DEF Next, OtherStep, Timer, Sleep

(* A thread is in one place at a time, also when memory runs out.          *)
THEOREM OnePlaceAlways == Spec => []OnePlace
<1>1. TypeInv /\ Placement /\ [Next]_vars => TypeInv' /\ Placement'
  BY NextTypeInv, NextPlacement
<1>2. Init => TypeInv /\ Placement
  BY InitTypeInv, InitPlacement
<1>3. Placement => OnePlace
  BY DEF Placement
<1> QED  BY <1>1, <1>2, <1>3, PTL DEF Spec

(* While memory lasts no thread is lost and resched always finds a thread. *)
THEOREM NoThreadLostEver == Spec => []NoThreadLost
<1>1. TypeInv /\ Placement /\ [Next]_vars => TypeInv' /\ Placement'
  BY NextTypeInv, NextPlacement
<1>2. Init => TypeInv /\ Placement
  BY InitTypeInv, InitPlacement
<1>3. Placement => NoThreadLost
  BY DEF Placement
<1> QED  BY <1>1, <1>2, <1>3, PTL DEF Spec

-----------------------------------------------------------------------------
(* Order of the lists.                                                     *)
LEMMA ByPriorityDescends ==
    \A t, u \in Threads : ByPriority[t] <= ByPriority[u] => Priority[u] <= Priority[t]
<1> SUFFICES ASSUME NEW t \in Threads, NEW u \in Threads, ByPriority[t] <= ByPriority[u]
             PROVE  Priority[u] <= Priority[t]
  OBVIOUS
<1>1. Priority[t] \in 0 .. 255 /\ Priority[u] \in 0 .. 255
  BY PriorityAssumption
<1>2. ByPriority[t] = -Priority[t] /\ ByPriority[u] = -Priority[u]
  BY DEF ByPriority
<1>3. \A p, q \in 0 .. 255 : -p <= -q => q <= p
  OBVIOUS
<1> QED  BY <1>1, <1>2, <1>3

(* resched takes a thread of the highest priority. *)
LEMMA ReschedOrdered ==
    ASSUME thr_ready \in Seq(Threads), Ordered(thr_ready, ByPriority), Resched(thr_ready)
    PROVE  /\ Ordered(thr_ready', ByPriority)
           /\ mode' \in {"run", "crash"}
           /\ \A t \in Items(thr_ready') : Priority[t] <= Priority[thr_current']
<1>1. CASE thr_ready # <<>>
  <2>1. thr_ready' = Tail(thr_ready) /\ thr_current' = Head(thr_ready) /\ mode' = "run"
    BY <1>1 DEF Resched
  <2>2. /\ Ordered(thr_ready', ByPriority)
        /\ \A x \in Items(thr_ready) : ByPriority[thr_current'] <= ByPriority[x]
    BY <1>1, <2>1, KeyTypes, TailOrdered
  <2>3. /\ thr_current' \in Threads
        /\ Items(thr_ready') \subseteq Items(thr_ready)
    BY <1>1, <2>1, TailItems
  <2>4. Items(thr_ready) \subseteq Threads
    BY DEF Items
  <2>5. ASSUME NEW t \in Items(thr_ready') PROVE Priority[t] <= Priority[thr_current']
    <3>1. t \in Threads /\ ByPriority[thr_current'] <= ByPriority[t]
      BY <2>2, <2>3, <2>4, <2>5
    <3> QED  BY <2>3, <3>1, ByPriorityDescends
  <2> QED  BY <2>1, <2>2, <2>5
<1>2. CASE thr_ready = <<>>
  BY <1>2 DEF Resched, Items
<1> QED  BY <1>1, <1>2

(* The empty lists are ordered. *)
LEMMA InitOrdered == Init => ListsOrdered
BY DEF Init, ListsOrdered, Ordered

(* Every step keeps both lists ordered. *)
LEMMA NextOrdered == TypeInv /\ ListsOrdered /\ [Next]_vars => ListsOrdered'
<1> SUFFICES ASSUME TypeInv, ListsOrdered, [Next]_vars PROVE ListsOrdered'
  OBVIOUS
<1>t. /\ thr_ready \in Seq(Threads) /\ Ordered(thr_ready, ByPriority)
      /\ thr_sleep \in Seq(SleepEntry) /\ Ordered(thr_sleep, ByTime)
      /\ wait_list \in [Sems -> Seq(Threads)]
      /\ mode # "crash" => thr_current \in Threads
  BY DEF TypeInv, TypeOK, ListsOrdered
<1>1. ASSUME NEW t \in Threads, NewThread(t) PROVE ListsOrdered'
  BY <1>1, <1>t, ReadyAdd DEF NewThread, ListsOrdered
<1>2. CASE TimerEnter
  <2>1. Ordered(thr_ready', ByPriority)
    BY <1>2, <1>t, ReadyAdd DEF TimerEnter
  <2> QED  BY <1>2, <1>t, <2>1 DEF TimerEnter, ListsOrdered
<1>3. CASE WakeOne
  <2>1. thr_sleep # <<>> /\ Head(thr_sleep) \in SleepEntry /\ thr_sleep' = Tail(thr_sleep)
    BY <1>3, <1>t, TailItems DEF WakeOne, SleeperDue
  <2>2. Head(thr_sleep).thread \in Threads
    BY <2>1 DEF SleepEntry
  <2>3. Ordered(thr_ready', ByPriority)
    BY <1>3, <1>t, <2>2, ReadyAdd DEF WakeOne
  <2>4. Ordered(thr_sleep', ByTime)
    BY <1>t, <2>1, KeyTypes, TailOrdered
  <2> QED  BY <2>3, <2>4 DEF ListsOrdered
<1>4. CASE TimerExit
  BY <1>4, <1>t, ReschedOrdered DEF TimerExit, ListsOrdered
<1>5. ASSUME NEW a \in SleepArgs, SleepQueued(a[1], a[2]) PROVE ListsOrdered'
  <2>1. PICK targ_ticks \in TargTicks(a[1], a[2]), ok \in Alloc :
           thr_sleep' = IF ok THEN OlistAdd(thr_sleep, [thread |-> thr_current, time |-> targ_ticks], ByTime)
                        ELSE thr_sleep
    BY <1>5 DEF SleepQueued
  <2>2. [thread |-> thr_current, time |-> targ_ticks] \in SleepEntry
    BY <1>5, <1>t, TargTicksType DEF SleepQueued, SleepEntry, TypeInv, TypeOK
  <2>3. Ordered(thr_sleep', ByTime)
    BY <1>t, <2>1, <2>2, SleepAdd
  <2> QED  BY <1>5, <1>t, <2>3, ReschedOrdered DEF SleepQueued, ListsOrdered
<1>6. ASSUME NEW s \in Sems, SemBlock(s) PROVE ListsOrdered'
  BY <1>6, <1>t, ReschedOrdered DEF SemBlock, ListsOrdered
<1>7. ASSUME NEW s \in Sems, SemHandOver(s) PROVE ListsOrdered'
  <2>1. Head(wait_list[s]) \in Threads
    BY <1>7, <1>t, TailItems DEF SemHandOver
  <2>2. Ordered(thr_ready', ByPriority)
    BY <1>7, <1>t, <2>1, ReadyAdd DEF SemHandOver
  <2> QED  BY <1>7, <1>t, <2>2 DEF SemHandOver, ListsOrdered
<1>8. CASE UNCHANGED lists
  BY <1>8, <1>t DEF lists, ListsOrdered
<1>9. \/ EnableInterrupts \/ SleepPanics \/ UNCHANGED vars
      \/ \E s \in Sems : SemTake(s) \/ SemPost(s)
      => UNCHANGED lists
  BY DEF EnableInterrupts, SleepPanics, SemTake, SemPost, vars
<1> QED
  BY <1>1, <1>2, <1>3, <1>4, <1>5, <1>6, <1>7, <1>8, <1>9 DEF Next, OtherStep, Timer, Sleep

(* olist_add keeps the ready list and the sleep list in order.             *)
THEOREM ListsOrderedAlways == Spec => []ListsOrdered
<1>1. TypeInv /\ ListsOrdered /\ [Next]_vars => TypeInv' /\ ListsOrdered'
  BY NextTypeInv, NextOrdered
<1>2. Init => TypeInv /\ ListsOrdered
  BY InitTypeInv, InitOrdered
<1> QED  BY <1>1, <1>2, PTL DEF Spec

(* The timer handler leaves no sleeper on the list whose time has come,    *)
(* though it looks at the first one only: the list is in order.            *)
THEOREM NoOneOversleepsEver == Spec => NoOneOversleeps
<1> DEFINE Left == mode = "irq" /\ mode' = "run"
                   => \A i \in 1 .. Len(thr_sleep') : thr_sleep'[i].time > time_ticks'
<1>1. ASSUME TypeInv, ListsOrdered, [Next]_vars PROVE Left
  <2> SUFFICES ASSUME mode = "irq", mode' = "run", NEW i \in 1 .. Len(thr_sleep')
               PROVE  thr_sleep'[i].time > time_ticks'
    OBVIOUS
  <2>1. CASE TimerExit
    <3>1. thr_sleep' = thr_sleep /\ time_ticks' = time_ticks /\ ~SleeperDue
      BY <2>1 DEF TimerExit
    <3>2. thr_sleep \in Seq(SleepEntry) /\ i \in 1 .. Len(thr_sleep)
      BY <1>1, <3>1 DEF TypeInv, TypeOK
    <3>3. thr_sleep # <<>> /\ Head(thr_sleep) = thr_sleep[1] /\ 1 \in 1 .. Len(thr_sleep)
      BY <3>2
    <3>4. thr_sleep[1] \in SleepEntry /\ thr_sleep[i] \in SleepEntry
      BY <3>2, <3>3
    <3>5. thr_sleep[1].time \in Nat /\ thr_sleep[i].time \in Nat /\ time_ticks \in Nat
      <4>1. \A e \in SleepEntry : e.time \in Ticks
        BY DEF SleepEntry
      <4>2. time_ticks \in Ticks
        BY <1>1 DEF TypeInv, TypeOK
      <4> QED  BY <3>4, <4>1, <4>2, TicksNat
    <3>6. thr_sleep[1].time > time_ticks
      BY <3>1, <3>2, <3>3, <3>5 DEF SleeperDue
    <3>7. ByTime[thr_sleep[1]] = thr_sleep[1].time /\ ByTime[thr_sleep[i]] = thr_sleep[i].time
      BY <3>4 DEF ByTime
    <3>8. i = 1 \/ ByTime[thr_sleep[1]] <= ByTime[thr_sleep[i]]
      <4>1. i = 1 \/ 1 < i
        BY <3>2
      <4>2. \A j, k \in 1 .. Len(thr_sleep) :
               j < k => ByTime[thr_sleep[j]] <= ByTime[thr_sleep[k]]
        BY <1>1 DEF ListsOrdered, Ordered
      <4> QED  BY <3>2, <3>3, <4>1, <4>2
    <3> QED  BY <3>1, <3>5, <3>6, <3>7, <3>8
  <2>2. CASE ~TimerExit
    <3>1. CASE WakeOne
      BY <3>1 DEF WakeOne
    <3>2. CASE UNCHANGED vars
      BY <3>2 DEF vars
    <3>3. ~EnableInterrupts /\ ~TimerEnter /\ ~SleepPanics /\ \A t \in Threads : ~NewThread(t)
      BY DEF NewThread, EnableInterrupts, TimerEnter, SleepPanics
    <3>4. \A a \in SleepArgs : ~Sleep(a[1], a[2])
      BY DEF Sleep, SleepQueued, SleepPanics
    <3>5. \A s \in Sems : ~SemTake(s) /\ ~SemBlock(s) /\ ~SemHandOver(s) /\ ~SemPost(s)
      BY DEF SemTake, SemBlock, SemHandOver, SemPost
    <3> QED  BY <1>1, <2>2, <3>1, <3>2, <3>3, <3>4, <3>5 DEF Next, OtherStep, Timer, Sleep
  <2> QED  BY <2>1, <2>2
<1>2. TypeInv /\ ListsOrdered /\ [Next]_vars => TypeInv' /\ ListsOrdered'
  BY NextTypeInv, NextOrdered
<1>3. Init => TypeInv /\ ListsOrdered
  BY InitTypeInv, InitOrdered
<1>4. TypeInv /\ ListsOrdered /\ [Next]_vars => [Left]_vars
  BY <1>1
<1> QED  BY <1>2, <1>3, <1>4, PTL DEF Spec, NoOneOversleeps
-----------------------------------------------------------------------------
(* At boot nobody waits. *)
LEMMA InitNoLostWakeup == Init => NoLostWakeup
BY DEF Init, NoLostWakeup

(* No step leaves a waiter beside a count. *)
LEMMA NextNoLostWakeup == TypeInv /\ NoLostWakeup /\ [Next]_vars => NoLostWakeup'
<1> SUFFICES ASSUME TypeInv, NoLostWakeup, [Next]_vars PROVE NoLostWakeup'
  OBVIOUS
<1>t. count \in [Sems -> Nat] /\ wait_list \in [Sems -> Seq(Threads)]
  BY DEF TypeInv, TypeOK
<1>1. ASSUME NEW s \in Sems, SemTake(s) PROVE NoLostWakeup'
  BY <1>1, <1>t DEF SemTake, lists, NoLostWakeup
<1>2. ASSUME NEW s \in Sems, SemBlock(s) PROVE NoLostWakeup'
  BY <1>2, <1>t DEF SemBlock, NoLostWakeup
<1>3. ASSUME NEW s \in Sems, SemHandOver(s) PROVE NoLostWakeup'
  BY <1>3, <1>t DEF SemHandOver, NoLostWakeup
<1>4. ASSUME NEW s \in Sems, SemPost(s) PROVE NoLostWakeup'
  BY <1>4, <1>t DEF SemPost, lists, NoLostWakeup
<1>5. CASE UNCHANGED <<count, wait_list>>
  BY <1>5 DEF NoLostWakeup
<1>6. \/ \E t \in Threads : NewThread(t)
      \/ EnableInterrupts \/ TimerEnter \/ WakeOne \/ TimerExit
      \/ \E a \in SleepArgs : SleepQueued(a[1], a[2])
      \/ SleepPanics \/ UNCHANGED vars
      => UNCHANGED <<count, wait_list>>
  BY DEF NewThread, EnableInterrupts, TimerEnter, WakeOne, TimerExit, SleepQueued,
         SleepPanics, vars, lists
<1> QED  BY <1>1, <1>2, <1>3, <1>4, <1>5, <1>6 DEF Next, OtherStep, Timer, Sleep

(* A release is never counted while a thread waits for it.                 *)
THEOREM NoLostWakeupEver == Spec => []NoLostWakeup
<1>1. TypeInv /\ NoLostWakeup /\ [Next]_vars => TypeInv' /\ NoLostWakeup'
  BY NextTypeInv, NextNoLostWakeup
<1>2. Init => TypeInv /\ NoLostWakeup
  BY InitTypeInv, InitNoLostWakeup
<1> QED  BY <1>1, <1>2, PTL DEF Spec
-----------------------------------------------------------------------------
(* The state field.  While the system boots it is as thr_init left it.     *)
BootStates ==
    mode = "boot" => /\ Main \in thr_threads
                     /\ \A t \in Threads : t # Main => state[t] = "SUSP"

(* At boot each state field is right. *)
LEMMA InitStateAgrees == Init => StateAgrees /\ BootStates
<1> SUFFICES ASSUME Init PROVE StateAgrees /\ BootStates
  OBVIOUS
<1>1. TypeOK /\ BootStates
  BY InitTypeInv DEF TypeInv, Init, BootStates
<1>2. Items(thr_ready) = {Null} /\ Sleepers = {} /\ \A s \in Sems : Waiters(s) = {}
  BY DEF Init, Items, Sleepers, EntryThreads, Waiters
<1>3. state[Null] = "SUSP" /\ state[Main] = "CURR" /\ thr_current = Main
  BY ThreadsAssumption DEF Init
<1> QED  BY <1>1, <1>2, <1>3 DEF StateAgrees

(* A step that puts at most the thread t, which it marks ready, on the     *)
(* ready list, blocks nobody, and leaves the CPU alone.                    *)
LEMMA ReadyStates ==
    ASSUME StateAgrees, TypeOK', NEW t \in Threads, state' = [state EXCEPT ![t] = "READY"],
           Items(thr_ready') \subseteq Items(thr_ready) \cup {t},
           Sleepers' \subseteq Sleepers \ {t},
           \A s \in Sems : Waiters(s)' \subseteq Waiters(s) \ {t},
           thr_current' = thr_current
    PROVE  StateAgrees'
<1>1. state'[t] = "READY" /\ \A u \in Threads : u # t => state'[u] = state[u]
  BY DEF StateAgrees, TypeOK
<1>2. Items(thr_ready) \subseteq Threads /\ Sleepers \subseteq Threads /\ \A s \in Sems : Waiters(s) \subseteq Threads
  <2>1. Items(thr_ready) \subseteq Threads /\ \A s \in Sems : Waiters(s) \subseteq Threads
    BY DEF StateAgrees, TypeOK, Items, Waiters
  <2>2. \A e \in SleepEntry : e.thread \in Threads
    BY DEF SleepEntry
  <2>3. Sleepers \subseteq Threads
    BY <2>2 DEF StateAgrees, TypeOK, Sleepers, EntryThreads
  <2> QED  BY <2>1, <2>3
<1> QED  BY <1>1, <1>2 DEF StateAgrees

(* A step that takes the running thread off the CPU, marks it, and runs    *)
(* the first ready thread.                                                 *)
LEMMA BlockStates ==
    ASSUME StateAgrees, TypeOK', OnePlace, mode = "run", thr_current \in Threads,
           NEW mark, state' = [state EXCEPT ![thr_current] = mark],
           Resched(thr_ready),
           \A u \in Sleepers' : u \in Sleepers \/ (u = thr_current /\ mark = "SLEEP"),
           \A s \in Sems : \A u \in Waiters(s)' : u \in Waiters(s) \/ (u = thr_current /\ mark = "SEM")
    PROVE  StateAgrees'
<1>1. state'[thr_current] = mark /\ \A u \in Threads : u # thr_current => state'[u] = state[u]
  BY DEF StateAgrees, TypeOK
<1>2. Items(thr_ready) \subseteq Threads /\ Sleepers \subseteq Threads /\ \A s \in Sems : Waiters(s) \subseteq Threads
  <2>1. Items(thr_ready) \subseteq Threads /\ \A s \in Sems : Waiters(s) \subseteq Threads
    BY DEF StateAgrees, TypeOK, Items, Waiters
  <2>2. \A e \in SleepEntry : e.thread \in Threads
    BY DEF SleepEntry
  <2>3. Sleepers \subseteq Threads
    BY <2>2 DEF StateAgrees, TypeOK, Sleepers, EntryThreads
  <2> QED  BY <2>1, <2>3
<1>3. /\ thr_current' \in Items(thr_ready) \cup {NULL}
      /\ Items(thr_ready') \subseteq Items(thr_ready)
  BY ReschedPlaces DEF StateAgrees, TypeOK, OnePlace
<1>4. /\ thr_current \notin Items(thr_ready) /\ thr_current \notin Sleepers
      /\ \A s \in Sems : thr_current \notin Waiters(s)
  BY DEF OnePlace, Blocked
<1> QED  BY <1>1, <1>2, <1>3, <1>4, ThreadsAssumption DEF StateAgrees

(* Every step that moves a thread sets its state field. *)
LEMMA NextStateAgrees ==
    TypeInv /\ Placement /\ StateAgrees /\ BootStates /\ [Next]_vars => StateAgrees' /\ BootStates'
<1> SUFFICES ASSUME TypeInv, Placement, StateAgrees, BootStates, [Next]_vars
             PROVE  StateAgrees' /\ BootStates'
  OBVIOUS
<1>t. /\ thr_ready \in Seq(Threads)
      /\ thr_sleep \in Seq(SleepEntry)
      /\ wait_list \in [Sems -> Seq(Threads)]
      /\ state \in [Threads -> {"CURR", "READY", "SEM", "SUSP", "SLEEP"}]
      /\ mode # "crash" => thr_current \in Threads
  BY DEF TypeInv, TypeOK
<1>p. TypeOK' /\ OnePlace
  BY NextTypeInv DEF TypeInv, Placement
<1>b. mode' = "boot" => mode = "boot" /\ thr_threads \subseteq thr_threads' /\ state' = state
  <2> SUFFICES ASSUME mode' = "boot"
               PROVE  mode = "boot" /\ thr_threads \subseteq thr_threads' /\ state' = state
    OBVIOUS
  <2>1. CASE \E t \in Threads : NewThread(t)
    BY <2>1 DEF NewThread
  <2>2. CASE UNCHANGED vars
    BY <2>2 DEF vars
  <2>3. ~EnableInterrupts /\ ~TimerEnter /\ ~WakeOne /\ ~TimerExit
    BY DEF EnableInterrupts, TimerEnter, WakeOne, TimerExit, Resched
  <2>4. \A a \in SleepArgs : ~Sleep(a[1], a[2])
    BY DEF Sleep, SleepQueued, SleepPanics, Resched
  <2>5. \A s \in Sems : ~SemTake(s) /\ ~SemBlock(s) /\ ~SemHandOver(s) /\ ~SemPost(s)
    BY DEF SemTake, SemBlock, SemHandOver, SemPost, Resched
  <2> QED  BY <2>1, <2>2, <2>3, <2>4, <2>5 DEF Next, OtherStep, Timer
<1>0. BootStates'
  BY <1>b DEF BootStates
<1>still. ASSUME UNCHANGED <<thr_current, thr_ready, thr_sleep, state, wait_list>> PROVE StateAgrees'
  <2>1. Sleepers' = Sleepers /\ \A s \in Sems : Waiters(s)' = Waiters(s)
    BY <1>still, SleepersSame, WaitersSame
  <2> QED  BY <1>p, <1>still, <2>1 DEF StateAgrees
<1>1. ASSUME NEW t \in Threads, NewThread(t) PROVE StateAgrees'
  <2>1. /\ Sleepers' = Sleepers /\ \A s \in Sems : Waiters(s)' = Waiters(s)
        /\ UNCHANGED <<thr_current, state>>
    BY <1>1, SleepersSame, WaitersSame DEF NewThread
  <2>2. Items(thr_ready') \subseteq Items(thr_ready) \cup {t}
    BY <1>1, <1>t, ReadyAdd DEF NewThread
  <2>3. state[t] = "SUSP"
    BY <1>1 DEF NewThread, BootStates
  <2> QED  BY <1>p, <2>1, <2>2, <2>3 DEF StateAgrees
<1>2. ASSUME EnableInterrupts PROVE StateAgrees'
  BY <1>2, <1>still DEF EnableInterrupts, lists
<1>3. ASSUME TimerEnter PROVE StateAgrees'
  <2>1. Sleepers' = Sleepers /\ \A s \in Sems : Waiters(s)' = Waiters(s)
    BY <1>3, SleepersSame, WaitersSame DEF TimerEnter
  <2>2. /\ thr_current \in Threads /\ thr_current \notin Sleepers
        /\ \A s \in Sems : thr_current \notin Waiters(s)
    BY <1>3, <1>t, <1>p DEF TimerEnter, OnePlace, Blocked
  <2>3. Items(thr_ready') \subseteq Items(thr_ready) \cup {thr_current}
    BY <1>3, <1>t, <2>2, ReadyAdd DEF TimerEnter
  <2>4. state' = [state EXCEPT ![thr_current] = "READY"] /\ thr_current' = thr_current
    BY <1>3 DEF TimerEnter
  <2> QED  BY <1>p, <2>1, <2>2, <2>3, <2>4, ReadyStates
<1>4. ASSUME WakeOne PROVE StateAgrees'
  <2> DEFINE t == Head(thr_sleep).thread
  <2>1. /\ thr_sleep # <<>> /\ thr_sleep' = Tail(thr_sleep)
        /\ state' = [state EXCEPT ![t] = "READY"]
        /\ UNCHANGED <<thr_current, wait_list>>
    BY <1>4 DEF WakeOne, SleeperDue
  <2>2. /\ t \in Sleepers
        /\ Sleepers = Sleepers' \cup {t}
        /\ t \notin Sleepers'
    BY <1>t, <1>p, <2>1, SleepTailThreads DEF OnePlace, Sleepers
  <2>3. t \in Threads
    <3>1. Head(thr_sleep) \in SleepEntry
      BY <1>t, <2>1, TailItems
    <3> QED  BY <3>1 DEF SleepEntry
  <2>4. \A s \in Sems : Waiters(s)' = Waiters(s) /\ t \notin Waiters(s)
    BY <1>p, <2>1, <2>2, WaitersSame DEF OnePlace
  <2>5. \E ok \in Alloc : thr_ready' = IF ok THEN OlistAdd(thr_ready, t, ByPriority) ELSE thr_ready
    BY <1>4 DEF WakeOne
  <2> HIDE DEF t
  <2>6. Items(thr_ready') \subseteq Items(thr_ready) \cup {t}
    BY <1>t, <2>3, <2>5, ReadyAdd
  <2> QED  BY <1>p, <2>1, <2>2, <2>3, <2>4, <2>6, ReadyStates
<1>5. ASSUME TimerExit PROVE StateAgrees'
  <2>1. /\ Sleepers' = Sleepers /\ \A s \in Sems : Waiters(s)' = Waiters(s)
        /\ state' = state /\ Resched(thr_ready)
    BY <1>5, SleepersSame, WaitersSame DEF TimerExit
  <2>2. /\ thr_current' \in Items(thr_ready) \cup {NULL}
        /\ Items(thr_ready') \subseteq Items(thr_ready)
    BY <1>t, <1>p, <2>1, ReschedPlaces DEF OnePlace
  <2> QED  BY <1>p, <2>1, <2>2, ThreadsAssumption DEF StateAgrees
<1>6. ASSUME NEW a \in SleepArgs, SleepQueued(a[1], a[2]) PROVE StateAgrees'
  <2>1. PICK targ_ticks \in TargTicks(a[1], a[2]), ok \in Alloc :
           thr_sleep' = IF ok THEN OlistAdd(thr_sleep, [thread |-> thr_current, time |-> targ_ticks], ByTime)
                        ELSE thr_sleep
    BY <1>6 DEF SleepQueued
  <2> DEFINE ent == [thread |-> thr_current, time |-> targ_ticks]
  <2>2. mode = "run" /\ thr_current \in Threads /\ Resched(thr_ready) /\ wait_list' = wait_list
        /\ state' = [state EXCEPT ![thr_current] = "SLEEP"]
    BY <1>6, <1>t DEF SleepQueued
  <2>3. ent \in SleepEntry /\ ent.thread = thr_current
    BY <2>2, TargTicksType DEF SleepEntry, TypeInv, TypeOK
  <2> HIDE DEF ent
  <2>4. Sleepers' \subseteq Sleepers \cup {thr_current}
    BY <1>t, <2>1, <2>3, SleepAddThreads DEF Sleepers, ent
  <2>5. \A s \in Sems : Waiters(s)' = Waiters(s)
    BY <2>2, WaitersSame
  <2> QED  BY <1>p, <2>2, <2>4, <2>5, BlockStates
<1>7. ASSUME SleepPanics PROVE StateAgrees'
  BY <1>7, <1>still DEF SleepPanics, lists
<1>8. ASSUME NEW s \in Sems, SemTake(s) PROVE StateAgrees'
  BY <1>8, <1>still DEF SemTake, lists
<1>9. ASSUME NEW s \in Sems, SemBlock(s) PROVE StateAgrees'
  <2>1. \E ok \in Alloc :
           wait_list' = [wait_list EXCEPT ![s] = IF ok THEN Append(@, thr_current) ELSE @]
    BY <1>9 DEF SemBlock
  <2>2. mode = "run" /\ thr_current \in Threads /\ Resched(thr_ready) /\ thr_sleep' = thr_sleep
        /\ state' = [state EXCEPT ![thr_current] = "SEM"]
    BY <1>9, <1>t DEF SemBlock
  <2>3. \A r \in Sems : Waiters(r)' \subseteq Waiters(r) \cup {thr_current}
    BY <1>t, <2>1, <2>2, AppendItems DEF Waiters
  <2>4. Sleepers' = Sleepers
    BY <2>2, SleepersSame
  <2> QED  BY <1>p, <2>2, <2>3, <2>4, BlockStates
<1>10. ASSUME NEW s \in Sems, SemHandOver(s) PROVE StateAgrees'
  <2> DEFINE t == Head(wait_list[s])
  <2>1. /\ wait_list[s] # <<>>
        /\ wait_list' = [wait_list EXCEPT ![s] = Tail(@)]
        /\ state' = [state EXCEPT ![t] = "READY"]
        /\ UNCHANGED <<thr_current, thr_sleep>>
    BY <1>10 DEF SemHandOver
  <2>2. \E ok \in Alloc : thr_ready' = IF ok THEN OlistAdd(thr_ready, t, ByPriority) ELSE thr_ready
    BY <1>10 DEF SemHandOver
  <2>3. /\ t \in Threads /\ t \in Waiters(s)
        /\ Waiters(s) = Waiters(s)' \cup {t}
        /\ t \notin Waiters(s)'
    BY <1>t, <1>p, <2>1, TailItems, TailNoDuplicates DEF Waiters, OnePlace
  <2> HIDE DEF t
  <2>4. \A r \in Sems : r # s => Waiters(r)' = Waiters(r) /\ t \notin Waiters(r)
    BY <1>t, <1>p, <2>1, <2>3 DEF Waiters, OnePlace
  <2>5. Sleepers' = Sleepers /\ t \notin Sleepers
    BY <1>p, <2>1, <2>3, SleepersSame DEF OnePlace
  <2>6. Items(thr_ready') \subseteq Items(thr_ready) \cup {t}
    BY <1>t, <2>2, <2>3, ReadyAdd
  <2> QED  BY <1>p, <2>1, <2>3, <2>4, <2>5, <2>6, ReadyStates
<1>11. ASSUME NEW s \in Sems, SemPost(s) PROVE StateAgrees'
  BY <1>11, <1>still DEF SemPost, lists
<1>12. ASSUME UNCHANGED vars PROVE StateAgrees'
  BY <1>12, <1>still DEF vars, lists
<1> QED
  BY <1>0, <1>1, <1>2, <1>3, <1>4, <1>5, <1>6, <1>7, <1>8, <1>9, <1>10, <1>11, <1>12
     DEF Next, OtherStep, Timer, Sleep

(* The state field tells which list a thread is on.                        *)
THEOREM StateAgreesAlways == Spec => []StateAgrees
<1> DEFINE Inv == TypeInv /\ Placement /\ StateAgrees /\ BootStates
<1>1. Inv /\ [Next]_vars => Inv'
  BY NextTypeInv, NextPlacement, NextStateAgrees
<1>2. Init => Inv
  BY InitTypeInv, InitPlacement, InitStateAgrees
<1>3. Inv => StateAgrees
  OBVIOUS
<1> QED  BY <1>1, <1>2, <1>3, PTL DEF Spec

-----------------------------------------------------------------------------
(* What one step may do to the ready list: nothing, take its first thread, *)
(* or add a thread that is not on it.                                      *)
ReadyStep ==
    \/ thr_ready' = thr_ready
    \/ thr_ready # <<>> /\ thr_ready' = Tail(thr_ready)
    \/ \E t \in Threads \ Items(thr_ready) : thr_ready' = OlistAdd(thr_ready, t, ByPriority)

(* The ready list is only ever added to and served from its head. *)
LEMMA NextReadyStep == TypeInv /\ Placement /\ [Next]_vars => ReadyStep
<1> SUFFICES ASSUME TypeInv, Placement, [Next]_vars PROVE ReadyStep
  OBVIOUS
<1>t. /\ thr_sleep \in Seq(SleepEntry)
      /\ wait_list \in [Sems -> Seq(Threads)]
      /\ mode # "crash" => thr_current \in Threads
  BY DEF TypeInv, TypeOK
<1>0. ASSUME Resched(thr_ready) PROVE ReadyStep
  BY <1>0 DEF Resched, ReadyStep
<1>1. ASSUME NEW t \in Threads, NewThread(t) PROVE ReadyStep
  BY <1>1 DEF NewThread, ReadyStep
<1>2. CASE TimerEnter
  <2>1. thr_current \in Threads \ Items(thr_ready)
    BY <1>2, <1>t DEF TimerEnter, Placement, OnePlace
  <2> QED  BY <1>2, <2>1 DEF TimerEnter, ReadyStep
<1>3. CASE WakeOne
  <2>1. thr_sleep # <<>> /\ Head(thr_sleep) \in SleepEntry /\ Head(thr_sleep).thread \in Sleepers
    BY <1>3, <1>t, TailItems, SleepTailThreads DEF WakeOne, SleeperDue
  <2>2. Head(thr_sleep).thread \in Threads \ Items(thr_ready)
    BY <2>1 DEF SleepEntry, Placement, OnePlace, Blocked
  <2> QED  BY <1>3, <2>2 DEF WakeOne, ReadyStep
<1>4. CASE TimerExit
  BY <1>0, <1>4 DEF TimerExit
<1>5. ASSUME NEW s \in Sems, SemHandOver(s) PROVE ReadyStep
  <2>1. Head(wait_list[s]) \in Threads /\ Head(wait_list[s]) \in Waiters(s)
    BY <1>5, <1>t, TailItems DEF SemHandOver, Waiters
  <2>2. Head(wait_list[s]) \in Threads \ Items(thr_ready)
    BY <2>1 DEF Placement, OnePlace, Blocked
  <2> QED  BY <1>5, <2>2 DEF SemHandOver, ReadyStep
<1>6. ASSUME NEW s \in Sems, SemBlock(s) PROVE ReadyStep
  BY <1>0, <1>6 DEF SemBlock
<1>7. ASSUME NEW a \in SleepArgs, Sleep(a[1], a[2]) PROVE ReadyStep
  BY <1>0, <1>7 DEF Sleep, SleepQueued, SleepPanics, lists, ReadyStep
<1>8. CASE EnableInterrupts \/ UNCHANGED vars
  BY <1>8 DEF EnableInterrupts, vars, lists, ReadyStep
<1>9. ASSUME NEW s \in Sems, SemTake(s) \/ SemPost(s) PROVE ReadyStep
  BY <1>9 DEF SemTake, SemPost, lists, ReadyStep
<1> QED
  BY <1>1, <1>2, <1>3, <1>4, <1>5, <1>6, <1>7, <1>8, <1>9 DEF Next, OtherStep, Timer

(* olist_add, list_del: among ready threads of one priority, first come is *)
(* first served: whoever is ahead after a step was ahead before it.        *)
THEOREM NoOvertakingEver == Spec => NoOvertaking
<1> DEFINE Inv == TypeInv /\ Placement /\ ListsOrdered
           Kept == \A a \in Items(thr_ready) \cap Items(thr_ready'), b \in Items(thr_ready') :
                      Priority[a] = Priority[b] /\ Ahead(thr_ready', b, a)
                      => Ahead(thr_ready, b, a)
<1>1. Inv /\ [Next]_vars => Kept
  <2> SUFFICES ASSUME Inv, [Next]_vars,
                      NEW a \in Items(thr_ready) \cap Items(thr_ready'),
                      NEW b \in Items(thr_ready'),
                      Priority[a] = Priority[b], Ahead(thr_ready', b, a)
               PROVE  Ahead(thr_ready, b, a)
    OBVIOUS
  <2>t. thr_ready \in Seq(Threads) /\ thr_ready' \in Seq(Threads)
    BY NextTypeInv DEF TypeInv, TypeOK
  <2>1. CASE thr_ready' = thr_ready
    BY <2>1
  <2>2. CASE thr_ready # <<>> /\ thr_ready' = Tail(thr_ready)
    BY <2>2, <2>t, TailAhead
  <2>3. ASSUME NEW t \in Threads \ Items(thr_ready),
               thr_ready' = OlistAdd(thr_ready, t, ByPriority)
        PROVE  Ahead(thr_ready, b, a)
    <3>1. a \in Threads /\ b \in Threads
      BY <2>t DEF Items
    <3>2. ByPriority[a] = ByPriority[b]
      BY <3>1 DEF ByPriority
    <3>3. Ordered(thr_ready, ByPriority) /\ ByPriority \in [Threads -> Int]
      BY KeyTypes DEF ListsOrdered
    <3> QED  BY <2>t, <2>3, <3>2, <3>3, OlistAddBehindEquals
  <2> QED  BY <2>1, <2>2, <2>3, NextReadyStep DEF ReadyStep
<1>2. Inv /\ [Next]_vars => Inv'
  BY NextTypeInv, NextPlacement, NextOrdered
<1>3. Init => Inv
  BY InitTypeInv, InitPlacement, InitOrdered
<1>4. Inv /\ [Next]_vars => [Kept]_vars
  BY <1>1
<1> QED  BY <1>2, <1>3, <1>4, PTL DEF Spec, NoOvertaking
=============================================================================
