---------------------------- MODULE SleepClockMC ----------------------------
(* Small instances of SleepClock. *)
EXTENDS SleepClock

CONSTANT A

PriorityRising == [t \in Threads |-> IF t = Null THEN 0 ELSE IF t = Main THEN 255 ELSE 7]
CountOne == [s \in Sems |-> 1]

\* Delays of 0, 2 and 10 ticks, and a unit the system call does not know.
ArgsMixed == {<<0, "m">>, <<2, "m">>, <<1, "c">>, <<1, "x">>}
=============================================================================
