------------------------------ MODULE SchedMC ------------------------------
(* Small instances of Sched. *)
EXTENDS Sched

CONSTANTS A, B

\* Main and A are equals of the top priority, B ranks between them and the null thread.
PriorityThree == [t \in Threads |-> IF t = Null THEN 0 ELSE IF t = B THEN 7 ELSE 255]

CountOne == [s \in Sems |-> 1]

ArgsShort == {<<0, "m">>, <<2, "m">>, <<1, "c">>}
=============================================================================
