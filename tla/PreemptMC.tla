----------------------------- MODULE PreemptMC -----------------------------
(* Small instances of Preempt. *)
EXTENDS Preempt

CONSTANTS A, B

PriorityEqual == [t \in Threads |-> IF t = Null THEN 0 ELSE 7]
CountOne == [s \in Sems |-> 1]
ArgsOne == {<<1, "m">>}
NoArgs == {}

ASSUME MemoryLastsHere == MemoryLasts
=============================================================================
