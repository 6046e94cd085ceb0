------------------------------ MODULE ListSpec ------------------------------
(***************************************************************************)
(* What a caller of lib/util/list.c counts on: a list is a sequence of     *)
(* items.  Module List shows that the nodes and pointers of list.c         *)
(* implement it; modules Sched and Preempt are written on top of it.       *)
(***************************************************************************)
EXTENDS Olist

CONSTANTS
    Values,     \* what the items can be
    NULL,       \* the null pointer, the item of a slot emptied by list_set
    Key         \* the order of an ordered list's comparison function

VARIABLES
    ordered,    \* the list is an olist_head_t
    items       \* the items, first to last

Insert(item) ==
    /\ items' = IF ordered THEN OlistAdd(items, item, Key) ELSE Append(items, item)
    /\ UNCHANGED ordered

Remove(index) ==
    /\ index < Len(items)
    /\ items' = SubSeq(items, 1, index) \o SubSeq(items, index + 2, Len(items))
    /\ UNCHANGED ordered

Replace(index, value) ==
    /\ index < Len(items)
    /\ items' = [items EXCEPT ![index + 1] = value]
    /\ UNCHANGED ordered

\* The list is thrown away and a new one takes its place.
Renew ==
    /\ items' = <<>>
    /\ ordered' \in BOOLEAN

SeqInit == ordered \in BOOLEAN /\ items = <<>>

SeqNext ==
    \/ \E item \in Values : Insert(item)
    \/ \E index \in 0 .. Len(items) - 1 :
          Remove(index) \/ \E value \in Values \cup {NULL} : Replace(index, value)
    \/ Renew

SeqSpec == SeqInit /\ [][SeqNext]_<<ordered, items>>
=============================================================================
