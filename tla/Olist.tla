------------------------------- MODULE Olist -------------------------------
(***************************************************************************)
(* What the linked lists of lib/util/list.c promise their callers: a list  *)
(* is a sequence of items.  list_add appends, olist_add inserts behind     *)
(* every item that does not compare greater, list_del(list, 0) takes the   *)
(* first item.  The other modules use these operators; the node and        *)
(* pointer level of the same functions is module List.                     *)
(*                                                                         *)
(* A comparison function (lib/util/sort.h, DEFINE_CMP_MEMBER) compares one *)
(* member of the items, ascending or descending.  It is modelled by a      *)
(* function "key" from items to integers that is ascending in list order.  *)
(***************************************************************************)
EXTENDS Integers, Sequences, Functions

(* Bug: ">=" for ">" in the walk, which puts the new item before its equals. *)
OlistPosBeforeEquals(s, item, key) ==
    CHOOSE k \in 1 .. Len(s) + 1 :
        /\ \A j \in 1 .. k - 1 : key[s[j]] < key[item]
        /\ k <= Len(s) => key[s[k]] >= key[item]

(* The walk of olist_add: the first node whose item compares greater than  *)
(* the new one, Len(s) + 1 when it falls off the end.                      *)
OlistPos(s, item, key) ==
    CHOOSE k \in 1 .. Len(s) + 1 :
        /\ \A j \in 1 .. k - 1 : key[s[j]] <= key[item]
        /\ k <= Len(s) => key[s[k]] > key[item]

(* Bug: list_add called where olist_add is needed. *)
OlistAddUnordered(s, item, key) == Append(s, item)

(* olist_add: link the new node in front of the node the walk stopped at. *)
OlistAdd(s, item, key) ==
    LET k == OlistPos(s, item, key)
    IN  [i \in 1 .. Len(s) + 1 |->
            IF i < k THEN s[i] ELSE IF i = k THEN item ELSE s[i - 1]]

(* The items of a list, as FOREACH visits them. *)
Items(s) == {s[i] : i \in 1 .. Len(s)}

(* Item a is ahead of item b in list s. *)
Ahead(s, a, b) == \E i, j \in 1 .. Len(s) : i < j /\ s[i] = a /\ s[j] = b

(* No item is on the list twice. *)
NoDuplicates(s) == \A i, j \in 1 .. Len(s) : s[i] = s[j] => i = j

(* The list is in the order of its comparison function. *)
Ordered(s, key) == \A i, j \in 1 .. Len(s) : i < j => key[s[i]] <= key[s[j]]
=============================================================================
