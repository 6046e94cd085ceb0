-------------------------------- MODULE List --------------------------------
(***************************************************************************)
(* lib/util/list.c at the level of its nodes and pointers.                 *)
(*                                                                         *)
(* One list, ordered or not, is built, used and freed, over and over.  Its *)
(* nodes come from kmalloc and go back with kfree, which leaves what was   *)
(* in them as it was until they are handed out again: a pointer to a freed *)
(* node still reads something.  So does NULL: page 0 is mapped (mem_init   *)
(* identity-maps the memory below the kernel), and it reads as some node   *)
(* that belongs to nobody.                                                 *)
(*                                                                         *)
(* list_del does not move "last" when it takes the last node of a longer   *)
(* list.  No caller in the kernel does that: every list_del in it has      *)
(* index 0.  TailDeleted says whether a caller may.                        *)
(***************************************************************************)
EXTENDS Olist, FiniteSets

CONSTANTS
    Nodes,          \* the addresses kmalloc can return
    Values,         \* what the items can be
    NULL,           \* the null pointer
    Key,            \* the order of an ordered list's comparison function
    Wrap,           \* an index is an integer modulo this: 2^32 in the code
    TailDeleted     \* whether a caller deletes the last of several nodes

ASSUME ListAssumption ==
    /\ IsFiniteSet(Nodes)
    /\ NULL \notin Nodes \cup Values
    /\ Key \in [Values -> Int]
    /\ Wrap \in Nat /\ Wrap > Cardinality(Nodes) + 1
    /\ TailDeleted \in BOOLEAN

VARIABLES
    ordered,    \* which of list_head_t and olist_head_t the list is
    first, last, size,
    node,       \* the contents of the nodes, in use or not, and of page 0
    used        \* the nodes kmalloc has handed out

vars == <<ordered, first, last, size, node, used>>

Pointers == Nodes \cup {NULL}
Node == [value : Values \cup {NULL}, next : Pointers, prev : Pointers]
Zeroes == [value |-> NULL, next |-> NULL, prev |-> NULL]

(* The node that is i "next" links after the first. *)
NodeAt == LET f[i \in 0 .. Cardinality(Nodes)] ==
                  IF i = 0 THEN first ELSE node[f[i - 1]].next
          IN  f

(* The node that is i "prev" links before the last. *)
NodeFromEnd == LET f[i \in 0 .. Cardinality(Nodes)] ==
                       IF i = 0 THEN last ELSE node[f[i - 1]].prev
               IN  f

(* list_get.  The index is unsigned, so it is never negative; index + 1    *)
(* wraps.  The nearer end is where the walk starts.                        *)
ListGet(index) ==
    IF (index + 1) % Wrap > size THEN NULL
    ELSE IF index <= ((size - 1) % Wrap) \div 2 THEN node[NodeAt[index]].value
    ELSE node[NodeFromEnd[IF index < size THEN size - 1 - index ELSE 0]].value

(* FOREACH: the items it passes, up to the first index that reads NULL.     *)
FOREACH ==
    LET end == CHOOSE n \in 0 .. Wrap - 2 : ListGet(n) = NULL /\ \A k \in 0 .. n - 1 : ListGet(k) # NULL
    IN  [n \in 1 .. end |-> ListGet(n - 1)]

-----------------------------------------------------------------------------
(* list_new or olist_new. *)
Init ==
    /\ ordered \in BOOLEAN
    /\ first = NULL /\ last = NULL /\ size = 0
    /\ node = [p \in Pointers |-> Zeroes]
    /\ used = {}

(* list_add.  When kmalloc returns NULL, list_add and olist_add return 0    *)
(* and have done nothing: no step.                                         *)
ListAdd(item) ==
    /\ ~ordered
    /\ \E n \in Nodes \ used :
          /\ used' = used \cup {n}
          /\ node' = LET linked == IF size = 0 THEN node ELSE [node EXCEPT ![last].next = n]
                     IN  [linked EXCEPT ![n] =
                             [value |-> item,
                              next |-> NULL,
                              prev |-> IF size = 0 THEN NULL ELSE last]]
          /\ first' = IF size = 0 THEN n ELSE first
          /\ last' = n
          /\ size' = size + 1
    /\ UNCHANGED ordered

(* Bug: the walk stops in front of an item that compares equal. *)
WalkEndBeforeEquals(item) ==
    LET Stops(i) == NodeAt[i] = NULL \/ Key[node[NodeAt[i]].value] >= Key[item]
    IN  NodeAt[CHOOSE i \in 0 .. Cardinality(Nodes) :
                  Stops(i) /\ \A j \in 0 .. i - 1 : ~Stops(j)]

(* Where the walk of olist_add stops: at the end, or at the first node     *)
(* whose item compares greater.                                            *)
WalkEnd(item) ==
    LET Stops(i) == NodeAt[i] = NULL \/ Key[node[NodeAt[i]].value] > Key[item]
    IN  NodeAt[CHOOSE i \in 0 .. Cardinality(Nodes) :
                  Stops(i) /\ \A j \in 0 .. i - 1 : ~Stops(j)]

(* olist_add, on an empty list. *)
OlistAddFirst(item) ==
    /\ ordered /\ size = 0
    /\ \E n \in Nodes \ used :
          /\ used' = used \cup {n}
          /\ node' = [node EXCEPT ![n] = [value |-> item, next |-> NULL, prev |-> NULL]]
          /\ first' = n /\ last' = n /\ size' = 1
    /\ UNCHANGED ordered

(* olist_add, behind all nodes. *)
OlistAddLast(item) ==
    /\ ordered /\ size > 0 /\ WalkEnd(item) = NULL
    /\ \E n \in Nodes \ used :
          LET new == [value |-> item, next |-> NULL, prev |-> last]
          IN  /\ used' = used \cup {n}
              /\ node' = [node EXCEPT ![n] = new, ![last].next = n]
              /\ last' = n
              /\ size' = size + 1
    /\ UNCHANGED <<ordered, first>>

(* olist_add, in front of the node the walk stopped at. *)
OlistAddBefore(item) ==
    /\ ordered /\ size > 0 /\ WalkEnd(item) # NULL
    /\ \E n \in Nodes \ used :
          LET at == WalkEnd(item)
              before == node[at].prev
              new == [value |-> item, next |-> at, prev |-> before]
          IN  /\ used' = used \cup {n}
              /\ IF before = NULL
                 THEN /\ first' = n
                      /\ node' = [node EXCEPT ![n] = new, ![at].prev = n]
                 ELSE /\ first' = first
                      /\ node' = [node EXCEPT ![n] = new, ![before].next = n, ![at].prev = n]
              /\ size' = size + 1
    /\ UNCHANGED <<ordered, last>>

(* Bug: the new first node keeps its pointer to the freed one. *)
ListDelFirstKeepsPrev ==
    /\ size > 0
    /\ used' = used \ {first}
    /\ first' = node[first].next
    /\ size' = size - 1
    /\ UNCHANGED <<ordered, last, node>>

(* list_del at index 0.  "last" is not touched: when the only node goes, it *)
(* keeps pointing to it, and the back link is cleared in page 0.           *)
ListDelFirst ==
    /\ size > 0
    /\ used' = used \ {first}
    /\ first' = node[first].next
    /\ node' = [node EXCEPT ![first'].prev = NULL]
    /\ size' = size - 1
    /\ UNCHANGED <<ordered, last>>

(* list_del at a higher index. *)
ListDelLater(index) ==
    /\ index \in 1 .. size - 1
    /\ TailDeleted \/ index # size - 1
    /\ LET gone == NodeAt[index]
           prev == node[gone].prev
           next == node[gone].next
           linked == [node EXCEPT ![prev].next = next]
       IN  /\ used' = used \ {gone}
           /\ node' = IF next = NULL THEN linked ELSE [linked EXCEPT ![next].prev = prev]
    /\ size' = size - 1
    /\ UNCHANGED <<ordered, first, last>>

(* list_set, which idlist_del uses to empty a slot.  An ordered list has    *)
(* no such operation.                                                      *)
ListSet(index, value) ==
    /\ ~ordered
    /\ index < size
    /\ node' = [node EXCEPT ![NodeAt[index]].value = value]
    /\ UNCHANGED <<ordered, first, last, size, used>>

(* list_free, which follows "next" to NULL and does not look at size, and  *)
(* the list_new or olist_new of the next user.                             *)
ListFree ==
    /\ used' = used \ {NodeAt[i] : i \in 0 .. Cardinality(Nodes)}
    /\ first' = NULL /\ last' = NULL /\ size' = 0
    /\ ordered' \in BOOLEAN
    /\ UNCHANGED node

Next ==
    \/ \E item \in Values :
          ListAdd(item) \/ OlistAddFirst(item) \/ OlistAddLast(item) \/ OlistAddBefore(item)
    \/ ListDelFirst
    \/ \E index \in 0 .. Cardinality(Nodes) - 1 :
          ListDelLater(index) \/ \E value \in Values \cup {NULL} : ListSet(index, value)
    \/ ListFree

Spec == Init /\ [][Next]_vars

-----------------------------------------------------------------------------
(* Every variable has its type. *)
TypeOK ==
    /\ ordered \in BOOLEAN
    /\ first \in Pointers
    /\ last \in Pointers
    /\ size \in 0 .. Cardinality(Nodes)
    /\ node \in [Pointers -> Node]
    /\ used \subseteq Nodes

(* The items, first to last. *)
Contents == [i \in 1 .. size |-> node[NodeAt[i - 1]].value]

(* list_get, which walks from whichever end is nearer, agrees with the     *)
(* order of the items, and an index past the end reads nothing; so FOREACH *)
(* passes every item once, in order, and stops, if need be at a slot that  *)
(* list_set has emptied.  (The largest index of all is excluded: its       *)
(* successor wraps to 0 and is let through.)                               *)
ReadsAgree ==
    /\ \A index \in 0 .. Wrap - 2 :
          ListGet(index) = IF index < size THEN Contents[index + 1] ELSE NULL
    /\ LET n == Len(FOREACH)
       IN  FOREACH = SubSeq(Contents, 1, n) /\ (n < size => Contents[n + 1] = NULL) /\ (\A k \in 1 .. n : FOREACH[k] # NULL)

(* Following "next" from the first node visits exactly the nodes in use,   *)
(* "size" of them, and ends in NULL; each points back to the one before,   *)
(* and "last" is where it ends.  So no freed node can be reached, however  *)
(* list_del left "last", and list_free leaks none.                         *)
WellLinked ==
    /\ TypeOK
    /\ NodeAt[size] = NULL
    /\ used = {NodeAt[i] : i \in 0 .. size - 1}
    /\ \A i \in 0 .. size - 1 :
          node[NodeAt[i]].prev = IF i = 0 THEN NULL ELSE NodeAt[i - 1]
    /\ size > 0 => last = NodeAt[size - 1]
    /\ ReadsAgree

(* The nodes and pointers implement a sequence. *)
Sequence == INSTANCE ListSpec WITH items <- Contents
ImplementsSequence == Sequence!SeqSpec
=============================================================================
