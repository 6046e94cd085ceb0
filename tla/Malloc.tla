------------------------------- MODULE Malloc -------------------------------
(***************************************************************************)
(* What the callers of kmalloc, kpalloc, kpsalloc and kfree (lib/mem.h)    *)
(* count on: the memory a call returns is nobody else's until it is freed, *)
(* and a page allocation starts on a page boundary.                        *)
(***************************************************************************)
EXTENDS Integers

CONSTANTS
    Requests,   \* <<size, page_align>>
    Addresses,  \* where the heap can be
    PAGE        \* size of a page

VARIABLE owned  \* what callers hold: address |-> size

Disjoint(p, size, q, qsize) == p + size <= q \/ q + qsize <= p

Grant(p, size, page_align) ==
    /\ p \notin DOMAIN owned
    /\ DOMAIN owned' = DOMAIN owned \cup {p}
    /\ page_align => p % PAGE = 0
    /\ \A q \in DOMAIN owned : Disjoint(p, size, q, owned[q])
    /\ \A q \in DOMAIN owned' : owned'[q] = IF q = p THEN size ELSE owned[q]

Return(p) ==
    /\ p \in DOMAIN owned
    /\ owned' = [q \in DOMAIN owned \ {p} |-> owned[q]]

MallocInit == owned = [p \in {} |-> 0]

MallocNext ==
    \/ \E p \in Addresses, r \in Requests : Grant(p, r[1], r[2])
    \/ \E p \in DOMAIN owned : Return(p)

MallocSpec == MallocInit /\ [][MallocNext]_owned
=============================================================================
