------------------------------- MODULE HeapMC -------------------------------
(* Instances of Heap for TLC: a page is 32 words, a request a third of a    *)
(* page, or a page on a page boundary.                                     *)
EXTENDS Heap

MCRequests == {<<11, FALSE>>, <<27, FALSE>>, heap_palloc}
=============================================================================
