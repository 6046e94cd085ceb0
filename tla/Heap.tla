-------------------------------- MODULE Heap --------------------------------
(***************************************************************************)
(* The kernel heap: lib/heap.c with the ordered array of lib/util/oarray.c *)
(* that indexes its holes, behind kmalloc, kpalloc, kpsalloc and kfree.    *)
(*                                                                         *)
(* The heap is cut into blocks.  A block starts with a header (is it a     *)
(* hole, its size) and ends with a footer (where its header is); both      *)
(* carry a magic number.  hdr and ftr are the headers and footers that     *)
(* delimit blocks: one that ends up inside a block is forgotten, so what   *)
(* the code would still read there counts as a wrong magic number.         *)
(*                                                                         *)
(* Addresses and sizes are in words of 4 bytes.  A request that no hole    *)
(* satisfies extends the heap and starts again (heap_alloc calls itself);  *)
(* each round is a step.                                                   *)
(***************************************************************************)
EXTENDS Olist, FiniteSets, SequencesExt

CONSTANTS
    PAGE,           \* size of a page: 1024 in the code
    START,          \* heap->start: behind heap_t and the index, in the first page
    FirstEnd,       \* heap->end after heap_place
    FreePages,      \* physical pages left for the heap to grow into
    Requests,       \* <<size, page_align>> arguments of heap_alloc
    MAX_SIZE        \* places in the index: HEAP_INDEX_SIZE

HDR == 3            \* sizeof(heap_hdr_t)
FTR == 2            \* sizeof(heap_ftr_t)

ASSUME HeapAssumption ==
    /\ PAGE \in Nat \ {0}
    /\ START \in Nat /\ START >= PAGE
    /\ FirstEnd \in Nat /\ FirstEnd % PAGE = 0 /\ START + HDR + FTR < FirstEnd
    /\ FreePages \in Nat
    /\ Requests \subseteq (Nat \ {0}) \X BOOLEAN
    /\ MAX_SIZE \in Nat \ {0}

VARIABLES
    hdr,        \* headers: address |-> [hole, size]
    ftr,        \* footers: address |-> address of the header
    index,      \* heap->index: the holes, smallest first
    heap_end,   \* heap->end
    free_pages, \* physical pages ppalloc can still hand out
    mapped,     \* pages already mapped from heap_end on
    owned,      \* what callers hold: address |-> size
    call,       \* the request being served, or Idle
    heap_err    \* the last error: "none", "memory", "index" or "corrupted"

blocks == <<hdr, ftr, index>>
vars == <<blocks, heap_end, free_pages, mapped, owned, call, heap_err>>

Idle == <<0, FALSE>>
LastEnd == FirstEnd + FreePages * PAGE

Update(f, a, v) == [x \in DOMAIN f \cup {a} |-> IF x = a THEN v ELSE f[x]]
Forget(f, S) == [x \in DOMAIN f \ S |-> f[x]]

Block(hole, size) == [hole |-> hole, size |-> size]
End(h, a) == a + h[a].size

(* heap_hdr_t_cmp_size: the index is ordered by the sizes in the headers. *)
BySize(h) == [a \in DOMAIN h |-> h[a].size]

(* oarray_add fails when the array is full. *)
OarrayAdd(s, a, h) == IF Len(s) >= MAX_SIZE THEN s ELSE OlistAdd(s, a, BySize(h))

(* oarray_del_value: the first entry that is a, if there is one. *)
OarrayDelValue(s, a) ==
    LET found == {i \in 1 .. Len(s) : s[i] = a}
    IN  IF found = {} THEN s
        ELSE RemoveAt(s, CHOOSE i \in found : \A j \in found : i <= j)

-----------------------------------------------------------------------------
(* heap_place: one block, a hole. *)
Init ==
    /\ hdr = [a \in {START} |-> Block(TRUE, FirstEnd - START)]
    /\ ftr = [a \in {FirstEnd - FTR} |-> START]
    /\ index = <<START>>
    /\ heap_end = FirstEnd
    /\ free_pages = FreePages
    /\ mapped = 0
    /\ owned = [p \in {} |-> 0]
    /\ call = Idle
    /\ heap_err = "none"

(* kmalloc, kpalloc and kpsalloc. *)
Request(r) ==
    /\ call = Idle
    /\ call' = r
    /\ UNCHANGED <<blocks, heap_end, free_pages, mapped, owned, heap_err>>

\* Bug: the footer is not accounted for.
SizeHFNoFooter == call[1] + HDR

\* The size of the request with its header and footer.
SizeHF == call[1] + HDR + FTR
\* What heap_palloc and heap_psalloc ask of heap_alloc: pages on a page boundary.
heap_psalloc(pages) == <<PAGE * pages, TRUE>>
heap_palloc == heap_psalloc(1)

PageOf(a) == (a \div PAGE) * PAGE

(* Bug: every block counts as aligned. *)
MustAlignNever(a) == FALSE

(* Whether the useable space of the block at a has to be moved to a page   *)
(* boundary.  What the code tests for "not already aligned" is that the    *)
(* page number is not zero.                                                *)
MustAlign(a) == call[2] /\ PageOf(a + HDR) # 0

NextPage(a) == PageOf(a + HDR + PAGE)

Fits(a) ==
    /\ hdr[a].size >= SizeHF
    /\ MustAlign(a) => NextPage(a) + call[1] + FTR < End(hdr, a)

(* Page alignment: the part of hole a before "new" becomes a hole of its   *)
(* own, or, too small for that, goes to the block in front of it.  In that *)
(* case the memmove that should move the front block's footer lands        *)
(* sizeof(heap_ftr_t) headers before "new", not bytes.  There always is a  *)
(* block in front: the first header is further from its page boundary; and *)
(* as long as that block has a footer, its magic number is right.          *)
AlignHdr(a, new) ==
    LET rest == Block(TRUE, hdr[a].size - (new - a))
    IN  IF new - a > HDR + FTR
        THEN Update(Update(hdr, a, Block(TRUE, new - a)), new, rest)
        ELSE LET prev == ftr[a - FTR]
                 longer == [hdr[prev] EXCEPT !.size = @ + (new - a)]
             IN  Forget(Update(Update(hdr, prev, longer), new, rest), {a})

\* Bug: the footer at the end of the hole still leads to its old header.
AlignFtrStale(a, new) == Update(ftr, new - FTR, a)

AlignFtr(a, new) ==
    LET moved == Update(ftr, End(hdr, a) - FTR, new)
    IN  IF new - a > HDR + FTR THEN Update(moved, new - FTR, a)
        ELSE Forget(Update(moved, new - FTR * 4 * HDR, ftr[a - FTR]), {a - FTR})

AlignIndex(rest, a, new) ==
    IF new - a > HDR + FTR THEN OarrayAdd(rest, a, AlignHdr(a, new)) ELSE rest

(* Whether enough of the block at a is left over to be a block. *)
Splits(h, a) == h[a].size > SizeHF + HDR + FTR

(* Hole a, no longer in the index, is given away: the whole of it, or its  *)
(* front, in which case the rest becomes a hole.                           *)
Give(h, f, s, a) ==
    /\ IF Splits(h, a)
       THEN LET rest == a + SizeHF
                h2 == Update(Update(h, a, Block(FALSE, SizeHF)),
                             rest, Block(TRUE, h[a].size - SizeHF))
            IN  /\ hdr' = h2
                /\ ftr' = Update(Update(f, rest - FTR, a), End(h, a) - FTR, rest)
                /\ index' = OarrayAdd(s, rest, h2)
       ELSE /\ hdr' = [h EXCEPT ![a].hole = FALSE]
            /\ ftr' = f
            /\ index' = s
    /\ owned' = Update(owned, a + HDR, call[1])

(* heap_alloc finds the smallest hole that fits. *)
AllocFound ==
    /\ call # Idle
    /\ \E i \in 1 .. Len(index) :
          LET a == index[i]
              new == NextPage(a) - HDR
              rest == RemoveAt(index, i)
          IN  /\ Fits(a)
              /\ \A j \in 1 .. i - 1 : ~Fits(index[j])
              /\ IF MustAlign(a)
                 THEN Give(AlignHdr(a, new), AlignFtr(a, new), AlignIndex(rest, a, new), new)
                 ELSE Give(hdr, ftr, rest, a)
    /\ call' = Idle
    /\ UNCHANGED <<heap_end, free_pages, mapped, heap_err>>

NoneFits == call # Idle /\ \A i \in 1 .. Len(index) : ~Fits(index[i])

NewPages == SizeHF \div PAGE + (IF SizeHF % PAGE = 0 THEN 0 ELSE 1)

(* psalloc_at_v maps page after page, and fails on one that is mapped.     *)
CanMap == mapped = 0 /\ free_pages >= NewPages

(* No hole fits, heap_extend succeeds, and heap_alloc calls itself.  The   *)
(* new block is not merged with a hole in front of it.                     *)
Extend ==
    /\ NoneFits /\ CanMap /\ Len(index) < MAX_SIZE
    /\ LET size == NewPages * PAGE
           h2 == Update(hdr, heap_end, Block(TRUE, size))
       IN  /\ hdr' = h2
           /\ ftr' = Update(ftr, heap_end + size - FTR, heap_end)
           /\ index' = OarrayAdd(index, heap_end, h2)
           /\ heap_end' = heap_end + size
    /\ free_pages' = free_pages - NewPages
    /\ UNCHANGED <<mapped, owned, call, heap_err>>

(* heap_extend cannot put the new block in the index.  Its pages stay       *)
(* mapped, behind heap->end.                                               *)
ExtendIndexFull ==
    /\ NoneFits /\ CanMap /\ Len(index) >= MAX_SIZE
    /\ free_pages' = free_pages - NewPages
    /\ mapped' = NewPages
    /\ heap_err' = "index"
    /\ call' = Idle
    /\ UNCHANGED <<blocks, heap_end, owned>>

(* Bug: heap_alloc tries again whether or not the heap was extended. *)
ExtendNoMemoryRetries ==
    /\ NoneFits /\ ~CanMap
    /\ mapped' = mapped + free_pages
    /\ free_pages' = 0
    /\ heap_err' = "memory"
    /\ UNCHANGED <<blocks, heap_end, owned, call>>

(* psalloc_at_v fails half way: what it did map stays mapped, and when the *)
(* first page is mapped already the one it took for it is lost.            *)
ExtendNoMemory ==
    /\ NoneFits /\ ~CanMap
    /\ IF mapped = 0
       THEN mapped' = free_pages /\ free_pages' = 0
       ELSE /\ mapped' = mapped
            /\ free_pages' = IF free_pages = 0 THEN 0 ELSE free_pages - 1
    /\ heap_err' = "memory"
    /\ call' = Idle
    /\ UNCHANGED <<blocks, heap_end, owned>>

-----------------------------------------------------------------------------
(* heap_free.  a is the block; prev and next are the blocks around it.     *)
Prev(a) == ftr[a - FTR]
MergesPrev(a) == a > START /\ hdr[Prev(a)].hole
\* Bug: the last block of the heap is never merged with.
MergesNextNotLast(a) ==
    /\ End(hdr, a) < heap_end
    /\ hdr[End(hdr, a)].hole
    /\ End(hdr, End(hdr, a)) < heap_end
MergesNext(a) == End(hdr, a) < heap_end /\ hdr[End(hdr, a)].hole

(* The magic numbers heap_free looks at, in its order. *)
MagicRight(a) ==
    /\ a \in DOMAIN hdr
    /\ End(hdr, a) - FTR \in DOMAIN ftr
    /\ a > START => a - FTR \in DOMAIN ftr /\ ftr[a - FTR] \in DOMAIN hdr
    /\ End(hdr, a) < heap_end =>
          /\ End(hdr, a) \in DOMAIN hdr
          /\ hdr[End(hdr, a)].hole => End(hdr, End(hdr, a)) - FTR \in DOMAIN ftr

(* The block becomes a hole, merged with the holes on both sides, and goes *)
(* into the index; when that is full it stays out of it.                   *)
FreeBlock(a) ==
    LET next  == End(hdr, a)
        first == IF MergesPrev(a) THEN Prev(a) ELSE a
        end   == IF MergesNext(a) THEN End(hdr, next) ELSE next
        gone  == (IF MergesPrev(a) THEN {a} ELSE {}) \cup (IF MergesNext(a) THEN {next} ELSE {})
        gone1 == IF MergesPrev(a) THEN OarrayDelValue(index, Prev(a)) ELSE index
        left  == IF MergesNext(a) THEN OarrayDelValue(gone1, next) ELSE gone1
    IN  /\ hdr' = Forget(Update(hdr, first, Block(TRUE, end - first)), gone)
        /\ ftr' = Forget(Update(ftr, end - FTR, first), {g - FTR : g \in gone})
        /\ index' = OarrayAdd(left, first, hdr')
        /\ heap_err' = IF Len(left) >= MAX_SIZE THEN "index" ELSE heap_err

(* A magic number is wrong.  By then the block may be marked a hole, and   *)
(* merged with the one in front; the run that reports it ends there.       *)
FreeCorrupted(a) ==
    /\ heap_err' = "corrupted"
    /\ UNCHANGED blocks

(* kfree, of something kmalloc returned.  Its callers do not look at the   *)
(* result.                                                                 *)
Free(p) ==
    /\ call = Idle
    /\ heap_err # "corrupted"
    /\ p \in DOMAIN owned
    /\ IF MagicRight(p - HDR) THEN FreeBlock(p - HDR) ELSE FreeCorrupted(p - HDR)
    /\ owned' = Forget(owned, {p})
    /\ UNCHANGED <<heap_end, free_pages, mapped, call>>

-----------------------------------------------------------------------------
Next ==
    \/ \E r \in Requests : Request(r)
    \/ AllocFound
    \/ Extend \/ ExtendIndexFull \/ ExtendNoMemory
    \/ \E p \in START .. LastEnd : Free(p)

(* heap_alloc runs to its end. *)
Spec == Init /\ [][Next]_vars /\ WF_vars(AllocFound \/ Extend \/ ExtendIndexFull \/ ExtendNoMemory)

-----------------------------------------------------------------------------
Holes == {a \in DOMAIN hdr : hdr[a].hole}

(* Every variable has its type. *)
TypeOK ==
    /\ DOMAIN hdr \subseteq START .. LastEnd
    /\ hdr \in [DOMAIN hdr -> [hole : BOOLEAN, size : 1 .. LastEnd - START]]
    /\ DOMAIN ftr \subseteq START .. LastEnd
    /\ ftr \in [DOMAIN ftr -> START .. LastEnd]
    /\ index \in Seq(START .. LastEnd)
    /\ Len(index) <= MAX_SIZE
    /\ heap_end \in FirstEnd .. LastEnd
    /\ free_pages \in 0 .. FreePages
    /\ mapped \in 0 .. FreePages
    /\ DOMAIN owned \subseteq START .. LastEnd
    /\ call \in Requests \cup {Idle}
    /\ heap_err \in {"none", "memory", "index", "corrupted"}

(* The blocks follow each other without gap or overlap from heap->start to *)
(* heap->end, each with room for its header and footer, and each footer    *)
(* leads to its block's header: what heap_free relies on when it steps     *)
(* from a block to the ones around it.                                     *)
Tiled ==
    /\ TypeOK
    /\ START \in DOMAIN hdr
    /\ \A a \in DOMAIN hdr :
          /\ hdr[a].size >= HDR + FTR
          /\ End(hdr, a) \in DOMAIN hdr \cup {heap_end}
          /\ \A b \in DOMAIN hdr : b > a => b >= End(hdr, a)
    /\ DOMAIN ftr = {End(hdr, a) - FTR : a \in DOMAIN hdr}
    /\ \A a \in DOMAIN hdr : ftr[End(hdr, a) - FTR] = a

(* Whatever splits and merges the blocks have been through, the blocks     *)
(* that are not holes are those callers hold, and the memory a caller was  *)
(* given lies between its block's header and footer.                       *)
OwnedIntact ==
    /\ DOMAIN hdr \ Holes = {p - HDR : p \in DOMAIN owned}
    /\ \A p \in DOMAIN owned : p + owned[p] <= End(hdr, p - HDR) - FTR

(* The index holds holes, each once, smallest first (so the first that     *)
(* fits is the best), although merging changes sizes it is ordered by.     *)
IndexSound ==
    /\ Items(index) \subseteq Holes
    /\ NoDuplicates(index)
    /\ Ordered(index, BySize(hdr))

(* heap_free merges a block with the holes on both sides, so two holes are *)
(* next to each other only where heap_extend put one behind the other.     *)
HolesMerged ==
    \A a \in Holes : End(hdr, a) \in Holes => End(hdr, a) % PAGE = 0

(* A request is answered: heap_alloc does not call itself for ever, even   *)
(* though an extension need not be enough for a page-aligned request.      *)
RequestAnswered == call # Idle ~> call = Idle

(* Callers get memory of their own, aligned when they ask for it. *)
Allocator == INSTANCE Malloc WITH Addresses <- START .. LastEnd
ImplementsMalloc == Allocator!MallocSpec
=============================================================================
