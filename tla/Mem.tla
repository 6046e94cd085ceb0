-------------------------------- MODULE Mem --------------------------------
(***************************************************************************)
(* Physical and virtual pages: lib/mem.c without kmalloc and kfree.        *)
(*                                                                         *)
(* mem_init puts every physical page that is not the kernel's on one of    *)
(* two stacks, memstack1 below 16MB and memstack2 above, and builds the    *)
(* kernel's page directory.  psalloc_at_v then maps fresh pages for the    *)
(* heap, and kpfree_at_v unmaps a page.  psalloc_at_v takes one step per    *)
(* page, the others one step.                                              *)
(*                                                                         *)
(* Pages, physical and virtual, are numbered.  The contents of the page     *)
(* tables are a function pte of the virtual page; an entry counts only if  *)
(* the directory entry of its table is marked present.                     *)
(***************************************************************************)
EXTENDS Integers, Sequences, SequencesExt

CONSTANTS
    LIMIT,          \* the first page at or above 16MB: 4096
    KernelEnd,      \* pages up to the end of the kernel image: kmem_end_4k
    MemTotals,      \* possible numbers of physical pages: mem_total / 4
    ENTRIES,        \* entries in a page table, and in a page of a stack: 1024
    TABLES,         \* page tables the directory has places for
    HEAP_PAGES,     \* pages of the kernel heap that mem_init makes: 300
    Counts,         \* page counts given to psalloc_at_v
    FREE_WRAP,      \* what kpfree_at_v takes the page number modulo: 64 * ENTRIES
    FreeTables      \* page tables whose pages kpfree_at_v is called for

ASSUME MemAssumption ==
    /\ LIMIT \in Nat /\ KernelEnd \in 1 .. LIMIT - 1
    /\ \A n \in MemTotals : n \in Nat /\ n >= LIMIT
    /\ ENTRIES \in Nat \ {0} /\ TABLES \in Nat \ {0}
    /\ HEAP_PAGES \in Nat /\ Counts \subseteq Nat \ {0}
    /\ FREE_WRAP % ENTRIES = 0

VARIABLES
    mem_total,      \* physical pages of this machine
    memstack1,      \* free pages below LIMIT, top first
    memstack2,      \* free pages from LIMIT on, top first
    vpage_dir,      \* page directory: [table, present]
    pte,            \* page table entries, Absent when not present
    request,        \* psalloc_at_v: [virt, left], what it has still to map
    status          \* "init" until the heap has its pages, "ready", "panic", "fault"

vars == <<mem_total, memstack1, memstack2, vpage_dir, pte, request, status>>

Absent == -1
None == [virt |-> 0, left |-> 0]
VirtualPages == 0 .. TABLES * ENTRIES - 1

-----------------------------------------------------------------------------
(* The layout mem_init computes: the size of each stack, the pages left to *)
(* put on it, and the first of them.                                       *)
StackSize(pages) == 1 + pages \div ENTRIES

memstack1_size == StackSize(LIMIT - KernelEnd)
mem_lt_16 == LIMIT - KernelEnd - memstack1_size
memstack1_base == KernelEnd + memstack1_size

memstack2_size(total) == StackSize(total - LIMIT)
mem_ge_16(total) == total - LIMIT - memstack2_size(total)

\* Pages are pushed in ascending order, so the top is the highest.
Stacked(base, n) == [i \in 1 .. n |-> base + n - i]

\* Virtual pages in use after mem_init: the kernel and memstack1 where they
\* are, then memstack2.
Mapped1 == memstack1_base
Mapped2(total) == Mapped1 + memstack2_size(total)
HeapBase(total) == Mapped2(total)

TablesFor(pages) == (pages + ENTRIES - 1) \div ENTRIES

(* Bug in the code: a page table that is started while memstack2 is mapped *)
(* goes into the directory without the "present" bit.                      *)
InitDir(total) ==
    LET pages == Stacked(memstack1_base, mem_lt_16)
    IN  [i \in 0 .. TABLES - 1 |->
            IF i < TablesFor(Mapped2(total))
            THEN [table |-> pages[i + 2], present |-> i < TablesFor(Mapped1)]
            ELSE [table |-> 0, present |-> FALSE]]

InitPte(total) ==
    [v \in VirtualPages |->
        IF v < Mapped1 THEN v
        ELSE IF v < Mapped2(total) THEN LIMIT + v - Mapped1
        ELSE Absent]

(* mem_init up to its request for the pages of the heap.  The page          *)
(* directory and the page tables come off memstack1.                       *)
Init ==
    /\ mem_total \in MemTotals
    /\ LET taken == 1 + TablesFor(Mapped2(mem_total))
       IN  memstack1 = SubSeq(Stacked(memstack1_base, mem_lt_16), taken + 1, mem_lt_16)
    /\ memstack2 = Stacked(LIMIT + memstack2_size(mem_total), mem_ge_16(mem_total))
    /\ vpage_dir = InitDir(mem_total)
    /\ pte = InitPte(mem_total)
    /\ request = [virt |-> HeapBase(mem_total), left |-> HEAP_PAGES]
    /\ status = "init"

-----------------------------------------------------------------------------
(* ppalloc hands out memstack2 first; Take(n) is n calls of it. *)
FreePages == memstack2 \o memstack1

Rest(s, n) == SubSeq(s, n + 1, Len(s))

Take(n) ==
    /\ memstack2' = Rest(memstack2, n)
    /\ memstack1' = IF n > Len(memstack2) THEN Rest(memstack1, n - Len(memstack2)) ELSE memstack1

TableOf(v) == v \div ENTRIES
TablePresent(v) == vpage_dir[TableOf(v)].present

\* What a page table is cleared to when it is new.
Cleared(v) == [x \in VirtualPages |-> IF TableOf(x) = TableOf(v) THEN Absent ELSE pte[x]]

(* heap_extend asks for n pages at heap->end, or another caller for pages  *)
(* anywhere behind the heap's first page.                                  *)
Psalloc(v, n) ==
    /\ status = "ready" /\ request = None
    /\ v >= HeapBase(mem_total) /\ v + n - 1 \in VirtualPages
    /\ request' = [virt |-> v, left |-> n]
    /\ UNCHANGED <<mem_total, memstack1, memstack2, vpage_dir, pte, status>>

Mapping == request.left > 0 /\ status \in {"init", "ready"}

Advance ==
    /\ request' = IF request.left = 1 THEN None
                  ELSE [virt |-> request.virt + 1, left |-> request.left - 1]
    /\ status' = "ready"
    /\ UNCHANGED mem_total

\* Failure is a panic in mem_init and a return value later.
GiveUp ==
    /\ request' = None
    /\ status' = IF status = "init" THEN "panic" ELSE "ready"
    /\ UNCHANGED <<mem_total, vpage_dir, pte>>

(* palloc_at_v: ppalloc, and pmap finds the page table there. *)
MapPage ==
    LET v == request.virt
    IN  /\ Mapping
        /\ Len(FreePages) >= 1 /\ TablePresent(v) /\ pte[v] = Absent
        /\ pte' = [pte EXCEPT ![v] = FreePages[1]]
        /\ Take(1)
        /\ UNCHANGED vpage_dir
        /\ Advance

(* Bug: a new page table is made whether or not there is one. *)
MapNewTableAlways ==
    LET v == request.virt
    IN  /\ Mapping
        /\ Len(FreePages) >= 2
        /\ vpage_dir' = [vpage_dir EXCEPT ![TableOf(v)] = [table |-> FreePages[2], present |-> TRUE]]
        /\ pte' = [Cleared(v) EXCEPT ![v] = FreePages[1]]
        /\ Take(2)
        /\ Advance

(* palloc_at_v: pmap takes a further page for the page table. *)
MapNewTable ==
    LET v == request.virt
    IN  /\ Mapping
        /\ Len(FreePages) >= 2 /\ ~TablePresent(v)
        /\ vpage_dir' = [vpage_dir EXCEPT ![TableOf(v)] = [table |-> FreePages[2], present |-> TRUE]]
        /\ pte' = [Cleared(v) EXCEPT ![v] = FreePages[1]]
        /\ Take(2)
        /\ Advance

(* palloc_at_v: ppalloc has nothing left. *)
FailNoPage ==
    /\ Mapping
    /\ FreePages = <<>>
    /\ UNCHANGED <<memstack1, memstack2>>
    /\ GiveUp

(* palloc_at_v: pmap cannot get a page for the page table, or finds the    *)
(* virtual page in use.  The page ppalloc returned is not given back.      *)
FailNoTable ==
    /\ Mapping
    /\ Len(FreePages) = 1 /\ ~TablePresent(request.virt)
    /\ Take(1)
    /\ GiveUp

FailInUse ==
    /\ Mapping
    /\ Len(FreePages) >= 1 /\ TablePresent(request.virt) /\ pte[request.virt] # Absent
    /\ Take(1)
    /\ GiveUp

(* ppfree. *)
Ppfree(p) ==
    IF p < LIMIT THEN memstack1' = <<p>> \o memstack1 /\ memstack2' = memstack2
    ELSE memstack2' = <<p>> \o memstack2 /\ memstack1' = memstack1

(* The page table entry kpfree_at_v looks at: the mask for the index in    *)
(* the table keeps 16 bits of the page number instead of 10.               *)
FreeEntry(v) == TableOf(v) * ENTRIES + (v % FREE_WRAP)

(* Bug: the page table entry stays. *)
KpfreeKeepsEntry(v) ==
    /\ status = "ready" /\ request = None
    /\ v >= HeapBase(mem_total) /\ TableOf(v) \in FreeTables
    /\ FreeEntry(v) \in VirtualPages /\ pte[FreeEntry(v)] # Absent
    /\ Ppfree(pte[FreeEntry(v)])
    /\ UNCHANGED <<mem_total, vpage_dir, pte, request, status>>

(* Bug: the page is unmapped and not given back. *)
KpfreeForgetsPage(v) ==
    /\ status = "ready" /\ request = None
    /\ v >= HeapBase(mem_total) /\ TableOf(v) \in FreeTables
    /\ pte[v] # Absent
    /\ pte' = [pte EXCEPT ![v] = Absent]
    /\ UNCHANGED <<mem_total, memstack1, memstack2, vpage_dir, request, status>>

(* kpfree_at_v.  Reading an entry of a table that is not there, or beyond   *)
(* the last, is a page fault.                                              *)
Kpfree(v) ==
    /\ status = "ready" /\ request = None
    /\ v >= HeapBase(mem_total) /\ TableOf(v) \in FreeTables
    /\ TablePresent(v)
    /\ LET e == FreeEntry(v)
       IN  IF e \notin VirtualPages \/ ~vpage_dir[TableOf(e)].present
           THEN /\ status' = "fault"
                /\ UNCHANGED <<memstack1, memstack2, pte>>
           ELSE /\ pte[e] # Absent
                /\ Ppfree(pte[e])
                /\ pte' = [pte EXCEPT ![e] = Absent]
                /\ status' = status
    /\ UNCHANGED <<mem_total, vpage_dir, request>>

-----------------------------------------------------------------------------
(* The tables as the CPU walks them, and the kernel reads them: the last   *)
(* entry of the directory leads to the directory itself, so the last       *)
(* ENTRIES virtual pages are the page tables, and of those the last is the *)
(* directory.                                                              *)
kpage_dir == Stacked(memstack1_base, mem_lt_16)[1]
Window == ENTRIES - 1
DirEntry(i) ==
    IF i = Window THEN [table |-> kpage_dir, present |-> TRUE]
    ELSE IF i < TABLES THEN vpage_dir[i] ELSE [table |-> 0, present |-> FALSE]
TableIn(p) == CHOOSE i \in 0 .. TABLES - 1 : vpage_dir[i] = [table |-> p, present |-> TRUE]

\* The k-th entry in a physical page that is the directory or a page table.
Word(p, k) == IF p = kpage_dir THEN DirEntry(k).table ELSE pte[TableIn(p) * ENTRIES + k]
Walk(v) == Word(Word(kpage_dir, TableOf(v)), v % ENTRIES)

addr_v2p(v) == Word(Walk(Window * ENTRIES + TableOf(v)), v % ENTRIES)

\* Through vpage_dir, the last page there is, and vpage_tables.
get_page_table_entry_flags(v) ==
    IF Walk(ENTRIES * ENTRIES - 1) = kpage_dir /\ DirEntry(TableOf(v)).present
    THEN Word(Walk(Window * ENTRIES + TableOf(v)), v % ENTRIES) ELSE Absent

Next ==
    \/ \E v \in VirtualPages : Kpfree(v) \/ \E n \in Counts : Psalloc(v, n)
    \/ MapPage \/ MapNewTable
    \/ FailNoPage \/ FailNoTable \/ FailInUse

Spec == Init /\ [][Next]_vars

-----------------------------------------------------------------------------
Free == Range(FreePages)
TablePages == {kpage_dir} \cup
    {vpage_dir[i].table : i \in {j \in 0 .. TABLES - 1 : vpage_dir[j].present}}
Present(v) == TablePresent(v) /\ pte[v] # Absent
MappedPages == {pte[v] : v \in {x \in VirtualPages : Present(x)}}

(* Every variable has its type. *)
TypeOK ==
    /\ mem_total \in MemTotals
    /\ memstack1 \in Seq(0 .. mem_total - 1)
    /\ memstack2 \in Seq(0 .. mem_total - 1)
    /\ vpage_dir \in [0 .. TABLES - 1 -> [table : 0 .. mem_total - 1, present : BOOLEAN]]
    /\ pte \in [VirtualPages -> 0 .. mem_total - 1 \cup {Absent}]
    /\ request.virt \in VirtualPages /\ request.left \in Nat
    /\ status \in {"init", "ready", "panic", "fault"}

(* mem.c:60-64: "One is for memory before 16M, the other for after. The    *)
(* reason for having two stacks is that sometimes we may require some      *)
(* memory that is actually before the 16M mark."  It stays that way while  *)
(* pages are taken for the heap and given back.                            *)
StacksApart ==
    /\ Range(memstack1) \subseteq 0 .. LIMIT - 1
    /\ Range(memstack2) \subseteq LIMIT .. mem_total - 1

(* No physical page is used for two things: it is on a stack once, or it   *)
(* is the directory or a page table, or it is mapped at one address, and   *)
(* comes back to the stack it was on.                                      *)
PageUsedOnce ==
    /\ TypeOK
    /\ IsInjective(FreePages)
    /\ Free \cap (TablePages \cup MappedPages) = {}
    /\ TablePages \cap MappedPages = {}
    /\ \A v, w \in VirtualPages : Present(v) /\ Present(w) /\ pte[v] = pte[w] => v = w
    /\ StacksApart

(* mem.c:138-142: "All the memory up to the end of the kernel (including   *)
(* memstack1) will be identity mapped. memstack2 will then be mapped so    *)
(* that it appears to be straight after memstack1."  No later mapping      *)
(* disturbs that, and wherever a page is mapped, addr_v2p and               *)
(* get_page_table_entry_flags find its entry through the directory itself. *)
KernelMapped ==
    /\ \A v \in 0 .. Mapped2(mem_total) - 1 :
          /\ TablePresent(v)
          /\ pte[v] = IF v < Mapped1 THEN v ELSE LIMIT + v - Mapped1
    /\ \A v \in VirtualPages :
          /\ Present(v) => addr_v2p(v) = pte[v]
          /\ get_page_table_entry_flags(v) = IF Present(v) THEN pte[v] ELSE Absent

(* A page of memory is lost, neither free nor in use, only by a            *)
(* psalloc_at_v that fails, and then one page at a time.                   *)
Lost == (memstack1_base .. LIMIT - 1 \cup LIMIT + memstack2_size(mem_total) .. mem_total - 1)
            \ (Free \cup TablePages \cup MappedPages)
LostOnlyByFailure ==
    [][Lost' # Lost => /\ FailNoTable \/ FailInUse
                       /\ \E p \in Free : Lost' = Lost \cup {p}]_vars

(* mem.c:510, on the mask 0x0000FFFF: "Second 10 bits of 32 bit address".  *)
(* kpfree_at_v changes the page table entry of the page it was called for. *)
FreesItsPage ==
    [][\A v \in VirtualPages : Kpfree(v) => pte' = [pte EXCEPT ![v] = Absent]]_vars
=============================================================================
