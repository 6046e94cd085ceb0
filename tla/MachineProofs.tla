--------------------------- MODULE MachineProofs ---------------------------
(***************************************************************************)
(* Proofs about the two modules that are next to the machine.              *)
(*                                                                         *)
(* Mem: the page tables and the stacks of free pages, for every amount of  *)
(* memory, every size of the kernel, of a page table and of the heap.      *)
(*                                                                         *)
(* Frames: what is pushed on the stacks and popped from them, for every    *)
(* set of threads, interrupts and system calls.                            *)
(***************************************************************************)
EXTENDS Mem, Frames, TLAPS

(* There is room for what mem_init sets up: for the two stacks themselves,  *)
(* for the page tables in memory below 16MB and for the heap behind them.   *)
Roomy ==
    \A total \in MemTotals :
        /\ mem_ge_16(total) >= 0
        /\ 1 + TablesFor(Mapped2(total)) <= mem_lt_16
        /\ HEAP_PAGES > 0 /\ HeapBase(total) + HEAP_PAGES <= TABLES * ENTRIES

-----------------------------------------------------------------------------
(* A quotient of natural numbers is one. *)
LEMMA DivNat == ASSUME NEW a \in Nat, NEW b \in Nat, b > 0 PROVE a \div b \in Nat
OBVIOUS

(* A virtual page lies in a table the directory has a place for.           *)
LEMMA TableIndex == ASSUME NEW v \in VirtualPages PROVE TableOf(v) \in 0 .. TABLES - 1
<1>1. ENTRIES \in Nat /\ ENTRIES > 0 /\ TABLES \in Nat /\ TABLES > 0
  BY MemAssumption
<1>2. v \in Nat /\ v < TABLES * ENTRIES
  BY <1>1 DEF VirtualPages
<1> DEFINE q == v \div ENTRIES
<1>3. q \in Nat /\ v >= q * ENTRIES
  BY <1>1, <1>2
<1> HIDE DEF q
<1>4. q < TABLES
  <2>1. ASSUME q >= TABLES PROVE q * ENTRIES >= TABLES * ENTRIES
    BY <1>1, <1>3, <2>1
  <2> QED  BY <1>1, <1>2, <1>3, <2>1
<1> QED  BY <1>1, <1>3, <1>4 DEF TableOf, q

(* What is left of a stack when k pages have been taken. *)
LEMMA RestOf ==
    ASSUME NEW P, NEW s \in Seq(P), NEW k \in Nat
    PROVE  /\ Rest(s, k) \in Seq(P)
           /\ k <= Len(s) => Len(Rest(s, k)) = Len(s) - k
           /\ k > Len(s) => Len(Rest(s, k)) = 0
           /\ \A i \in 1 .. Len(Rest(s, k)) : Rest(s, k)[i] = s[i + k]
           /\ Range(Rest(s, k)) \subseteq Range(s)
<1>1. /\ Rest(s, k) \in Seq(P)
      /\ k <= Len(s) => Len(Rest(s, k)) = Len(s) - k
      /\ k > Len(s) => Len(Rest(s, k)) = 0
      /\ \A i \in 1 .. Len(Rest(s, k)) : Rest(s, k)[i] = s[i + k]
  BY DEF Rest
<1> DEFINE r == Rest(s, k)
<1>2. \A i \in 1 .. Len(r) : i + k \in 1 .. Len(s)
  BY <1>1
<1>3. DOMAIN r = 1 .. Len(r) /\ DOMAIN s = 1 .. Len(s)
  BY <1>1
<1> HIDE DEF r
<1>4. Range(r) \subseteq Range(s)
  <2> SUFFICES ASSUME NEW i \in 1 .. Len(r) PROVE r[i] \in Range(s)
    BY <1>3, Zenon DEF Range
  <2> QED  BY <1>1, <1>2, <1>3, Zenon DEF Range, r
<1> QED  BY <1>1, <1>4 DEF r

(* An element of a sequence over P is in P. *)
LEMMA ElementOf ==
    ASSUME NEW P, NEW s \in Seq(P), NEW i \in 1 .. Len(s)
    PROVE  s[i] \in P
OBVIOUS

(* A sequence is over any set that holds its elements. *)
LEMMA ElementsIn ==
    ASSUME NEW P, NEW Q, NEW s \in Seq(P), \A i \in 1 .. Len(s) : s[i] \in Q
    PROVE  s \in Seq(Q)
<1>1. Len(s) \in Nat /\ s \in [1 .. Len(s) -> P]
  OBVIOUS
<1>2. s \in [1 .. Len(s) -> Q]
  BY <1>1
<1> QED  BY <1>1, <1>2

(* IsInjective, with the domain of a sequence written out. *)
LEMMA Injective ==
    ASSUME NEW P, NEW s \in Seq(P)
    PROVE  IsInjective(s) <=> \A i, j \in 1 .. Len(s) : s[i] = s[j] => i = j
BY DEF IsInjective

(* Free pages taken from the top of the stacks. *)
LEMMA TakeFree ==
    ASSUME NEW P, memstack1 \in Seq(P), memstack2 \in Seq(P),
           NEW n \in 1 .. 2, n <= Len(FreePages), Take(n)
    PROVE  /\ memstack1' \in Seq(P) /\ memstack2' \in Seq(P)
           /\ Range(memstack1') \subseteq Range(memstack1)
           /\ Range(memstack2') \subseteq Range(memstack2)
           /\ Len(FreePages') = Len(FreePages) - n
           /\ \A i \in 1 .. Len(FreePages') : FreePages'[i] = FreePages[i + n]
<1>1. FreePages' = memstack2' \o memstack1'
  BY DEF FreePages
<1>2. /\ memstack2' \in Seq(P) /\ Range(memstack2') \subseteq Range(memstack2)
      /\ n <= Len(memstack2) => Len(memstack2') = Len(memstack2) - n
      /\ n > Len(memstack2) => Len(memstack2') = 0
      /\ \A i \in 1 .. Len(memstack2') : memstack2'[i] = memstack2[i + n]
  BY RestOf DEF Take
<1> DEFINE a == Len(memstack2)
           b == Len(memstack2')
<1>5. a \in Nat /\ b \in Nat /\ Len(memstack1) \in Nat
  BY <1>2
<1>3. CASE n <= Len(memstack2)
  <2>1. memstack1' = memstack1
    BY <1>3 DEF Take
  <2>2. Len(memstack2 \o memstack1) = Len(memstack2) + Len(memstack1)
    OBVIOUS
  <2>3. Len(FreePages') = Len(FreePages) - n
    <3>1. Len(memstack2' \o memstack1) = Len(memstack2') + Len(memstack1)
      BY <1>2
    <3>2. Len(FreePages') = Len(memstack2') + Len(memstack1)
      BY <1>1, <2>1, <3>1
    <3>3. Len(FreePages) = Len(memstack2) + Len(memstack1)
      BY <2>2 DEF FreePages
    <3>4. b = a - n
      BY <1>2, <1>3
    <3> HIDE DEF a, b
    <3> QED  BY <1>5, <3>2, <3>3, <3>4 DEF a, b
  <2>4. ASSUME NEW i \in 1 .. Len(FreePages') PROVE FreePages'[i] = FreePages[i + n]
    <3>1. CASE i <= Len(memstack2')
      BY <1>1, <1>2, <1>3, <2>1, <2>3, <3>1 DEF FreePages
    <3>2. CASE i > Len(memstack2')
      <4>1. FreePages'[i] = memstack1[i - Len(memstack2')]
        BY <1>1, <1>2, <1>3, <2>1, <2>3, <3>2
      <4>2. FreePages[i + n] = memstack1[i + n - Len(memstack2)]
        BY <1>2, <1>3, <2>2, <2>3, <3>2 DEF FreePages
      <4>3. i - Len(memstack2') = i + n - Len(memstack2)
        <5>1. b = a - n
          BY <1>2, <1>3
        <5> HIDE DEF a, b
        <5>2. i - b = i + n - a
          BY <1>5, <5>1
        <5> QED  BY <5>2 DEF a, b
      <4> QED  BY <4>1, <4>2, <4>3
    <3> QED  BY <1>2, <3>1, <3>2
  <2> QED  BY <1>2, <2>1, <2>3, <2>4
<1>4. CASE n > Len(memstack2)
  <2> DEFINE k == n - Len(memstack2)
  <2>1. k \in Nat /\ memstack1' = Rest(memstack1, k) /\ k <= Len(memstack1)
    BY <1>4 DEF Take, FreePages
  <2>2. /\ memstack1' \in Seq(P) /\ Range(memstack1') \subseteq Range(memstack1)
        /\ Len(memstack1') = Len(memstack1) - k
        /\ \A i \in 1 .. Len(memstack1') : memstack1'[i] = memstack1[i + k]
    BY <2>1, RestOf
  <2> QED  BY <1>1, <1>2, <1>4, <2>1, <2>2 DEF FreePages
<1> QED  BY <1>3, <1>4

(* The pages taken are no longer free, and nothing else has changed. *)
LEMMA TakenNotFree ==
    ASSUME NEW P, memstack1 \in Seq(P), memstack2 \in Seq(P), IsInjective(FreePages),
           NEW n \in 1 .. 2, n <= Len(FreePages), Take(n)
    PROVE  /\ IsInjective(FreePages)'
           /\ Free' = Free \ {FreePages[i] : i \in 1 .. n}
           /\ \A i \in 1 .. n : FreePages[i] \in Free
<1>1. FreePages \in Seq(P) /\ FreePages' \in Seq(P)
  BY TakeFree DEF FreePages
<1>2. /\ Len(FreePages') = Len(FreePages) - n
      /\ \A i \in 1 .. Len(FreePages') : FreePages'[i] = FreePages[i + n]
  BY TakeFree
<1>3. \A i, j \in 1 .. Len(FreePages) : FreePages[i] = FreePages[j] => i = j
  BY <1>1, Injective
<1> DEFINE new == FreePages'
<1>4. IsInjective(new)
  <2>1. \A i, j \in 1 .. Len(new) : new[i] = new[j] => i = j
    <3> SUFFICES ASSUME NEW i \in 1 .. Len(new), NEW j \in 1 .. Len(new), new[i] = new[j]
                 PROVE  i = j
      OBVIOUS
    <3>1. Len(new) \in Nat /\ Len(FreePages) \in Nat
      BY <1>1
    <3>2. i + n \in 1 .. Len(FreePages) /\ j + n \in 1 .. Len(FreePages)
      BY <1>2, <3>1
    <3>3. FreePages[i + n] = FreePages[j + n]
      BY <1>2
    <3>4. i + n = j + n
      BY <1>3, <3>2, <3>3
    <3> QED  BY <3>1, <3>4
  <2>2. new \in Seq(P)
    BY <1>1
  <2> HIDE DEF new
  <2> QED  BY <2>1, <2>2, Injective
<1>5. Free' = {new[i] : i \in 1 .. Len(new)} /\ Free = {FreePages[i] : i \in 1 .. Len(FreePages)}
  BY <1>1 DEF Free, Range
<1>6. ASSUME NEW p \in Free' PROVE p \in Free \ {FreePages[i] : i \in 1 .. n}
  BY <1>1, <1>2, <1>3, <1>5
<1>7. ASSUME NEW p \in Free, p \notin {FreePages[i] : i \in 1 .. n} PROVE p \in Free'
  <2>1. PICK j \in 1 .. Len(FreePages) : p = FreePages[j]
    BY <1>5
  <2>2. j > n
    BY <1>7, <2>1
  <2>3. j - n \in 1 .. Len(new)
    <3>1. Len(FreePages) \in Nat
      BY <1>1
    <3> QED  BY <1>2, <2>1, <2>2, <3>1
  <2>4. new[j - n] = FreePages[(j - n) + n] /\ (j - n) + n = j
    BY <1>2, <2>1, <2>3
  <2> QED  BY <1>5, <2>1, <2>3, <2>4
<1>8. \A i \in 1 .. n : FreePages[i] \in Free
  BY <1>1, <1>5
<1> QED  BY <1>4, <1>6, <1>7, <1>8 DEF IsInjective

-----------------------------------------------------------------------------
(* The elements of a concatenation. *)
LEMMA ConcatRange ==
    ASSUME NEW P, NEW s \in Seq(P), NEW t \in Seq(P)
    PROVE  Range(s \o t) = Range(s) \cup Range(t)
<1>1. /\ s \o t \in Seq(P) /\ Len(s \o t) = Len(s) + Len(t) /\ Len(s) \in Nat /\ Len(t) \in Nat
      /\ \A i \in 1 .. Len(s) : (s \o t)[i] = s[i]
      /\ \A i \in 1 .. Len(t) : (s \o t)[Len(s) + i] = t[i]
  OBVIOUS
<1>2. /\ Range(s \o t) = {(s \o t)[i] : i \in 1 .. Len(s \o t)}
      /\ Range(s) = {s[i] : i \in 1 .. Len(s)} /\ Range(t) = {t[i] : i \in 1 .. Len(t)}
  BY <1>1 DEF Range
<1>3. Range(s) \subseteq Range(s \o t)
  <2> SUFFICES ASSUME NEW i \in 1 .. Len(s) PROVE s[i] \in Range(s \o t)
    BY <1>2
  <2>1. i \in 1 .. Len(s \o t) /\ (s \o t)[i] = s[i]
    BY <1>1
  <2> QED  BY <1>2, <2>1
<1>4. Range(t) \subseteq Range(s \o t)
  <2> SUFFICES ASSUME NEW i \in 1 .. Len(t) PROVE t[i] \in Range(s \o t)
    BY <1>2
  <2>1. Len(s) + i \in 1 .. Len(s \o t) /\ (s \o t)[Len(s) + i] = t[i]
    BY <1>1
  <2> QED  BY <1>2, <2>1
<1>5. ASSUME NEW i \in 1 .. Len(s \o t) PROVE (s \o t)[i] \in Range(s) \cup Range(t)
  <2>1. CASE i <= Len(s)
    <3>1. i \in 1 .. Len(s) /\ (s \o t)[i] = s[i]
      BY <1>1, <2>1
    <3> QED  BY <1>2, <3>1
  <2>2. CASE i > Len(s)
    <3>1. i - Len(s) \in 1 .. Len(t) /\ (s \o t)[i] = t[i - Len(s)]
      BY <1>1, <2>2
    <3> QED  BY <1>2, <3>1
  <2> QED  BY <1>1, <2>1, <2>2
<1> QED  BY <1>2, <1>3, <1>4, <1>5

(* A concatenation repeats nothing exactly when neither part does and      *)
(* they share nothing.                                                     *)
LEMMA ConcatInjective ==
    ASSUME NEW P, NEW s \in Seq(P), NEW t \in Seq(P)
    PROVE  IsInjective(s \o t) <=>
               IsInjective(s) /\ IsInjective(t) /\ Range(s) \cap Range(t) = {}
<1>1. /\ s \o t \in Seq(P) /\ Len(s \o t) = Len(s) + Len(t) /\ Len(s) \in Nat /\ Len(t) \in Nat
      /\ \A i \in 1 .. Len(s) : (s \o t)[i] = s[i]
      /\ \A i \in 1 .. Len(t) : (s \o t)[Len(s) + i] = t[i]
  OBVIOUS
<1>2. Range(s) = {s[i] : i \in 1 .. Len(s)} /\ Range(t) = {t[i] : i \in 1 .. Len(t)}
  BY <1>1 DEF Range
<1>3. ASSUME IsInjective(s \o t)
      PROVE  IsInjective(s) /\ IsInjective(t) /\ Range(s) \cap Range(t) = {}
  <2>1. \A i, j \in 1 .. Len(s \o t) : (s \o t)[i] = (s \o t)[j] => i = j
    BY <1>1, <1>3, Injective
  <2>2. IsInjective(s)
    <3>1. \A i, j \in 1 .. Len(s) : s[i] = s[j] => i = j
      BY <1>1, <2>1
    <3> QED  BY <3>1, Injective
  <2>3. IsInjective(t)
    <3>1. ASSUME NEW i \in 1 .. Len(t), NEW j \in 1 .. Len(t), t[i] = t[j] PROVE i = j
      <4>1. Len(s) + i \in 1 .. Len(s \o t) /\ Len(s) + j \in 1 .. Len(s \o t)
        BY <1>1
      <4>2. Len(s) + i = Len(s) + j
        BY <1>1, <2>1, <3>1, <4>1
      <4> QED  BY <1>1, <4>2
    <3> QED  BY <3>1, Injective
  <2>4. ASSUME NEW i \in 1 .. Len(s), NEW j \in 1 .. Len(t) PROVE s[i] # t[j]
    <3>1. i \in 1 .. Len(s \o t) /\ Len(s) + j \in 1 .. Len(s \o t) /\ i # Len(s) + j
      BY <1>1
    <3> QED  BY <1>1, <2>1, <3>1
  <2> QED  BY <1>2, <2>2, <2>3, <2>4
<1>4. ASSUME IsInjective(s), IsInjective(t), Range(s) \cap Range(t) = {}
      PROVE  IsInjective(s \o t)
  <2>1. \A i, j \in 1 .. Len(s) : s[i] = s[j] => i = j
    BY <1>4, Injective
  <2>2. \A i, j \in 1 .. Len(t) : t[i] = t[j] => i = j
    BY <1>4, Injective
  <2>3. \A i \in 1 .. Len(s), j \in 1 .. Len(t) : s[i] # t[j]
    BY <1>2, <1>4
  <2>4. ASSUME NEW i \in 1 .. Len(s \o t)
        PROVE  \/ i \in 1 .. Len(s) /\ (s \o t)[i] = s[i]
               \/ i > Len(s) /\ i - Len(s) \in 1 .. Len(t) /\ (s \o t)[i] = t[i - Len(s)]
    BY <1>1
  <2>5. ASSUME NEW i \in 1 .. Len(s \o t), NEW j \in 1 .. Len(s \o t), (s \o t)[i] = (s \o t)[j]
        PROVE  i = j
    <3>1. CASE i > Len(s) /\ j > Len(s)
      <4>1. i - Len(s) = j - Len(s)
        BY <1>1, <2>2, <2>4, <2>5, <3>1
      <4> QED  BY <1>1, <4>1
    <3>2. CASE ~(i > Len(s)) /\ ~(j > Len(s))
      BY <2>1, <2>4, <2>5, <3>2
    <3> QED  BY <2>3, <2>4, <2>5, <3>1, <3>2
  <2> QED  BY <1>1, <2>5, Injective
<1> QED  BY <1>3, <1>4

(* A page given back is free again, once, on the stack it belongs to. *)
LEMMA GivenBack ==
    ASSUME NEW P, memstack1 \in Seq(P), memstack2 \in Seq(P), IsInjective(FreePages),
           NEW p \in P, p \notin Free, Ppfree(p)
    PROVE  /\ memstack1' \in Seq(P) /\ memstack2' \in Seq(P)
           /\ Range(memstack1') = Range(memstack1) \cup (IF p < LIMIT THEN {p} ELSE {})
           /\ Range(memstack2') = Range(memstack2) \cup (IF p < LIMIT THEN {} ELSE {p})
           /\ IsInjective(FreePages)'
           /\ Free' = Free \cup {p}
<1>1. <<p>> \in Seq(P) /\ IsInjective(<<p>>) /\ Range(<<p>>) = {p}
  BY DEF IsInjective, Range
<1>2. /\ IsInjective(memstack1) /\ IsInjective(memstack2)
      /\ Range(memstack1) \cap Range(memstack2) = {} /\ Free = Range(memstack1) \cup Range(memstack2)
  BY ConcatInjective, ConcatRange DEF FreePages, Free
<1>3. p \notin Range(memstack1) /\ p \notin Range(memstack2)
  BY <1>2
<1>4. /\ memstack1' \in Seq(P) /\ memstack2' \in Seq(P)
      /\ Range(memstack1') = Range(memstack1) \cup (IF p < LIMIT THEN {p} ELSE {})
      /\ Range(memstack2') = Range(memstack2) \cup (IF p < LIMIT THEN {} ELSE {p})
      /\ IsInjective(memstack1') /\ IsInjective(memstack2')
  <2> DEFINE one == <<p>>
  <2>1. /\ one \o memstack1 \in Seq(P) /\ one \o memstack2 \in Seq(P)
        /\ Range(one \o memstack1) = {p} \cup Range(memstack1)
        /\ Range(one \o memstack2) = {p} \cup Range(memstack2)
        /\ IsInjective(one \o memstack1) /\ IsInjective(one \o memstack2)
    <3> HIDE DEF one
    <3>1. one \in Seq(P) /\ IsInjective(one) /\ Range(one) = {p}
      BY <1>1 DEF one
    <3>2. one \o memstack1 \in Seq(P) /\ one \o memstack2 \in Seq(P)
      BY <3>1
    <3>3. Range(one \o memstack1) = {p} \cup Range(memstack1)
      BY <3>1, ConcatRange
    <3>4. Range(one \o memstack2) = {p} \cup Range(memstack2)
      BY <3>1, ConcatRange
    <3>5. Range(one) \cap Range(memstack1) = {} /\ Range(one) \cap Range(memstack2) = {}
      BY <1>3, <3>1
    <3>6. IsInjective(one \o memstack1)
      BY <1>2, <3>1, <3>5, ConcatInjective
    <3>7. IsInjective(one \o memstack2)
      BY <1>2, <3>1, <3>5, ConcatInjective
    <3> QED  BY <3>2, <3>3, <3>4, <3>6, <3>7
  <2>2. CASE p < LIMIT
    BY <1>2, <2>1, <2>2 DEF Ppfree
  <2>3. CASE ~(p < LIMIT)
    BY <1>2, <2>1, <2>3 DEF Ppfree
  <2> QED  BY <2>2, <2>3
<1>5. Range(memstack2') \cap Range(memstack1') = {}
  BY <1>2, <1>3, <1>4
<1>6. IsInjective(memstack2' \o memstack1') /\ Free' = Range(memstack2') \cup Range(memstack1')
  BY <1>4, <1>5, ConcatInjective, ConcatRange DEF Free, FreePages
<1>7. Free' = Free \cup {p}
  BY <1>2, <1>4, <1>6
<1> QED  BY <1>4, <1>6, <1>7 DEF FreePages

-----------------------------------------------------------------------------
(* The inductive invariant.  PageUsedOnce alone is not inductive: a page    *)
(* table that is in the directory twice would be cleared for both, and a   *)
(* request must not run past the last virtual page.                        *)
TablesApart ==
    /\ kpage_dir \notin Free
    /\ \A i \in 0 .. TABLES - 1 : vpage_dir[i].present =>
          /\ vpage_dir[i].table # kpage_dir
          /\ \A j \in 0 .. TABLES - 1 :
                vpage_dir[j].present /\ vpage_dir[j].table = vpage_dir[i].table => i = j

RequestFits ==
    request.left > 0 =>
        /\ request.virt >= HeapBase(mem_total)
        /\ request.virt + request.left - 1 \in VirtualPages

PagesInv == PageUsedOnce /\ TablesApart /\ RequestFits

-----------------------------------------------------------------------------
(* What each step does with the pages. *)
LEMMA MapPagePages ==
    ASSUME PagesInv, MapPage
    PROVE  /\ request.virt \in VirtualPages /\ FreePages[1] \in Free
           /\ memstack1' \in Seq(0 .. mem_total - 1) /\ memstack2' \in Seq(0 .. mem_total - 1)
           /\ StacksApart'
           /\ IsInjective(FreePages)'
           /\ Free' = Free \ {FreePages[1]}
           /\ TablePages' = TablePages
           /\ \A x \in VirtualPages : Present(x)' <=> Present(x) \/ x = request.virt
           /\ ~Present(request.virt)
           /\ MappedPages' = MappedPages \cup {FreePages[1]}
<1> DEFINE v == request.virt
           p == FreePages[1]
<1>1. /\ memstack1 \in Seq(0 .. mem_total - 1) /\ memstack2 \in Seq(0 .. mem_total - 1)
      /\ pte \in [VirtualPages -> 0 .. mem_total - 1 \cup {Absent}]
      /\ v \in VirtualPages
  BY DEF PagesInv, PageUsedOnce, TypeOK
<1>2. 1 <= Len(FreePages) /\ Take(1) /\ IsInjective(FreePages)
  BY DEF MapPage, PagesInv, PageUsedOnce
<1>3. /\ memstack1' \in Seq(0 .. mem_total - 1) /\ memstack2' \in Seq(0 .. mem_total - 1)
      /\ Range(memstack1') \subseteq Range(memstack1) /\ Range(memstack2') \subseteq Range(memstack2)
  BY <1>1, <1>2, TakeFree
<1>4. IsInjective(FreePages)' /\ Free' = Free \ {p} /\ p \in Free
  BY <1>1, <1>2, TakenNotFree
<1>5. mem_total' = mem_total /\ vpage_dir' = vpage_dir /\ pte' = [pte EXCEPT ![v] = p]
  BY DEF MapPage, Advance
<1>6. StacksApart'
  BY <1>3, <1>5 DEF PagesInv, PageUsedOnce, StacksApart
<1>7. TablePages' = TablePages
  BY <1>5 DEF TablePages
<1>8. p # Absent
  <2>1. FreePages \in Seq(0 .. mem_total - 1)
    BY <1>1 DEF FreePages
  <2>2. p \in 0 .. mem_total - 1
    <3>1. Len(FreePages) \in Nat
      BY <2>1
    <3>2. 1 \in 1 .. Len(FreePages)
      BY <1>2, <3>1
    <3> QED  BY <2>1, <3>2, ElementOf
  <2>3. mem_total \in Nat
    BY MemAssumption DEF PagesInv, PageUsedOnce, TypeOK
  <2> QED  BY <2>2, <2>3 DEF Absent
<1>9. TablePresent(v) /\ pte[v] = Absent
  BY DEF MapPage
<1>10. ASSUME NEW x \in VirtualPages
       PROVE  /\ Present(x)' <=> Present(x) \/ x = v
              /\ pte'[x] = IF x = v THEN p ELSE pte[x]
  BY <1>1, <1>5, <1>8, <1>9 DEF Present, TablePresent
<1>11. ~Present(v)
  BY <1>9 DEF Present
<1>12. MappedPages' = {pte'[x] : x \in {y \in VirtualPages : Present(y)'}}
  BY DEF MappedPages
<1>13. MappedPages' = MappedPages \cup {p}
  <2> HIDE DEF v, p
  <2>1. \A x \in VirtualPages : Present(x) => x # v
    BY <1>11
  <2> QED  BY <1>1, <1>10, <1>12, <2>1 DEF MappedPages
<1> QED  BY <1>1, <1>3, <1>4, <1>6, <1>7, <1>10, <1>11, <1>13

(* What a step that starts a page table does to the pages. *)
LEMMA MapNewTablePages ==
    ASSUME PagesInv, MapNewTable
    PROVE  /\ request.virt \in VirtualPages
           /\ FreePages[1] \in Free /\ FreePages[2] \in Free /\ FreePages[1] # FreePages[2]
           /\ memstack1' \in Seq(0 .. mem_total - 1) /\ memstack2' \in Seq(0 .. mem_total - 1)
           /\ StacksApart'
           /\ IsInjective(FreePages)'
           /\ Free' = Free \ {FreePages[1], FreePages[2]}
           /\ TablePages' = TablePages \cup {FreePages[2]}
           /\ \A x \in VirtualPages :
                 /\ Present(x)' <=> Present(x) \/ x = request.virt
                 /\ Present(x) => pte'[x] = pte[x]
           /\ pte'[request.virt] = FreePages[1]
           /\ ~Present(request.virt)
           /\ MappedPages' = MappedPages \cup {FreePages[1]}
<1> DEFINE v == request.virt
           p == FreePages[1]
           q == FreePages[2]
<1>1. /\ memstack1 \in Seq(0 .. mem_total - 1) /\ memstack2 \in Seq(0 .. mem_total - 1)
      /\ pte \in [VirtualPages -> 0 .. mem_total - 1 \cup {Absent}]
      /\ vpage_dir \in [0 .. TABLES - 1 -> [table : 0 .. mem_total - 1, present : BOOLEAN]]
      /\ v \in VirtualPages /\ TableOf(v) \in 0 .. TABLES - 1
  BY TableIndex DEF PagesInv, PageUsedOnce, TypeOK
<1>2. 2 <= Len(FreePages) /\ Take(2) /\ IsInjective(FreePages) /\ FreePages \in Seq(0 .. mem_total - 1)
  BY <1>1 DEF MapNewTable, PagesInv, PageUsedOnce, FreePages
<1>3. /\ memstack1' \in Seq(0 .. mem_total - 1) /\ memstack2' \in Seq(0 .. mem_total - 1)
      /\ Range(memstack1') \subseteq Range(memstack1) /\ Range(memstack2') \subseteq Range(memstack2)
  BY <1>1, <1>2, TakeFree
<1>4. /\ IsInjective(FreePages)' /\ Free' = Free \ {FreePages[i] : i \in 1 .. 2}
      /\ \A i \in 1 .. 2 : FreePages[i] \in Free
  BY <1>1, <1>2, TakenNotFree
<1>5. Free' = Free \ {p, q} /\ p \in Free /\ q \in Free
  BY <1>4
<1>6. p # q
  <2>1. \A i, j \in 1 .. Len(FreePages) : FreePages[i] = FreePages[j] => i = j
    BY <1>2, Injective
  <2> QED  BY <1>2, <2>1
<1>7. /\ mem_total' = mem_total
      /\ vpage_dir' = [vpage_dir EXCEPT ![TableOf(v)] = [table |-> q, present |-> TRUE]]
      /\ pte' = [Cleared(v) EXCEPT ![v] = p]
      /\ ~TablePresent(v)
  BY DEF MapNewTable, Advance
<1>8. StacksApart'
  BY <1>3, <1>7 DEF PagesInv, PageUsedOnce, StacksApart
<1>9. \A i \in 0 .. TABLES - 1 :
          vpage_dir'[i] = IF i = TableOf(v) THEN [table |-> q, present |-> TRUE] ELSE vpage_dir[i]
  BY <1>1, <1>7
<1>10. TablePages' = TablePages \cup {q}
  <2> HIDE DEF p, q
  <2>1. TablePages' = {kpage_dir} \cup
            {vpage_dir'[i].table : i \in {j \in 0 .. TABLES - 1 : vpage_dir'[j].present}}
    BY DEF TablePages, kpage_dir
  <2>2. ~vpage_dir[TableOf(v)].present
    BY <1>7 DEF TablePresent
  <2> QED  BY <1>1, <1>9, <2>1, <2>2, SMTT(30) DEF TablePages
<1>11. p # Absent
  <2>1. p \in 0 .. mem_total - 1
    <3>1. Len(FreePages) \in Nat
      BY <1>2
    <3>2. 1 \in 1 .. Len(FreePages)
      BY <1>2, <3>1
    <3> QED  BY <1>2, <3>2, ElementOf
  <2>2. mem_total \in Nat
    BY MemAssumption DEF PagesInv, PageUsedOnce, TypeOK
  <2> QED  BY <2>1, <2>2 DEF Absent
<1>12. \A x \in VirtualPages :
          pte'[x] = IF x = v THEN p ELSE IF TableOf(x) = TableOf(v) THEN Absent ELSE pte[x]
  BY <1>1, <1>7 DEF Cleared
<1>13. ASSUME NEW x \in VirtualPages
       PROVE  /\ Present(x)' <=> Present(x) \/ x = v
              /\ Present(x) => pte'[x] = pte[x]
  <2>1. TableOf(x) \in 0 .. TABLES - 1
    BY TableIndex
  <2>2. Present(x)' <=> vpage_dir'[TableOf(x)].present /\ pte'[x] # Absent
    BY DEF Present, TablePresent, TableOf
  <2> HIDE DEF v, p, q
  <2> QED  BY <1>7, <1>9, <1>11, <1>12, <2>1, <2>2 DEF Present, TablePresent
<1>14. ~Present(v) /\ pte'[v] = p
  BY <1>1, <1>7, <1>12 DEF Present
<1>15. MappedPages' = {pte'[x] : x \in {y \in VirtualPages : Present(y)'}}
  BY DEF MappedPages
<1>16. MappedPages' = MappedPages \cup {p}
  <2> HIDE DEF v, p
  <2> QED  BY <1>1, <1>13, <1>14, <1>15 DEF MappedPages
<1> QED  BY <1>1, <1>3, <1>4, <1>5, <1>6, <1>8, <1>10, <1>13, <1>14, <1>16

(* What kpfree_at_v does to the pages. *)
LEMMA KpfreePages ==
    ASSUME PagesInv, NEW v \in VirtualPages, Kpfree(v)
    PROVE  \/ /\ UNCHANGED <<memstack1, memstack2, vpage_dir, pte>>
              /\ status' = "fault"
           \/ \E e \in VirtualPages :
              /\ e = FreeEntry(v) /\ Present(e)
              /\ pte' = [pte EXCEPT ![e] = Absent]
              /\ memstack1' \in Seq(0 .. mem_total - 1) /\ memstack2' \in Seq(0 .. mem_total - 1)
              /\ StacksApart'
              /\ IsInjective(FreePages)'
              /\ Free' = Free \cup {pte[e]}
              /\ TablePages' = TablePages
              /\ \A x \in VirtualPages : Present(x)' <=> Present(x) /\ x # e
              /\ MappedPages' = MappedPages \ {pte[e]}
              /\ status' = status
<1> DEFINE e == FreeEntry(v)
<1>1. CASE e \notin VirtualPages \/ ~vpage_dir[TableOf(e)].present
  BY <1>1 DEF Kpfree
<1>2. CASE ~(e \notin VirtualPages \/ ~vpage_dir[TableOf(e)].present)
  <2>1. /\ pte[e] # Absent /\ Ppfree(pte[e]) /\ pte' = [pte EXCEPT ![e] = Absent]
        /\ status' = status /\ vpage_dir' = vpage_dir /\ mem_total' = mem_total
    BY <1>2 DEF Kpfree
  <2>2. e \in VirtualPages /\ Present(e)
    BY <1>2, <2>1 DEF Present, TablePresent
  <2> HIDE DEF e
  <2>3. /\ memstack1 \in Seq(0 .. mem_total - 1) /\ memstack2 \in Seq(0 .. mem_total - 1)
        /\ pte \in [VirtualPages -> 0 .. mem_total - 1 \cup {Absent}]
        /\ IsInjective(FreePages)
    BY DEF PagesInv, PageUsedOnce, TypeOK
  <2> DEFINE p == pte[e]
  <2>4. p \in 0 .. mem_total - 1 /\ p \in MappedPages /\ p \notin Free
    BY <2>1, <2>2, <2>3 DEF MappedPages, PagesInv, PageUsedOnce
  <2>5. /\ memstack1' \in Seq(0 .. mem_total - 1) /\ memstack2' \in Seq(0 .. mem_total - 1)
        /\ Range(memstack1') = Range(memstack1) \cup (IF p < LIMIT THEN {p} ELSE {})
        /\ Range(memstack2') = Range(memstack2) \cup (IF p < LIMIT THEN {} ELSE {p})
        /\ IsInjective(FreePages)'
        /\ Free' = Free \cup {p}
    BY <2>1, <2>3, <2>4, GivenBack
  <2>6. StacksApart'
    <3>1. StacksApart /\ LIMIT \in Nat /\ mem_total \in Nat
      BY MemAssumption DEF PagesInv, PageUsedOnce, TypeOK
    <3> HIDE DEF p
    <3> QED  BY <2>1, <2>4, <2>5, <3>1 DEF StacksApart
  <2>7. TablePages' = TablePages
    BY <2>1 DEF TablePages
  <2>8. ASSUME NEW x \in VirtualPages
        PROVE  /\ Present(x)' <=> Present(x) /\ x # e
               /\ pte'[x] = IF x = e THEN Absent ELSE pte[x]
    BY <2>1, <2>2, <2>3 DEF Present, TablePresent
  <2>9. MappedPages' = {pte'[x] : x \in {y \in VirtualPages : Present(y)'}}
    BY DEF MappedPages
  <2>10. \A x \in VirtualPages : Present(x) /\ x # e => pte[x] # pte[e]
    BY <2>2 DEF PagesInv, PageUsedOnce
  <2>11. MappedPages' = MappedPages \ {pte[e]}
    BY <2>8, <2>9, <2>10 DEF MappedPages
  <2> QED  BY <2>1, <2>2, <2>5, <2>6, <2>7, <2>8, <2>11 DEF e
<1> QED  BY <1>1, <1>2

(* A psalloc_at_v that fails loses at most the page it has just taken. *)
LEMMA FailurePages ==
    ASSUME PagesInv, FailNoTable \/ FailInUse
    PROVE  /\ UNCHANGED <<mem_total, vpage_dir, pte>>
           /\ FreePages[1] \in Free
           /\ memstack1' \in Seq(0 .. mem_total - 1) /\ memstack2' \in Seq(0 .. mem_total - 1)
           /\ StacksApart'
           /\ IsInjective(FreePages)'
           /\ Free' = Free \ {FreePages[1]}
<1>1. /\ memstack1 \in Seq(0 .. mem_total - 1) /\ memstack2 \in Seq(0 .. mem_total - 1)
      /\ IsInjective(FreePages)
  BY DEF PagesInv, PageUsedOnce, TypeOK
<1>2. 1 <= Len(FreePages) /\ Take(1)
  BY DEF FailNoTable, FailInUse
<1>3. UNCHANGED <<mem_total, vpage_dir, pte>>
  BY DEF FailNoTable, FailInUse, GiveUp
<1>4. /\ memstack1' \in Seq(0 .. mem_total - 1) /\ memstack2' \in Seq(0 .. mem_total - 1)
      /\ Range(memstack1') \subseteq Range(memstack1) /\ Range(memstack2') \subseteq Range(memstack2)
  BY <1>1, <1>2, TakeFree
<1>5. IsInjective(FreePages)' /\ Free' = Free \ {FreePages[1]} /\ FreePages[1] \in Free
  BY <1>1, <1>2, TakenNotFree
<1>6. StacksApart'
  BY <1>3, <1>4 DEF PagesInv, PageUsedOnce, StacksApart
<1> QED  BY <1>3, <1>4, <1>5, <1>6

-----------------------------------------------------------------------------
(* The request goes on to the next page, and not beyond its last. *)
LEMMA VirtualPagesNat ==
    /\ 0 \in VirtualPages /\ TABLES * ENTRIES \in Nat
    /\ \A x \in VirtualPages : x \in Nat /\ x <= TABLES * ENTRIES - 1
<1>1. ENTRIES \in Nat /\ ENTRIES > 0 /\ TABLES \in Nat /\ TABLES > 0
  BY MemAssumption
<1>2. TABLES * ENTRIES \in Nat /\ TABLES * ENTRIES >= 1
  BY <1>1
<1> QED  BY <1>2 DEF VirtualPages

(* Free pages are pages of the machine. *)
LEMMA FreeTyped == ASSUME TypeOK PROVE Free \subseteq 0 .. mem_total - 1
<1>1. FreePages \in Seq(0 .. mem_total - 1)
  BY DEF TypeOK, FreePages
<1>2. Free = {FreePages[i] : i \in 1 .. Len(FreePages)}
  BY <1>1 DEF Free, Range
<1> QED  BY <1>1, <1>2, ElementOf

(* Steps that leave every page where it is. *)
LEMMA SamePages ==
    ASSUME PagesInv, UNCHANGED <<mem_total, memstack1, memstack2, vpage_dir, pte>>, TypeOK', RequestFits'
    PROVE  PagesInv'
<1>1. /\ FreePages' = FreePages /\ Free' = Free /\ TablePages' = TablePages
      /\ MappedPages' = MappedPages /\ \A x \in VirtualPages : Present(x)' <=> Present(x)
  BY DEF Free, FreePages, TablePages, MappedPages, Present, TablePresent
<1>2. StacksApart'
  BY DEF PagesInv, PageUsedOnce, StacksApart
<1>3. IsInjective(FreePages)'
  <2>1. IsInjective(FreePages)
    BY DEF PagesInv, PageUsedOnce
  <2> QED  BY <1>1, <2>1 DEF IsInjective
<1>4. TablesApart'
  BY <1>1 DEF PagesInv, TablesApart
<1>5. \A x, y \in VirtualPages : Present(x)' /\ Present(y)' /\ pte'[x] = pte'[y] => x = y
  BY <1>1 DEF PagesInv, PageUsedOnce
<1>6. Free' \cap (TablePages' \cup MappedPages') = {} /\ TablePages' \cap MappedPages' = {}
  BY <1>1 DEF PagesInv, PageUsedOnce
<1> QED  BY <1>2, <1>3, <1>4, <1>5, <1>6 DEF PagesInv, PageUsedOnce

(* psalloc_at_v stays within the pages it was asked for. *)
LEMMA AdvanceRequest ==
    ASSUME PagesInv, Mapping, Advance
    PROVE  /\ request'.virt \in VirtualPages /\ request'.left \in Nat
           /\ RequestFits'
           /\ status' = "ready" /\ mem_total' = mem_total
<1>1. /\ request.virt \in VirtualPages /\ request.left \in Nat /\ request.left > 0
      /\ request.virt >= HeapBase(mem_total)
      /\ request.virt + request.left - 1 \in VirtualPages
      /\ HeapBase(mem_total)' = HeapBase(mem_total)
  BY DEF PagesInv, PageUsedOnce, TypeOK, Mapping, RequestFits, Advance
<1>2. HeapBase(mem_total) \in Int
  <2>1. KernelEnd \in Int /\ LIMIT \in Int /\ ENTRIES \in Nat /\ ENTRIES > 0 /\ mem_total \in Int
    BY MemAssumption DEF PagesInv, PageUsedOnce, TypeOK
  <2>2. \A n \in Int : StackSize(n) \in Int
    BY <2>1 DEF StackSize
  <2>3. memstack1_size \in Int /\ memstack2_size(mem_total) \in Int
    BY <2>1, <2>2 DEF memstack1_size, memstack2_size
  <2> QED  BY <2>1, <2>3 DEF HeapBase, Mapped2, Mapped1, memstack1_base
<1>3. CASE request.left = 1
  <2>1. request' = None
    BY <1>3 DEF Advance
  <2> QED  BY <2>1, VirtualPagesNat DEF Advance, None, RequestFits
<1>4. CASE request.left # 1
  <2>1. request' = [virt |-> request.virt + 1, left |-> request.left - 1]
    BY <1>4 DEF Advance
  <2>2. request'.virt = request.virt + 1 /\ request'.left = request.left - 1
    BY <2>1
  <2>3. request.virt \in Nat /\ request.virt + 1 \in VirtualPages
    BY <1>1, <1>4, VirtualPagesNat DEF VirtualPages
  <2>4. request'.virt + request'.left - 1 = request.virt + request.left - 1
    BY <1>1, <2>2, <2>3
  <2>5. request'.virt >= HeapBase(mem_total)
    BY <1>1, <1>2, <2>2, <2>3
  <2> QED  BY <1>1, <1>4, <2>2, <2>3, <2>4, <2>5 DEF Advance, RequestFits
<1> QED  BY <1>3, <1>4

(* So does a psalloc_at_v that fails. *)
LEMMA GiveUpRequest ==
    ASSUME PagesInv, GiveUp
    PROVE  /\ request'.virt \in VirtualPages /\ request'.left \in Nat
           /\ RequestFits'
           /\ status' \in {"panic", "ready"}
BY VirtualPagesNat DEF GiveUp, None, RequestFits

(* No step uses a page for two things. *)
LEMMA NextPagesInv == ASSUME PagesInv, [Next]_vars PROVE PagesInv'
<1>1. ASSUME MapPage PROVE PagesInv'
  <2> DEFINE v == request.virt
             p == FreePages[1]
  <2>1. /\ v \in VirtualPages /\ p \in Free
        /\ memstack1' \in Seq(0 .. mem_total - 1) /\ memstack2' \in Seq(0 .. mem_total - 1)
        /\ StacksApart' /\ IsInjective(FreePages)'
        /\ Free' = Free \ {p} /\ TablePages' = TablePages
        /\ \A x \in VirtualPages : Present(x)' <=> Present(x) \/ x = v
        /\ ~Present(v)
        /\ MappedPages' = MappedPages \cup {p}
    BY <1>1, MapPagePages
  <2>2. /\ request'.virt \in VirtualPages /\ request'.left \in Nat
        /\ RequestFits' /\ status' = "ready" /\ mem_total' = mem_total
    BY <1>1, AdvanceRequest DEF MapPage
  <2>3. pte' = [pte EXCEPT ![v] = p] /\ vpage_dir' = vpage_dir
    BY <1>1 DEF MapPage
  <2>4. TypeOK /\ PageUsedOnce /\ TablesApart
    BY DEF PagesInv, PageUsedOnce
  <2> HIDE DEF v, p
  <2>5. p \in 0 .. mem_total - 1
    BY <2>1, <2>4, FreeTyped
  <2>6. TypeOK'
    BY <2>1, <2>2, <2>3, <2>4, <2>5 DEF TypeOK
  <2>7. \A x \in VirtualPages : pte'[x] = IF x = v THEN p ELSE pte[x]
    BY <2>1, <2>3, <2>4 DEF TypeOK
  <2>8. \A x \in VirtualPages : Present(x) => pte[x] # p
    BY <2>1, <2>4 DEF PageUsedOnce, MappedPages
  <2>9. ASSUME NEW x \in VirtualPages, NEW y \in VirtualPages, Present(x)', Present(y)', pte'[x] = pte'[y]
        PROVE  x = y
    BY <2>1, <2>4, <2>7, <2>8, <2>9 DEF PageUsedOnce
  <2>10. /\ Free' \cap (TablePages' \cup MappedPages') = {}
         /\ TablePages' \cap MappedPages' = {}
    BY <2>1, <2>4 DEF PageUsedOnce
  <2>11. TablesApart'
    BY <2>1, <2>3, <2>4 DEF TablesApart
  <2> QED  BY <2>1, <2>2, <2>6, <2>9, <2>10, <2>11 DEF PagesInv, PageUsedOnce
<1>2. ASSUME MapNewTable PROVE PagesInv'
  <2> DEFINE v == request.virt
             p == FreePages[1]
             q == FreePages[2]
  <2>1. /\ v \in VirtualPages
        /\ p \in Free /\ q \in Free /\ p # q
        /\ memstack1' \in Seq(0 .. mem_total - 1) /\ memstack2' \in Seq(0 .. mem_total - 1)
        /\ StacksApart' /\ IsInjective(FreePages)'
        /\ Free' = Free \ {p, q} /\ TablePages' = TablePages \cup {q}
        /\ \A x \in VirtualPages :
              /\ Present(x)' <=> Present(x) \/ x = v
              /\ Present(x) => pte'[x] = pte[x]
        /\ pte'[v] = p /\ ~Present(v)
        /\ MappedPages' = MappedPages \cup {p}
    BY <1>2, MapNewTablePages
  <2>2. /\ request'.virt \in VirtualPages /\ request'.left \in Nat
        /\ RequestFits' /\ status' = "ready" /\ mem_total' = mem_total
    BY <1>2, AdvanceRequest DEF MapNewTable
  <2>3. /\ pte' = [Cleared(v) EXCEPT ![v] = p]
        /\ vpage_dir' = [vpage_dir EXCEPT ![TableOf(v)] = [table |-> q, present |-> TRUE]]
    BY <1>2 DEF MapNewTable
  <2>4. TypeOK /\ PageUsedOnce /\ TablesApart
    BY DEF PagesInv, PageUsedOnce
  <2> HIDE DEF v, p, q
  <2>5. p \in 0 .. mem_total - 1 /\ q \in 0 .. mem_total - 1
    BY <2>1, <2>4, FreeTyped
  <2>6. TypeOK'
    <3>1. Cleared(v) \in [VirtualPages -> 0 .. mem_total - 1 \cup {Absent}]
      BY <2>4 DEF Cleared, TypeOK
    <3>2. pte' \in [VirtualPages -> 0 .. mem_total - 1 \cup {Absent}]
      BY <2>1, <2>3, <2>5, <3>1
    <3>3. vpage_dir' \in [0 .. TABLES - 1 -> [table : 0 .. mem_total - 1, present : BOOLEAN]]
      BY <2>3, <2>4, <2>5 DEF TypeOK
    <3> QED  BY <2>1, <2>2, <2>4, <3>2, <3>3 DEF TypeOK
  <2>7. \A x \in VirtualPages : Present(x) => pte[x] # p
    BY <2>1, <2>4 DEF PageUsedOnce, MappedPages
  <2>8. ASSUME NEW x \in VirtualPages, NEW y \in VirtualPages, Present(x)', Present(y)', pte'[x] = pte'[y]
        PROVE  x = y
    BY <2>1, <2>4, <2>7, <2>8 DEF PageUsedOnce
  <2>9. /\ Free' \cap (TablePages' \cup MappedPages') = {}
        /\ TablePages' \cap MappedPages' = {}
    BY <2>1, <2>4 DEF PageUsedOnce
  <2>10. TablesApart'
    <3>1. \A i \in 0 .. TABLES - 1 :
             vpage_dir'[i] = IF i = TableOf(v) THEN [table |-> q, present |-> TRUE] ELSE vpage_dir[i]
      BY <2>1, <2>3, <2>4 DEF TypeOK
    <3>2. q # kpage_dir /\ \A i \in 0 .. TABLES - 1 : vpage_dir[i].present => vpage_dir[i].table # q
      BY <2>1, <2>4 DEF PageUsedOnce, TablePages
    <3>3. kpage_dir \notin Free'
      BY <2>1, <2>4 DEF TablesApart
    <3>4. ASSUME NEW i \in 0 .. TABLES - 1, vpage_dir'[i].present
          PROVE  /\ vpage_dir'[i].table # kpage_dir
                 /\ \A j \in 0 .. TABLES - 1 :
                       vpage_dir'[j].present /\ vpage_dir'[j].table = vpage_dir'[i].table => i = j
      <4>1. CASE i = TableOf(v)
        BY <3>1, <3>2, <4>1
      <4>2. CASE i # TableOf(v)
        BY <2>4, <3>1, <3>2, <3>4, <4>2 DEF TablesApart
      <4> QED  BY <4>1, <4>2
    <3> QED  BY <3>3, <3>4 DEF TablesApart, kpage_dir
  <2> QED  BY <2>1, <2>2, <2>6, <2>8, <2>9, <2>10 DEF PagesInv, PageUsedOnce
<1>3. ASSUME NEW v \in VirtualPages, Kpfree(v) PROVE PagesInv'
  <2>1. TypeOK /\ PageUsedOnce /\ TablesApart /\ RequestFits /\ mem_total' = mem_total
        /\ vpage_dir' = vpage_dir /\ request' = request
    BY <1>3 DEF PagesInv, PageUsedOnce, Kpfree
  <2>2. CASE UNCHANGED <<memstack1, memstack2, vpage_dir, pte>> /\ status' = "fault"
    <3>1. TypeOK' /\ RequestFits'
      BY <2>1, <2>2 DEF TypeOK, RequestFits
    <3> QED  BY <2>1, <2>2, <3>1, SamePages
  <2>3. ASSUME NEW e \in VirtualPages,
               Present(e), pte' = [pte EXCEPT ![e] = Absent],
               memstack1' \in Seq(0 .. mem_total - 1), memstack2' \in Seq(0 .. mem_total - 1),
               StacksApart', IsInjective(FreePages)',
               Free' = Free \cup {pte[e]}, TablePages' = TablePages,
               \A x \in VirtualPages : Present(x)' <=> Present(x) /\ x # e,
               MappedPages' = MappedPages \ {pte[e]}, status' = status
        PROVE  PagesInv'
    <3>1. TypeOK'
      BY <2>1, <2>3 DEF TypeOK
    <3>2. pte[e] \in MappedPages
      BY <2>3 DEF MappedPages
    <3>3. /\ Free' \cap (TablePages' \cup MappedPages') = {}
          /\ TablePages' \cap MappedPages' = {}
      BY <2>1, <2>3, <3>2 DEF PageUsedOnce
    <3>4. \A x \in VirtualPages : Present(x)' => Present(x) /\ pte'[x] = pte[x]
      BY <2>1, <2>3 DEF TypeOK
    <3>5. \A x, y \in VirtualPages : Present(x)' /\ Present(y)' /\ pte'[x] = pte'[y] => x = y
      BY <2>1, <3>4 DEF PageUsedOnce
    <3>6. pte[e] # kpage_dir
      BY <2>1, <3>2 DEF PageUsedOnce, TablePages
    <3>7. TablesApart'
      BY <2>1, <2>3, <3>6 DEF TablesApart
    <3>8. RequestFits'
      BY <2>1 DEF RequestFits
    <3> QED  BY <2>3, <3>1, <3>3, <3>5, <3>7, <3>8 DEF PagesInv, PageUsedOnce
  <2> QED  BY <1>3, <2>2, <2>3, KpfreePages
<1>4. ASSUME NEW v \in VirtualPages, NEW n \in Counts, Psalloc(v, n) PROVE PagesInv'
  <2>1. n \in Nat /\ n > 0 /\ v \in VirtualPages
    BY MemAssumption
  <2>2. request' = [virt |-> v, left |-> n] /\ v >= HeapBase(mem_total) /\ v + n - 1 \in VirtualPages
    BY <1>4 DEF Psalloc
  <2>3. UNCHANGED <<mem_total, memstack1, memstack2, vpage_dir, pte, status>>
    BY <1>4 DEF Psalloc
  <2>4. RequestFits' /\ request'.virt \in VirtualPages /\ request'.left \in Nat
    BY <2>1, <2>2, <2>3 DEF RequestFits
  <2>5. TypeOK'
    BY <2>3, <2>4 DEF PagesInv, PageUsedOnce, TypeOK
  <2> QED  BY <2>3, <2>4, <2>5, SamePages
<1>5. ASSUME FailNoPage PROVE PagesInv'
  <2>1. UNCHANGED <<mem_total, memstack1, memstack2, vpage_dir, pte>>
    BY <1>5 DEF FailNoPage, GiveUp
  <2>2. /\ request'.virt \in VirtualPages /\ request'.left \in Nat
        /\ RequestFits' /\ status' \in {"panic", "ready"}
    BY <1>5, GiveUpRequest DEF FailNoPage
  <2>3. TypeOK'
    BY <2>1, <2>2 DEF PagesInv, PageUsedOnce, TypeOK
  <2> QED  BY <2>1, <2>2, <2>3, SamePages
<1>6. ASSUME FailNoTable \/ FailInUse PROVE PagesInv'
  <2>1. /\ UNCHANGED <<mem_total, vpage_dir, pte>>
        /\ memstack1' \in Seq(0 .. mem_total - 1) /\ memstack2' \in Seq(0 .. mem_total - 1)
        /\ StacksApart' /\ IsInjective(FreePages)'
        /\ Free' = Free \ {FreePages[1]}
    BY <1>6, FailurePages
  <2>2. /\ request'.virt \in VirtualPages /\ request'.left \in Nat
        /\ RequestFits' /\ status' \in {"panic", "ready"}
    BY <1>6, GiveUpRequest DEF FailNoTable, FailInUse
  <2>3. TypeOK'
    BY <2>1, <2>2 DEF PagesInv, PageUsedOnce, TypeOK
  <2>4. TablePages' = TablePages /\ MappedPages' = MappedPages /\ \A x \in VirtualPages : Present(x)' = Present(x)
    BY <2>1 DEF TablePages, MappedPages, Present, TablePresent
  <2>5. TablesApart'
    BY <2>1 DEF PagesInv, TablesApart
  <2> QED  BY <2>1, <2>2, <2>3, <2>4, <2>5 DEF PagesInv, PageUsedOnce
<1>7. ASSUME UNCHANGED vars PROVE PagesInv'
  <2>1. UNCHANGED <<mem_total, memstack1, memstack2, vpage_dir, pte, request, status>>
    BY <1>7 DEF vars
  <2>2. TypeOK' /\ RequestFits'
    BY <2>1 DEF PagesInv, PageUsedOnce, TypeOK, RequestFits
  <2> QED  BY <2>1, <2>2, SamePages
<1> QED  BY <1>1, <1>2, <1>3, <1>4, <1>5, <1>6, <1>7 DEF Next

-----------------------------------------------------------------------------
(* What mem_init sets up. *)
LEMMA StackedSeq ==
    ASSUME NEW b \in Int, NEW n \in Nat
    PROVE  /\ Stacked(b, n) \in Seq(Int) /\ Len(Stacked(b, n)) = n
           /\ \A i \in 1 .. n : Stacked(b, n)[i] = b + n - i
BY DEF Stacked

(* mem_init's arithmetic: where the stacks and the heap lie, for any       *)
(* machine with room for the kernel.                                       *)
LEMMA Layout ==
    ASSUME Roomy, NEW total \in MemTotals
    PROVE  /\ LIMIT \in Nat /\ total \in Nat /\ ENTRIES \in Nat /\ ENTRIES > 0
           /\ memstack1_base \in Nat /\ memstack1_base > 0
           /\ mem_lt_16 \in Nat /\ memstack1_base + mem_lt_16 = LIMIT
           /\ memstack2_size(total) \in Nat /\ memstack2_size(total) > 0
           /\ mem_ge_16(total) \in Nat /\ LIMIT + memstack2_size(total) + mem_ge_16(total) = total
           /\ Mapped1 = memstack1_base /\ Mapped2(total) = memstack1_base + memstack2_size(total)
           /\ TablesFor(Mapped2(total)) \in Nat /\ 1 + TablesFor(Mapped2(total)) <= mem_lt_16
           /\ HeapBase(total) \in VirtualPages /\ HEAP_PAGES \in Nat /\ HEAP_PAGES > 0
           /\ HeapBase(total) + HEAP_PAGES - 1 \in VirtualPages
<1>1. /\ LIMIT \in Nat /\ total \in Nat /\ total >= LIMIT /\ ENTRIES \in Nat /\ ENTRIES > 0
      /\ KernelEnd \in Nat /\ 1 <= KernelEnd /\ KernelEnd <= LIMIT - 1
      /\ HEAP_PAGES \in Nat
  BY MemAssumption
<1>2. \A n \in Nat : StackSize(n) \in Nat /\ StackSize(n) > 0
  BY <1>1, DivNat DEF StackSize
<1>3. LIMIT - KernelEnd \in Nat /\ total - LIMIT \in Nat
  BY <1>1
<1>4. /\ memstack1_size \in Nat /\ memstack1_size > 0
      /\ memstack2_size(total) \in Nat /\ memstack2_size(total) > 0
  BY <1>2, <1>3 DEF memstack1_size, memstack2_size
<1>5. /\ memstack1_base \in Nat /\ memstack1_base > 0 /\ mem_lt_16 \in Int
      /\ memstack1_base + mem_lt_16 = LIMIT
  BY <1>1, <1>4 DEF memstack1_base, mem_lt_16
<1>6. /\ mem_ge_16(total) \in Int /\ LIMIT + memstack2_size(total) + mem_ge_16(total) = total
  BY <1>1, <1>4 DEF mem_ge_16
<1>7. /\ mem_ge_16(total) >= 0 /\ 1 + TablesFor(Mapped2(total)) <= mem_lt_16
      /\ HEAP_PAGES > 0 /\ HeapBase(total) + HEAP_PAGES <= TABLES * ENTRIES
  BY DEF Roomy
<1>8. /\ Mapped1 = memstack1_base
      /\ Mapped2(total) = memstack1_base + memstack2_size(total) /\ HeapBase(total) = Mapped2(total)
      /\ Mapped2(total) \in Nat
  BY <1>4, <1>5 DEF Mapped1, Mapped2, HeapBase
<1>9. TablesFor(Mapped2(total)) \in Nat
  <2>1. Mapped2(total) + ENTRIES - 1 \in Nat
    BY <1>1, <1>8
  <2> QED  BY <1>1, <2>1, DivNat DEF TablesFor
<1>10. HeapBase(total) \in VirtualPages /\ HeapBase(total) + HEAP_PAGES - 1 \in VirtualPages
  BY <1>1, <1>7, <1>8, VirtualPagesNat DEF VirtualPages
<1> QED  BY <1>1, <1>4, <1>5, <1>6, <1>7, <1>8, <1>9, <1>10

(* PagesInv holds after mem_init. *)
LEMMA InitPagesInv == ASSUME Roomy, Init PROVE PagesInv
<1> DEFINE base == memstack1_base
           lt   == mem_lt_16
           size == memstack2_size(mem_total)
           ge   == mem_ge_16(mem_total)
           tbl  == TablesFor(Mapped2(mem_total))
           all  == Stacked(base, lt)
<1>1. mem_total \in MemTotals
  BY DEF Init
<1>2. /\ LIMIT \in Nat /\ mem_total \in Nat
      /\ base \in Nat /\ base > 0 /\ lt \in Nat /\ base + lt = LIMIT
      /\ size \in Nat /\ size > 0 /\ ge \in Nat /\ LIMIT + size + ge = mem_total
      /\ Mapped1 = base /\ Mapped2(mem_total) = base + size
      /\ tbl \in Nat /\ 1 + tbl <= lt
  BY <1>1, Layout
<1>3. /\ HeapBase(mem_total) \in VirtualPages /\ HEAP_PAGES \in Nat /\ HEAP_PAGES > 0
      /\ HeapBase(mem_total) + HEAP_PAGES - 1 \in VirtualPages
  BY <1>1, Layout
<1>4. /\ memstack1 = SubSeq(all, tbl + 2, lt) /\ memstack2 = Stacked(LIMIT + size, ge)
      /\ vpage_dir = InitDir(mem_total) /\ pte = InitPte(mem_total)
      /\ request = [virt |-> HeapBase(mem_total), left |-> HEAP_PAGES]
      /\ status = "init"
  <2>1. memstack1 = SubSeq(all, (1 + tbl) + 1, lt)
    BY DEF Init
  <2>2. (1 + tbl) + 1 = tbl + 2
    BY <1>2
  <2> QED  BY <2>1, <2>2 DEF Init
<1>5. /\ all \in Seq(Int) /\ Len(all) = lt
      /\ \A i \in 1 .. lt : all[i] = LIMIT - i
  <2>1. all \in Seq(Int) /\ Len(all) = lt /\ \A i \in 1 .. lt : all[i] = base + lt - i
    BY <1>2, StackedSeq
  <2>2. ASSUME NEW i \in 1 .. lt PROVE all[i] = LIMIT - i
    <3>1. all[i] = base + lt - i
      BY <2>1
    <3> HIDE DEF all, base, lt
    <3> QED  BY <1>2, <3>1
  <2> QED  BY <2>1, <2>2
<1>6. kpage_dir = LIMIT - 1
  BY <1>2, <1>5 DEF kpage_dir
<1>7. /\ memstack1 \in Seq(Int) /\ Len(memstack1) = lt - tbl - 1
      /\ \A i \in 1 .. Len(memstack1) : memstack1[i] = LIMIT - tbl - 1 - i
  <2> HIDE DEF all, tbl, lt, base, size, ge
  <2>1. /\ memstack1 \in Seq(Int) /\ Len(memstack1) = lt - tbl - 1
        /\ \A i \in 1 .. Len(memstack1) : memstack1[i] = all[i + tbl + 1]
    BY <1>2, <1>4, <1>5
  <2>2. ASSUME NEW i \in 1 .. Len(memstack1) PROVE memstack1[i] = LIMIT - tbl - 1 - i
    <3>1. i + tbl + 1 \in 1 .. lt
      <4>1. i \in Nat /\ 1 <= i /\ i <= lt - tbl - 1
        BY <1>2, <2>1
      <4> QED  BY <1>2, <4>1
    <3>2. memstack1[i] = LIMIT - (i + tbl + 1)
      BY <1>5, <2>1, <3>1
    <3> QED  BY <1>2, <3>2
  <2> QED  BY <2>1, <2>2
<1>8. /\ memstack2 \in Seq(Int) /\ Len(memstack2) = ge
      /\ \A i \in 1 .. ge : memstack2[i] = mem_total - i
  <2>1. LIMIT + size \in Int
    BY <1>2
  <2>2. /\ memstack2 \in Seq(Int) /\ Len(memstack2) = ge
        /\ \A i \in 1 .. ge : memstack2[i] = (LIMIT + size) + ge - i
    BY <1>2, <1>4, <2>1, StackedSeq
  <2>3. ASSUME NEW i \in 1 .. ge PROVE memstack2[i] = mem_total - i
    <3>1. memstack2[i] = (LIMIT + size) + ge - i
      BY <2>2
    <3> HIDE DEF size, ge
    <3> QED  BY <1>2, <3>1
  <2> QED  BY <2>2, <2>3
<1> HIDE DEF base, lt, size, ge, tbl, all
<1>9. \A p \in Range(memstack1) : p \in Int /\ p >= base /\ p < LIMIT - tbl - 1
  <2> SUFFICES ASSUME NEW i \in 1 .. Len(memstack1)
               PROVE  memstack1[i] \in Int /\ memstack1[i] >= base /\ memstack1[i] < LIMIT - tbl - 1
    BY <1>7 DEF Range
  <2>1. memstack1[i] = LIMIT - tbl - 1 - i /\ i \in 1 .. lt - tbl - 1
    BY <1>7
  <2> QED  BY <1>2, <2>1
<1>10. \A p \in Range(memstack2) : p \in Int /\ p >= LIMIT + size /\ p < mem_total
  <2> SUFFICES ASSUME NEW i \in 1 .. ge
               PROVE  memstack2[i] \in Int /\ memstack2[i] >= LIMIT + size /\ memstack2[i] < mem_total
    BY <1>8 DEF Range
  <2> QED  BY <1>2, <1>8
<1>11. StacksApart
  BY <1>2, <1>9, <1>10 DEF StacksApart
<1>12. IsInjective(FreePages)
  <2>1. IsInjective(memstack1)
    <3>1. \A i, j \in 1 .. Len(memstack1) : memstack1[i] = memstack1[j] => i = j
      BY <1>2, <1>7
    <3> QED  BY <1>7, <3>1, Injective
  <2>2. IsInjective(memstack2)
    <3>1. \A i, j \in 1 .. Len(memstack2) : memstack2[i] = memstack2[j] => i = j
      BY <1>2, <1>8
    <3> QED  BY <1>8, <3>1, Injective
  <2>3. Range(memstack2) \cap Range(memstack1) = {}
    BY <1>2, <1>9, <1>10
  <2> QED  BY <1>7, <1>8, <2>1, <2>2, <2>3, ConcatInjective DEF FreePages
<1>13. \A p \in Free : p \in Int /\ (p < LIMIT => p >= base /\ p < LIMIT - tbl - 1)
                                 /\ (p >= LIMIT => p >= LIMIT + size)
  <2>1. Free = Range(memstack2) \cup Range(memstack1)
    BY <1>7, <1>8, ConcatRange DEF Free, FreePages
  <2> QED  BY <1>2, <1>9, <1>10, <2>1
<1>14. \A i \in 0 .. TABLES - 1 :
          /\ vpage_dir[i] \in [table : Int, present : BOOLEAN]
          /\ vpage_dir[i].table >= 0 /\ vpage_dir[i].table < mem_total
          /\ vpage_dir[i].present => i < tbl /\ vpage_dir[i].table = LIMIT - 2 - i
  <2> SUFFICES ASSUME NEW i \in 0 .. TABLES - 1
               PROVE  /\ vpage_dir[i] \in [table : Int, present : BOOLEAN]
                      /\ vpage_dir[i].table >= 0 /\ vpage_dir[i].table < mem_total
                      /\ vpage_dir[i].present => i < tbl /\ vpage_dir[i].table = LIMIT - 2 - i
    OBVIOUS
  <2>0. i \in Nat
    BY MemAssumption
  <2>1. CASE i < tbl
    <3>1. vpage_dir[i] = [table |-> all[i + 2], present |-> i < TablesFor(Mapped1)]
      BY <1>4, <2>1 DEF InitDir, all, base, lt, tbl
    <3>2. i + 2 \in 1 .. lt
      BY <1>2, <2>0, <2>1
    <3>3. all[i + 2] = LIMIT - (i + 2)
      BY <1>5, <3>2
    <3>4. LIMIT - (i + 2) = LIMIT - 2 - i /\ LIMIT - (i + 2) \in Int
          /\ LIMIT - (i + 2) >= 0 /\ LIMIT - (i + 2) < mem_total
      BY <1>2, <2>0, <3>2
    <3>5. (i < TablesFor(Mapped1)) \in BOOLEAN
      OBVIOUS
    <3>6. vpage_dir[i] = [table |-> LIMIT - (i + 2), present |-> i < TablesFor(Mapped1)]
      BY <3>1, <3>3
    <3>7. vpage_dir[i].table = LIMIT - (i + 2) /\ vpage_dir[i] \in [table : Int, present : BOOLEAN]
      BY <3>4, <3>5, <3>6
    <3> QED  BY <2>1, <3>4, <3>7
  <2>2. CASE ~(i < tbl)
    <3>1. vpage_dir[i] = [table |-> 0, present |-> FALSE]
      BY <1>4, <2>2 DEF InitDir, all, base, lt, tbl
    <3> QED  BY <1>2, <3>1
  <2> QED  BY <2>1, <2>2
<1>15. \A v \in VirtualPages :
          pte[v] # Absent =>
              \/ v < base /\ pte[v] = v
              \/ ~(v < base) /\ v < base + size /\ pte[v] = LIMIT + v - base
  BY <1>2, <1>4 DEF InitPte
<1>16. \A v \in VirtualPages : pte[v] = Absent \/ pte[v] \in 0 .. mem_total - 1
  <2> SUFFICES ASSUME NEW v \in VirtualPages, pte[v] # Absent PROVE pte[v] \in 0 .. mem_total - 1
    OBVIOUS
  <2>1. v \in Nat
    BY VirtualPagesNat
  <2> QED  BY <1>2, <1>15, <2>1
<1>17. TypeOK
  <2>1. memstack1 \in Seq(0 .. mem_total - 1)
    <3>1. \A i \in 1 .. Len(memstack1) : memstack1[i] \in 0 .. mem_total - 1
      <4>1. \A i \in 1 .. Len(memstack1) : memstack1[i] \in Range(memstack1)
        BY <1>7 DEF Range
      <4> QED  BY <1>2, <1>9, <4>1
    <3> QED  BY <1>7, <3>1, ElementsIn
  <2>2. memstack2 \in Seq(0 .. mem_total - 1)
    <3>1. \A i \in 1 .. Len(memstack2) : memstack2[i] \in 0 .. mem_total - 1
      <4>1. \A i \in 1 .. Len(memstack2) : memstack2[i] \in Range(memstack2)
        BY <1>8 DEF Range
      <4> QED  BY <1>2, <1>10, <4>1
    <3> QED  BY <1>8, <3>1, ElementsIn
  <2>3. vpage_dir \in [0 .. TABLES - 1 -> [table : 0 .. mem_total - 1, present : BOOLEAN]]
    <3>1. vpage_dir = [i \in 0 .. TABLES - 1 |-> vpage_dir[i]]
      BY <1>4 DEF InitDir
    <3>2. \A i \in 0 .. TABLES - 1 : vpage_dir[i] \in [table : 0 .. mem_total - 1, present : BOOLEAN]
      BY <1>2, <1>14
    <3> QED  BY <3>1, <3>2
  <2>4. pte \in [VirtualPages -> 0 .. mem_total - 1 \cup {Absent}]
    <3>1. pte = [v \in VirtualPages |-> pte[v]]
      BY <1>4 DEF InitPte
    <3> QED  BY <1>16, <3>1
  <2> QED  BY <1>1, <1>3, <1>4, <2>1, <2>2, <2>3, <2>4 DEF TypeOK
<1>18. \A p \in TablePages : p \in Int /\ p >= LIMIT - 1 - tbl /\ p < LIMIT
  <2>1. \A i \in 0 .. TABLES - 1 : vpage_dir[i].present =>
           /\ vpage_dir[i].table \in Int
           /\ vpage_dir[i].table >= LIMIT - 1 - tbl /\ vpage_dir[i].table < LIMIT
    BY <1>2, <1>14
  <2> QED  BY <1>2, <1>6, <2>1 DEF TablePages
<1>19. \A p \in MappedPages : p \in Int /\ (p < base \/ (p >= LIMIT /\ p < LIMIT + size))
  <2> SUFFICES ASSUME NEW v \in VirtualPages, pte[v] # Absent
               PROVE  pte[v] \in Int /\ (pte[v] < base \/ (pte[v] >= LIMIT /\ pte[v] < LIMIT + size))
    BY DEF MappedPages, Present
  <2>1. v \in Nat
    BY VirtualPagesNat
  <2> QED  BY <1>2, <1>15, <2>1
<1>20. Free \cap (TablePages \cup MappedPages) = {} /\ TablePages \cap MappedPages = {}
  BY <1>2, <1>13, <1>18, <1>19
<1>21. ASSUME NEW v \in VirtualPages, NEW w \in VirtualPages, Present(v), Present(w), pte[v] = pte[w]
       PROVE  v = w
  <2>1. v \in Nat /\ w \in Nat /\ pte[v] # Absent /\ pte[w] # Absent
    BY <1>21, VirtualPagesNat DEF Present
  <2> QED  BY <1>2, <1>15, <1>21, <2>1
<1>22. TablesApart
  <2>1. kpage_dir \notin Free
    BY <1>20 DEF TablePages
  <2>2. \A i \in 0 .. TABLES - 1 : vpage_dir[i].present =>
           /\ vpage_dir[i].table # kpage_dir
           /\ \A j \in 0 .. TABLES - 1 :
                 vpage_dir[j].present /\ vpage_dir[j].table = vpage_dir[i].table => i = j
    BY <1>2, <1>6, <1>14
  <2> QED  BY <2>1, <2>2 DEF TablesApart
<1>23. RequestFits
  <2>1. HeapBase(mem_total) \in Nat
    BY <1>3, VirtualPagesNat
  <2> QED  BY <1>3, <1>4, <2>1 DEF RequestFits
<1> QED  BY <1>11, <1>12, <1>17, <1>20, <1>21, <1>22, <1>23 DEF PagesInv, PageUsedOnce

(* mem.c: no physical page is ever free twice, mapped twice, or both free  *)
(* and mapped, whatever psalloc_at_v and kpfree_at_v do and however they   *)
(* fail.                                                                   *)
THEOREM PageUsedOnceEver == ASSUME Roomy PROVE Spec => []PageUsedOnce
<1>1. Init => PagesInv
  BY InitPagesInv
<1>2. PagesInv /\ [Next]_vars => PagesInv'
  BY NextPagesInv
<1>3. PagesInv => PageUsedOnce
  BY DEF PagesInv
<1> QED  BY <1>1, <1>2, <1>3, PTL DEF Spec

-----------------------------------------------------------------------------
(* No step but a failing psalloc_at_v loses a page: a page that is no       *)
(* longer free is a page table or mapped, and one that is no longer mapped *)
(* is free.                                                                *)
LEMMA LostStep ==
    ASSUME PagesInv, Next, Lost' # Lost
    PROVE  /\ FailNoTable \/ FailInUse
           /\ \E p \in Free : Lost' = Lost \cup {p}
<1> DEFINE All == memstack1_base .. LIMIT - 1 \cup LIMIT + memstack2_size(mem_total) .. mem_total - 1
<1>1. Lost = All \ (Free \cup TablePages \cup MappedPages)
  BY DEF Lost
<1>2. mem_total' = mem_total
  BY DEF Next, Kpfree, Psalloc, MapPage, MapNewTable, FailNoPage, FailNoTable, FailInUse, Advance, GiveUp
<1>3. Lost' = All \ (Free' \cup TablePages' \cup MappedPages')
  BY <1>2 DEF Lost
<1> HIDE DEF All
<1>4. ~MapPage
  <2> SUFFICES ASSUME MapPage PROVE Lost' = Lost
    OBVIOUS
  <2>1. /\ FreePages[1] \in Free
        /\ Free' = Free \ {FreePages[1]} /\ TablePages' = TablePages
        /\ MappedPages' = MappedPages \cup {FreePages[1]}
    BY MapPagePages
  <2> QED  BY <1>1, <1>3, <2>1
<1>5. ~MapNewTable
  <2> SUFFICES ASSUME MapNewTable PROVE Lost' = Lost
    OBVIOUS
  <2>1. /\ FreePages[1] \in Free /\ FreePages[2] \in Free
        /\ Free' = Free \ {FreePages[1], FreePages[2]}
        /\ TablePages' = TablePages \cup {FreePages[2]}
        /\ MappedPages' = MappedPages \cup {FreePages[1]}
    BY MapNewTablePages
  <2> QED  BY <1>1, <1>3, <2>1
<1>6. UNCHANGED <<memstack1, memstack2, vpage_dir, pte>> => Lost' = Lost
  <2> SUFFICES ASSUME UNCHANGED <<memstack1, memstack2, vpage_dir, pte>> PROVE Lost' = Lost
    OBVIOUS
  <2>1. Free' = Free /\ TablePages' = TablePages /\ MappedPages' = MappedPages
    BY DEF Free, FreePages, TablePages, MappedPages, Present, TablePresent
  <2> QED  BY <1>1, <1>3, <2>1
<1>7. ASSUME NEW v \in VirtualPages PROVE ~Kpfree(v)
  <2> SUFFICES ASSUME Kpfree(v) PROVE Lost' = Lost
    OBVIOUS
  <2>1. ASSUME NEW e \in VirtualPages, Present(e), Free' = Free \cup {pte[e]},
               TablePages' = TablePages, MappedPages' = MappedPages \ {pte[e]}
        PROVE  Lost' = Lost
    <3>1. pte[e] \in MappedPages
      BY <2>1 DEF MappedPages
    <3> QED  BY <1>1, <1>3, <2>1, <3>1
  <2> QED  BY <1>6, <2>1, KpfreePages
<1>8. ASSUME NEW v \in VirtualPages, NEW n \in Counts PROVE ~Psalloc(v, n)
  BY <1>6 DEF Psalloc
<1>9. ~FailNoPage
  BY <1>6 DEF FailNoPage, GiveUp
<1>10. FailNoTable \/ FailInUse
  BY <1>4, <1>5, <1>7, <1>8, <1>9 DEF Next
<1>11. /\ FreePages[1] \in Free /\ Free' = Free \ {FreePages[1]}
       /\ TablePages' = TablePages /\ MappedPages' = MappedPages
  <2>1. /\ UNCHANGED <<mem_total, vpage_dir, pte>>
        /\ FreePages[1] \in Free /\ Free' = Free \ {FreePages[1]}
    BY <1>10, FailurePages
  <2> QED  BY <2>1 DEF TablePages, MappedPages, Present, TablePresent
<1>12. FreePages[1] \notin TablePages \cup MappedPages
  BY <1>11 DEF PagesInv, PageUsedOnce
<1>13. Lost' = Lost \/ Lost' = Lost \cup {FreePages[1]}
  BY <1>1, <1>3, <1>11, <1>12
<1> QED  BY <1>10, <1>11, <1>13

(* No memory is lost but by a psalloc_at_v that fails, and then one page.  *)
THEOREM LostOnlyByFailureEver == ASSUME Roomy PROVE Spec => LostOnlyByFailure
<1>1. Init => PagesInv
  BY InitPagesInv
<1>2. PagesInv /\ [Next]_vars => PagesInv'
  BY NextPagesInv
<1>3. PagesInv /\ [Next]_vars =>
          [Lost' # Lost => /\ FailNoTable \/ FailInUse
                           /\ \E p \in Free : Lost' = Lost \cup {p}]_vars
  BY LostStep
<1> QED  BY <1>1, <1>2, <1>3, PTL DEF Spec, LostOnlyByFailure

-----------------------------------------------------------------------------
(* Tables and the entries in them: every virtual page is one entry of one  *)
(* table.                                                                  *)
LEMMA DivMod ==
    ASSUME NEW a \in Nat, NEW b \in Nat, b > 0
    PROVE  /\ a \div b \in Nat /\ a % b \in 0 .. b - 1
           /\ a = (a \div b) * b + (a % b)
OBVIOUS

(* A quotient and a remainder determine each other. *)
LEMMA DivModUnique ==
    ASSUME NEW b \in Nat, b > 0, NEW q \in Nat, NEW r \in 0 .. b - 1
    PROVE  (q * b + r) \div b = q /\ (q * b + r) % b = r
<1> DEFINE a == q * b + r
           d == a \div b
           m == a % b
<1>1. a \in Nat
  OBVIOUS
<1>2. d \in Nat /\ m \in 0 .. b - 1 /\ a = d * b + m
  BY <1>1, DivMod
<1>3. (q - d) * b = m - r
  <2> HIDE DEF d, m
  <2>1. q * b + r = d * b + m
    BY <1>2
  <2>2. (q - d) * b = q * b - d * b
    BY <1>2
  <2> QED  BY <1>2, <2>1, <2>2
<1>4. q = d
  <2> HIDE DEF d, m
  <2>1. ASSUME q - d >= 1 PROVE FALSE
    <3>1. (q - d) * b >= b
      BY <1>2, <2>1
    <3> QED  BY <1>2, <1>3, <3>1
  <2>2. ASSUME q - d <= -1 PROVE FALSE
    <3>1. (q - d) * b <= -b
      BY <1>2, <2>2
    <3> QED  BY <1>2, <1>3, <3>1
  <2> QED  BY <1>2, <2>1, <2>2
<1>5. m = r
  <2> HIDE DEF d, m
  <2> QED  BY <1>2, <1>3, <1>4
<1> QED  BY <1>4, <1>5

(* The last place in the directory is the directory's own; and the kernel,  *)
(* memstack1 and memstack2 need no more page tables than the kernel and     *)
(* memstack1 do.  With less than 2GB of memory that is so; otherwise the    *)
(* table mem_init starts for memstack2 is not present (see InitDir).       *)
Windowed ==
    /\ TABLES < ENTRIES
    /\ FREE_WRAP \in Nat \ {0}
    /\ \A total \in MemTotals : TablesFor(Mapped2(total)) = TablesFor(Mapped1)

(* The entry kpfree_at_v clears is never before that of the page it frees. *)
LEMMA FreeEntryBehind ==
    ASSUME Windowed, NEW v \in VirtualPages, FreeEntry(v) \in VirtualPages
    PROVE  FreeEntry(v) >= v
<1> DEFINE t == v \div ENTRIES
           m == v % ENTRIES
           q == v \div FREE_WRAP
           a == v % FREE_WRAP
           k == FREE_WRAP \div ENTRIES
<1>1. ENTRIES \in Nat /\ ENTRIES > 0 /\ FREE_WRAP \in Nat /\ FREE_WRAP > 0 /\ v \in Nat
      /\ FREE_WRAP % ENTRIES = 0
  BY MemAssumption, VirtualPagesNat DEF Windowed
<1>2. t \in Nat /\ m \in 0 .. ENTRIES - 1 /\ v = t * ENTRIES + m
  BY <1>1, DivMod
<1>3. q \in Nat /\ a \in 0 .. FREE_WRAP - 1 /\ v = q * FREE_WRAP + a
  BY <1>1, DivMod
<1>4. k \in Nat /\ FREE_WRAP = k * ENTRIES
  <2>1. FREE_WRAP = k * ENTRIES + (FREE_WRAP % ENTRIES) /\ k \in Nat
    BY <1>1, DivMod
  <2> QED  BY <1>1, <2>1
<1>5. FreeEntry(v) = t * ENTRIES + a
  BY DEF FreeEntry, TableOf
<1> HIDE DEF t, m, q, a, k
<1>6. a - m = (t - q * k) * ENTRIES
  <2>1. q * (k * ENTRIES) = (q * k) * ENTRIES
    BY <1>1, <1>3, <1>4
  <2>2. (t - q * k) * ENTRIES = t * ENTRIES - (q * k) * ENTRIES
    BY <1>1, <1>2, <1>3, <1>4
  <2>3. v = (q * k) * ENTRIES + a
    BY <1>3, <1>4, <2>1
  <2>4. t * ENTRIES \in Int /\ (q * k) * ENTRIES \in Int
    BY <1>1, <1>2, <1>3, <1>4
  <2> DEFINE x == t * ENTRIES
             y == (q * k) * ENTRIES
  <2> HIDE DEF x, y
  <2>5. a - m = x - y
    BY <1>1, <1>2, <1>3, <2>3, <2>4 DEF x, y
  <2> QED  BY <2>2, <2>5 DEF x, y
<1>7. a >= m
  <2> DEFINE d == t - q * k
  <2>1. d \in Int /\ a - m = d * ENTRIES
    BY <1>2, <1>3, <1>4, <1>6
  <2> HIDE DEF d
  <2>2. ASSUME d <= -1 PROVE FALSE
    <3>1. d * ENTRIES <= -ENTRIES
      BY <1>1, <2>1, <2>2
    <3> QED  BY <1>1, <1>2, <1>3, <2>1, <3>1
  <2>3. ASSUME d >= 0 PROVE a >= m
    <3>1. d * ENTRIES >= 0
      BY <1>1, <2>1, <2>3
    <3> QED  BY <1>1, <1>2, <1>3, <2>1, <3>1
  <2> QED  BY <2>1, <2>2, <2>3
<1> QED
  <2>1. t * ENTRIES \in Int
    BY <1>1, <1>2
  <2> QED  BY <1>2, <1>3, <1>5, <1>7, <2>1

(* The kernel's own pages, mapped as mem_init maps them. *)
KernelPages ==
    \A v \in 0 .. Mapped2(mem_total) - 1 :
        /\ TablePresent(v)
        /\ pte[v] = IF v < Mapped1 THEN v ELSE LIMIT + v - Mapped1

(* The kernel's virtual pages exist. *)
LEMMA KernelVirtual ==
    ASSUME Roomy, TypeOK
    PROVE  Mapped2(mem_total) \in Nat /\ 0 .. Mapped2(mem_total) - 1 \subseteq VirtualPages
<1>1. mem_total \in MemTotals
  BY DEF TypeOK
<1>2. HeapBase(mem_total) \in VirtualPages
  BY <1>1, Layout
<1> QED  BY <1>2, VirtualPagesNat DEF VirtualPages, HeapBase

(* mem_init maps the kernel onto itself. *)
LEMMA InitKernelPages == ASSUME Roomy, Windowed, Init PROVE KernelPages
<1>1. PagesInv /\ TypeOK /\ mem_total \in MemTotals
  BY InitPagesInv DEF PagesInv, PageUsedOnce, Init
<1> DEFINE M == Mapped2(mem_total)
<1>2. M \in Nat /\ 0 .. M - 1 \subseteq VirtualPages
  BY <1>1, KernelVirtual
<1> SUFFICES ASSUME NEW v \in 0 .. M - 1
             PROVE  TablePresent(v) /\ pte[v] = IF v < Mapped1 THEN v ELSE LIMIT + v - Mapped1
  BY DEF KernelPages
<1>3. pte[v] = IF v < Mapped1 THEN v ELSE LIMIT + v - Mapped1
  BY <1>2 DEF Init, InitPte
<1>4. TableOf(v) < TablesFor(M)
  <2> DEFINE q == v \div ENTRIES
             d == (M + ENTRIES - 1) \div ENTRIES
             r == (M + ENTRIES - 1) % ENTRIES
             m == v % ENTRIES
  <2>1. ENTRIES \in Nat /\ ENTRIES > 0 /\ v \in Nat /\ v <= M - 1
    BY <1>2, MemAssumption
  <2>2. q \in Nat /\ m \in 0 .. ENTRIES - 1 /\ v = q * ENTRIES + m
    BY <2>1, DivMod
  <2>3. M + ENTRIES - 1 \in Nat
    BY <1>2, <2>1
  <2>4. d \in Nat /\ r \in 0 .. ENTRIES - 1 /\ M + ENTRIES - 1 = d * ENTRIES + r
    BY <2>1, <2>3, DivMod
  <2>5. TableOf(v) = q /\ TablesFor(M) = d
    BY DEF TableOf, TablesFor
  <2> HIDE DEF q, d, r, m, M
  <2>6. ASSUME d <= q PROVE FALSE
    <3>1. d * ENTRIES <= q * ENTRIES /\ q * ENTRIES \in Int /\ d * ENTRIES \in Int
      BY <2>1, <2>2, <2>4, <2>6
    <3> QED  BY <1>2, <2>1, <2>2, <2>4, <3>1
  <2> QED  BY <2>2, <2>4, <2>5, <2>6
<1>5. TableOf(v) \in 0 .. TABLES - 1
  BY <1>2, TableIndex
<1>6. TablesFor(M) = TablesFor(Mapped1)
  BY <1>1 DEF Windowed
<1>7. TablePresent(v)
  BY <1>4, <1>5, <1>6 DEF Init, InitDir, TablePresent
<1> QED  BY <1>3, <1>7

(* No step touches the mapping of the kernel's pages: new mappings are made *)
(* behind them, and in a new table only when theirs are there.              *)
LEMMA NextKernelPages ==
    ASSUME Roomy, Windowed, PagesInv, KernelPages, [Next]_vars
    PROVE  KernelPages'
<1> DEFINE M == Mapped2(mem_total)
<1>1. /\ TypeOK /\ M \in Nat /\ 0 .. M - 1 \subseteq VirtualPages
      /\ \A v \in 0 .. M - 1 : v \in VirtualPages /\ TableOf(v) \in 0 .. TABLES - 1 /\ v \in Nat /\ v < M
  BY KernelVirtual, TableIndex DEF PagesInv, PageUsedOnce
<1>2. M' = M
  <2>1. mem_total' = mem_total
    BY DEF Next, vars, Kpfree, Psalloc, MapPage, MapNewTable, FailNoPage, FailNoTable, FailInUse,
       Advance, GiveUp
  <2> QED  BY <2>1
<1>3. Mapping => request.virt >= M /\ request.virt \in VirtualPages /\ request.virt \in Nat
  BY VirtualPagesNat DEF PagesInv, PageUsedOnce, TypeOK, RequestFits, Mapping, HeapBase
<1>4. ASSUME \A v \in 0 .. M - 1 : TablePresent(v)' /\ pte'[v] = pte[v]
      PROVE  KernelPages'
  <2>1. \A v \in 0 .. M - 1 :
           pte'[v] = IF v < Mapped1 THEN v ELSE LIMIT + v - Mapped1
    BY <1>4 DEF KernelPages
  <2>2. \A v \in 0 .. M' - 1 :
           TablePresent(v)' /\ pte'[v] = IF v < Mapped1 THEN v ELSE LIMIT + v - Mapped1
    BY <1>2, <1>4, <2>1
  <2> QED  BY <2>2 DEF KernelPages, Mapped1, memstack1_base
<1>5. \A v \in 0 .. M - 1 : TablePresent(v)
  BY DEF KernelPages
<1> HIDE DEF M
<1>6. ASSUME MapPage PROVE \A v \in 0 .. M - 1 : TablePresent(v)' /\ pte'[v] = pte[v]
  <2>1. pte' = [pte EXCEPT ![request.virt] = FreePages[1]] /\ vpage_dir' = vpage_dir /\ Mapping
    BY <1>6 DEF MapPage
  <2>2. \A v \in 0 .. M - 1 : v # request.virt
    BY <1>1, <1>3, <2>1
  <2> QED  BY <1>1, <1>5, <2>1, <2>2 DEF TablePresent, TypeOK
<1>7. ASSUME MapNewTable PROVE \A v \in 0 .. M - 1 : TablePresent(v)' /\ pte'[v] = pte[v]
  <2> DEFINE n == request.virt
  <2>1. /\ Mapping /\ ~TablePresent(n)
        /\ pte' = [Cleared(n) EXCEPT ![n] = FreePages[1]]
        /\ vpage_dir' = [vpage_dir EXCEPT ![TableOf(n)] = [table |-> FreePages[2], present |-> TRUE]]
    BY <1>7 DEF MapNewTable
  <2>2. n \in VirtualPages /\ n >= M /\ n \in Nat
    BY <1>3, <2>1
  <2> HIDE DEF n
  <2>3. \A v \in 0 .. M - 1 : v # n /\ TableOf(v) # TableOf(n)
    BY <1>1, <1>5, <2>1, <2>2 DEF TablePresent
  <2>4. \A v \in 0 .. M - 1 : vpage_dir'[TableOf(v)] = vpage_dir[TableOf(v)]
    BY <1>1, <2>1, <2>3 DEF TypeOK
  <2>5. \A v \in 0 .. M - 1 : TablePresent(v)'
    BY <1>5, <2>4 DEF TablePresent, TableOf
  <2>6. \A v \in 0 .. M - 1 : pte'[v] = pte[v]
    BY <1>1, <2>1, <2>3 DEF Cleared
  <2> QED  BY <2>5, <2>6
<1>8. ASSUME UNCHANGED <<vpage_dir, pte>> PROVE \A v \in 0 .. M - 1 : TablePresent(v)' /\ pte'[v] = pte[v]
  BY <1>5, <1>8 DEF TablePresent
<1>9. ASSUME NEW w \in VirtualPages, Kpfree(w)
      PROVE  \A v \in 0 .. M - 1 : TablePresent(v)' /\ pte'[v] = pte[v]
  <2>1. vpage_dir' = vpage_dir /\ w >= M
    BY <1>9 DEF Kpfree, HeapBase, M
  <2>2. CASE UNCHANGED pte
    BY <1>8, <2>1, <2>2
  <2>3. ASSUME FreeEntry(w) \in VirtualPages, pte' = [pte EXCEPT ![FreeEntry(w)] = Absent]
        PROVE  \A v \in 0 .. M - 1 : TablePresent(v)' /\ pte'[v] = pte[v]
    <3>1. FreeEntry(w) >= w /\ w \in Nat /\ FreeEntry(w) \in Nat
      BY <2>3, FreeEntryBehind, VirtualPagesNat
    <3>2. \A v \in 0 .. M - 1 : v # FreeEntry(w)
      BY <1>1, <2>1, <3>1
    <3>3. \A v \in 0 .. M - 1 : pte'[v] = pte[v]
      BY <1>1, <2>3, <3>2 DEF TypeOK
    <3>4. \A v \in 0 .. M - 1 : TablePresent(v)'
      BY <1>5, <2>1 DEF TablePresent
    <3> QED  BY <3>3, <3>4
  <2> QED  BY <1>9, <2>2, <2>3, KpfreePages
<1>10. ASSUME \/ \E v \in VirtualPages, n \in Counts : Psalloc(v, n)
              \/ FailNoPage \/ FailNoTable \/ FailInUse \/ UNCHANGED vars
       PROVE  UNCHANGED <<vpage_dir, pte>>
  BY <1>10 DEF Psalloc, FailNoPage, FailNoTable, FailInUse, GiveUp, vars
<1> QED
  <2>1. \/ \E v \in VirtualPages : Kpfree(v)
        \/ \E v \in VirtualPages, n \in Counts : Psalloc(v, n)
        \/ MapPage \/ MapNewTable
        \/ FailNoPage \/ FailNoTable \/ FailInUse \/ UNCHANGED vars
    BY DEF Next
  <2> QED  BY <1>4, <1>6, <1>7, <1>8, <1>9, <1>10, <2>1

(* The tables are found through the directory itself, and in them the       *)
(* entry of every mapped page.                                             *)
LEMMA WalkFinds ==
    ASSUME Windowed, PagesInv, NEW v \in VirtualPages
    PROVE  /\ Present(v) => addr_v2p(v) = pte[v]
           /\ get_page_table_entry_flags(v) = IF Present(v) THEN pte[v] ELSE Absent
<1> DEFINE t == TableOf(v)
           k == v % ENTRIES
<1>1. ENTRIES \in Nat /\ ENTRIES > 0 /\ TABLES \in Nat /\ TABLES < ENTRIES /\ v \in Nat
  BY MemAssumption, VirtualPagesNat DEF Windowed
<1>2. t \in 0 .. TABLES - 1 /\ k \in 0 .. ENTRIES - 1 /\ v = t * ENTRIES + k
  BY <1>1, TableIndex, DivMod DEF TableOf
<1>3. Window \in Nat /\ Window \in 0 .. ENTRIES - 1 /\ t # Window /\ t \in 0 .. ENTRIES - 1 /\ t < TABLES
  BY <1>1, <1>2 DEF Window
<1>4. Word(kpage_dir, Window) = kpage_dir
  BY DEF Word, DirEntry
<1>5. DirEntry(t) = vpage_dir[t] /\ Word(kpage_dir, t) = vpage_dir[t].table
  BY <1>3 DEF Word, DirEntry
<1>6. ASSUME NEW i \in 0 .. ENTRIES - 1
      PROVE  Walk(Window * ENTRIES + i) = Word(kpage_dir, i)
  <2>1. TableOf(Window * ENTRIES + i) = Window /\ (Window * ENTRIES + i) % ENTRIES = i
    BY <1>1, <1>3, DivModUnique DEF TableOf
  <2> QED  BY <1>4, <2>1 DEF Walk
<1>7. Walk(Window * ENTRIES + t) = vpage_dir[t].table
  BY <1>3, <1>5, <1>6
<1>8. Walk(ENTRIES * ENTRIES - 1) = kpage_dir
  <2>1. ENTRIES * ENTRIES - 1 = Window * ENTRIES + Window
    BY <1>1 DEF Window
  <2> QED  BY <1>3, <1>4, <1>6, <2>1
<1>9. ASSUME TablePresent(v) PROVE Word(vpage_dir[t].table, k) = pte[v]
  <2>1. vpage_dir[t] \in [table : 0 .. mem_total - 1, present : BOOLEAN] /\ vpage_dir[t].present
    BY <1>2, <1>9 DEF PagesInv, PageUsedOnce, TypeOK, TablePresent
  <2>2. vpage_dir[t] = [table |-> vpage_dir[t].table, present |-> TRUE]
    BY <2>1
  <2>3. vpage_dir[t].table # kpage_dir
    BY <1>2, <2>1 DEF PagesInv, TablesApart
  <2>4. \A i \in 0 .. TABLES - 1 :
           vpage_dir[i] = [table |-> vpage_dir[t].table, present |-> TRUE] => i = t
    BY <1>2, <2>1 DEF PagesInv, TablesApart
  <2>5. TableIn(vpage_dir[t].table) = t
    BY <1>2, <2>2, <2>4 DEF TableIn
  <2> QED  BY <1>2, <2>3, <2>5 DEF Word
<1>10. ASSUME TablePresent(v) PROVE Word(Walk(Window * ENTRIES + TableOf(v)), v % ENTRIES) = pte[v]
  BY <1>7, <1>9, <1>10
<1>11. Present(v) => addr_v2p(v) = pte[v]
  BY <1>10 DEF addr_v2p, Present
<1>12. get_page_table_entry_flags(v) = IF TablePresent(v) THEN pte[v] ELSE Absent
  <2>1. DirEntry(TableOf(v)).present <=> TablePresent(v)
    BY <1>5 DEF TablePresent
  <2> QED  BY <1>8, <1>10, <2>1 DEF get_page_table_entry_flags
<1>13. get_page_table_entry_flags(v) = IF Present(v) THEN pte[v] ELSE Absent
  BY <1>12 DEF Present
<1> QED  BY <1>11, <1>13

(* The kernel's pages stay mapped where mem_init put them, and addr_v2p and *)
(* get_page_table_entry_flags find the entry of every mapped page through  *)
(* the directory's own place in it, whatever psalloc_at_v and kpfree_at_v  *)
(* do, even when kpfree_at_v clears the entry of another page.             *)
THEOREM KernelMappedEver == ASSUME Roomy, Windowed PROVE Spec => []KernelMapped
<1> DEFINE Inv == PagesInv /\ KernelPages
<1>1. Init => Inv
  BY InitPagesInv, InitKernelPages
<1>2. Inv /\ [Next]_vars => Inv'
  BY NextPagesInv, NextKernelPages
<1>3. Inv => KernelMapped
  BY WalkFinds DEF KernelMapped, KernelPages
<1> QED  BY <1>1, <1>2, <1>3, PTL DEF Spec

-----------------------------------------------------------------------------
(* Where a field is in the record: an index in isr_stack_kernel_t. *)
FieldNames == Popped \cup {"esp", "int_no", "err_code"}
IndexOf(n) == CHOOSE i \in 1 .. 17 : isr_stack_kernel_t[i] = n

(* Each of the 17 fields of a frame has its own place in it. *)
LEMMA Indices ==
    /\ Len(isr_stack_kernel_t) = 17
    /\ \A n \in FieldNames : IndexOf(n) \in 1 .. 17 /\ isr_stack_kernel_t[IndexOf(n)] = n
    /\ \A i, j \in 1 .. 17 : isr_stack_kernel_t[i] = isr_stack_kernel_t[j] => i = j
<1>1. Len(isr_stack_kernel_t) = 17
  BY DEF isr_stack_kernel_t
<1>2. \A n \in FieldNames : \E i \in 1 .. 17 : isr_stack_kernel_t[i] = n
  BY DEF FieldNames, Popped, General, DataSegments, isr_stack_kernel_t
<1>3. \A i, j \in 1 .. 17 : isr_stack_kernel_t[i] = isr_stack_kernel_t[j] => i = j
  BY DEF isr_stack_kernel_t
<1> QED  BY <1>1, <1>2, <1>3 DEF IndexOf

(* Field reads the word that is the field's place away from the pointer. *)
LEMMA FieldAt ==
    ASSUME NEW s, NEW at, NEW n \in FieldNames
    PROVE  Field(s, at, n) = s[at + 1 - IndexOf(n)]
<1> DEFINE I == {i \in 1 .. Len(isr_stack_kernel_t) : isr_stack_kernel_t[i] = n}
<1>1. I = {IndexOf(n)}
  BY Indices
<1>2. Min(I) = IndexOf(n)
  BY <1>1, Indices DEF Min
<1>3. SelectInSeq(isr_stack_kernel_t, LAMBDA f : f = n) = IF I # {} THEN Min(I) ELSE 0
  BY DEF SelectInSeq
<1> QED  BY <1>1, <1>2, <1>3 DEF Field

-----------------------------------------------------------------------------
(* What is on a stack. *)
Kinds == Registers \cup {"num", "sel", "start", "data", "error", "junk", "esp", "behind resched"}
Words == Kinds \X Int

(* A function on 1 .. n is a sequence of length n. *)
LEMMA AsSequence ==
    ASSUME NEW P, NEW n \in Nat, NEW f \in [1 .. n -> P]
    PROVE  f \in Seq(P) /\ Len(f) = n
OBVIOUS

(* What a concatenation is made of. *)
LEMMA Joined ==
    ASSUME NEW P, NEW s \in Seq(P), NEW t \in Seq(P)
    PROVE  /\ s \o t \in Seq(P) /\ Len(s \o t) = Len(s) + Len(t)
           /\ \A i \in 1 .. Len(s) : (s \o t)[i] = s[i]
           /\ \A i \in 1 .. Len(t) : (s \o t)[Len(s) + i] = t[i]
<1>1. s \o t \in Seq(P) /\ Len(s \o t) = Len(s) + Len(t)
  OBVIOUS
<1>2. \A i \in 1 .. Len(s) : (s \o t)[i] = s[i]
  OBVIOUS
<1>3. \A i \in 1 .. Len(t) : (s \o t)[Len(s) + i] = t[i]
  OBVIOUS
<1> QED  BY <1>1, <1>2, <1>3

Two(a, s, w1, w2) ==
    /\ a \in Seq(Words) /\ Len(a) = Len(s) + 2
    /\ \A i \in 1 .. Len(s) : a[i] = s[i]
    /\ a[Len(s) + 1] = w1 /\ a[Len(s) + 2] = w2

(* The same for words, *)
LEMMA JoinedWords ==
    ASSUME NEW s \in Seq(Words), NEW t \in Seq(Words)
    PROVE  /\ s \o t \in Seq(Words) /\ Len(s \o t) = Len(s) + Len(t)
           /\ \A i \in 1 .. Len(s) : (s \o t)[i] = s[i]
           /\ \A i \in 1 .. Len(t) : (s \o t)[Len(s) + i] = t[i]
<1>1. s \o t \in Seq(Words) /\ Len(s \o t) = Len(s) + Len(t)
  OBVIOUS
<1>2. \A i \in 1 .. Len(s) : (s \o t)[i] = s[i]
  OBVIOUS
<1>3. \A i \in 1 .. Len(t) : (s \o t)[Len(s) + i] = t[i]
  OBVIOUS
<1> QED  BY <1>1, <1>2, <1>3

(* and for two of them pushed one after the other. *)
LEMMA JoinedOnes ==
    ASSUME NEW s \in Seq(Words), NEW x \in Seq(Words), NEW y \in Seq(Words), Len(x) = 1, Len(y) = 1
    PROVE  Two(s \o (x \o y), s, x[1], y[1])
<1> DEFINE z == x \o y
           a == s \o z
<1>1. z \in Seq(Words)
  OBVIOUS
<1>2. /\ Len(z) = Len(x) + Len(y)
      /\ \A i \in 1 .. Len(x) : z[i] = x[i]
      /\ \A i \in 1 .. Len(y) : z[Len(x) + i] = y[i]
  BY JoinedWords, Zenon
<1>3. Len(z) = 2 /\ z[1] = x[1] /\ z[2] = y[1]
  BY <1>2
<1> HIDE DEF z
<1>4. a \in Seq(Words) /\ Len(a) = Len(s) + Len(z)
  BY <1>1, Joined
<1>5. \A i \in 1 .. Len(s) : a[i] = s[i]
  BY <1>1, Joined
<1>6. \A i \in 1 .. Len(z) : a[Len(s) + i] = z[i]
  BY <1>1, Joined
<1>8. 1 \in 1 .. Len(z) /\ 2 \in 1 .. Len(z)
  <2> DEFINE n == Len(z)
  <2>1. n = 2
    BY <1>3
  <2> HIDE DEF n
  <2>2. 1 \in 1 .. n /\ 2 \in 1 .. n
    BY <2>1
  <2> QED  BY <2>2 DEF n
<1>7. a[Len(s) + 1] = z[1] /\ a[Len(s) + 2] = z[2]
  BY <1>6, <1>8, Zenon
<1> QED  BY <1>3, <1>4, <1>5, <1>7 DEF z, Two

(* A length is a natural number. *)
LEMMA LengthNat == ASSUME NEW P, NEW s \in Seq(P) PROVE Len(s) \in Nat
OBVIOUS

(* A saved stack pointer is a word. *)
LEMMA EspWord == ASSUME NEW n \in Nat PROVE <<"esp", n>> \in Words
<1>1. "esp" \in Kinds /\ n \in Int
  BY DEF Kinds
<1> QED  BY <1>1, Zenon DEF Words

(* interrupt_enter pushes twelve words, the fields of the record from       *)
(* "eax" down to "gs", and the argument.                                   *)
LEMMA PushedWords ==
    ASSUME NEW s \in Seq(Words), NEW L \in Nat, Len(s) = L, NEW r \in [Registers -> Words]
    PROVE  /\ Pushed(s, r) \in Seq(Words) /\ Len(Pushed(s, r)) = L + 13
           /\ \A i \in 1 .. L : Pushed(s, r)[i] = s[i]
           /\ \A i \in 1 .. 12 : isr_stack_kernel_t[13 - i] # "esp" =>
                 Pushed(s, r)[L + i] = r[isr_stack_kernel_t[13 - i]]
           /\ Pushed(s, r)[L + 13] = <<"esp", L + 12>>
<1> DEFINE g == [k \in DOMAIN PUSHA |-> IF PUSHA[k] = "esp" THEN <<"esp", Len(s)>> ELSE r[PUSHA[k]]]
           d == <<r.ds, r.es, r.fs, r.gs>>
           sg == s \o g
           all == sg \o d
           a == <<"esp", Len(all)>>
<1>0. \A n \in Nat : <<"esp", n>> \in Words
  BY EspWord
<1>1. \A n \in Registers : r[n] \in Words
  OBVIOUS
<1>2. DOMAIN PUSHA = 1 .. 8 /\ \A k \in 1 .. 8 : PUSHA[k] = "esp" \/ PUSHA[k] \in Registers
  BY DEF PUSHA, Registers, Popped, General
<1>18. <<"esp", Len(s)>> \in Words
  BY <1>0
<1>3. \A k \in 1 .. 8 : g[k] = (IF PUSHA[k] = "esp" THEN <<"esp", Len(s)>> ELSE r[PUSHA[k]]) /\ g[k] \in Words
  BY <1>18, <1>1, <1>2
<1>4. g \in [1 .. 8 -> Words]
  BY <1>2, <1>3
<1>5. g \in Seq(Words) /\ Len(g) = 8
  <2> HIDE DEF g
  <2> QED  BY <1>4, AsSequence
<1>6. d \in Seq(Words) /\ Len(d) = 4 /\ d[1] = r.ds /\ d[2] = r.es /\ d[3] = r.fs /\ d[4] = r.gs
  <2>1. r.ds \in Words /\ r.es \in Words /\ r.fs \in Words /\ r.gs \in Words
    BY <1>1 DEF Registers, Popped, DataSegments
  <2> QED  BY <2>1
<1> HIDE DEF g, d
<1>7. /\ sg \in Seq(Words) /\ Len(sg) = L + 8
      /\ \A i \in 1 .. L : sg[i] = s[i]
      /\ \A i \in 1 .. 8 : sg[L + i] = g[i]
  <2> DEFINE m == 8
  <2>1. m \in Nat /\ Len(g) = m /\ g \in Seq(Words)
    BY <1>5
  <2> HIDE DEF m
  <2>2. s \o g \in Seq(Words) /\ Len(s \o g) = L + m
    BY <2>1
  <2>3. \A i \in 1 .. L : (s \o g)[i] = s[i]
    BY <2>1
  <2>4. \A i \in 1 .. m : (s \o g)[L + i] = g[i]
    BY <2>1
  <2> QED  BY <2>2, <2>3, <2>4 DEF m
<1> HIDE DEF sg
<1>8. /\ all \in Seq(Words) /\ Len(all) = L + 12
      /\ \A i \in 1 .. L + 8 : all[i] = sg[i]
      /\ \A i \in 1 .. 4 : all[L + 8 + i] = d[i]
  <2> DEFINE m == 4
             K == L + 8
  <2>1. m \in Nat /\ Len(d) = m /\ K \in Nat /\ Len(sg) = K /\ d \in Seq(Words) /\ sg \in Seq(Words)
    BY <1>6, <1>7
  <2> HIDE DEF m, K
  <2>2. sg \o d \in Seq(Words) /\ Len(sg \o d) = K + m
    BY <2>1
  <2>3. \A i \in 1 .. K : (sg \o d)[i] = sg[i]
    BY <2>1
  <2>4. \A i \in 1 .. m : (sg \o d)[K + i] = d[i]
    BY <2>1
  <2>5. K + m = L + 12
    BY DEF K, m
  <2> QED  BY <2>2, <2>3, <2>4, <2>5 DEF m, K
<1> HIDE DEF all
<1>9. Pushed(s, r) = Append(all, a)
  BY DEF Pushed, all, sg, g, d
<1>10. a = <<"esp", L + 12>> /\ a \in Words
  BY <1>0, <1>8
<1> HIDE DEF a
<1>11. /\ Pushed(s, r) \in Seq(Words) /\ Len(Pushed(s, r)) = L + 13
       /\ \A i \in 1 .. L + 12 : Pushed(s, r)[i] = all[i]
       /\ Pushed(s, r)[L + 13] = a
  BY <1>0, <1>8, <1>9, <1>10
<1>12. \A i \in 1 .. L : Pushed(s, r)[i] = s[i]
  <2> SUFFICES ASSUME NEW i \in 1 .. L PROVE Pushed(s, r)[i] = s[i]
    OBVIOUS
  <2>1. i \in 1 .. L + 8 /\ i \in 1 .. L + 12
    OBVIOUS
  <2> QED  BY <1>7, <1>8, <1>11, <2>1
<1>13. \A i \in 1 .. 8 : Pushed(s, r)[L + i] = g[i]
  <2> SUFFICES ASSUME NEW i \in 1 .. 8 PROVE Pushed(s, r)[L + i] = g[i]
    OBVIOUS
  <2>1. L + i \in 1 .. L + 8 /\ L + i \in 1 .. L + 12
    OBVIOUS
  <2> QED  BY <1>7, <1>8, <1>11, <2>1
<1>14. \A i \in 1 .. 4 : Pushed(s, r)[L + 8 + i] = d[i]
  <2> SUFFICES ASSUME NEW i \in 1 .. 4 PROVE Pushed(s, r)[L + 8 + i] = d[i]
    OBVIOUS
  <2>1. L + 8 + i \in 1 .. L + 12
    OBVIOUS
  <2> QED  BY <1>8, <1>11, <2>1
<1>15. \A i \in 1 .. 8 : isr_stack_kernel_t[13 - i] = PUSHA[i]
  BY DEF isr_stack_kernel_t, PUSHA
<1>16. /\ isr_stack_kernel_t[4] = "ds" /\ isr_stack_kernel_t[3] = "es"
       /\ isr_stack_kernel_t[2] = "fs" /\ isr_stack_kernel_t[1] = "gs"
  BY DEF isr_stack_kernel_t
<1>17. ASSUME NEW i \in 1 .. 12, isr_stack_kernel_t[13 - i] # "esp"
       PROVE  Pushed(s, r)[L + i] = r[isr_stack_kernel_t[13 - i]]
  <2>1. CASE i \in 1 .. 8
    <3>1. PUSHA[i] # "esp" /\ PUSHA[i] = isr_stack_kernel_t[13 - i]
      BY <1>15, <1>17, <2>1
    <3>2. g[i] = r[PUSHA[i]]
      BY <1>3, <2>1, <3>1
    <3> QED  BY <1>13, <2>1, <3>1, <3>2
  <2>2. CASE i = 9
    <3>1. Pushed(s, r)[L + 8 + 1] = r.ds
      BY <1>6, <1>14
    <3> QED  BY <1>0, <1>16, <2>2, <3>1
  <2>3. CASE i = 10
    <3>1. Pushed(s, r)[L + 8 + 2] = r.es
      BY <1>6, <1>14
    <3> QED  BY <1>0, <1>16, <2>3, <3>1
  <2>4. CASE i = 11
    <3>1. Pushed(s, r)[L + 8 + 3] = r.fs
      BY <1>6, <1>14
    <3> QED  BY <1>0, <1>16, <2>4, <3>1
  <2>5. CASE i = 12
    <3>1. Pushed(s, r)[L + 8 + 4] = r.gs
      BY <1>6, <1>14
    <3> QED  BY <1>0, <1>16, <2>5, <3>1
  <2> QED  BY <2>1, <2>2, <2>3, <2>4, <2>5
<1> QED  BY <1>10, <1>11, <1>12, <1>17

(* A stack b with a frame on it, from which the registers r come back. *)
Frame(s, b, r) ==
    /\ s \in Seq(Words) /\ Len(s) = Len(b) + 18
    /\ \A i \in 1 .. Len(b) : s[i] = b[i]
    /\ \A n \in Popped : s[Len(b) + 18 - IndexOf(n)] = r[n]

(* The fields interrupt_leave and iret load are registers, among the       *)
(* first twelve or the last three.                                         *)
LEMMA PoppedFields ==
    ASSUME NEW n \in Popped
    PROVE  /\ n \in FieldNames /\ n \in Registers /\ n # "esp" /\ n # "int_no" /\ n # "err_code"
           /\ IndexOf(n) \in 1 .. 12 \/ (IndexOf(n) = 15 /\ n = "eip")
              \/ (IndexOf(n) = 16 /\ n = "cs") \/ (IndexOf(n) = 17 /\ n = "eflags")
<1>1. n \in FieldNames /\ n \in Registers /\ n # "esp" /\ n # "int_no" /\ n # "err_code"
  BY DEF FieldNames, Registers, Popped, General, DataSegments
<1>2. IndexOf(n) \in 1 .. 17 /\ isr_stack_kernel_t[IndexOf(n)] = n
  BY <1>1, Indices
<1>3. /\ isr_stack_kernel_t[13] = "int_no" /\ isr_stack_kernel_t[14] = "err_code"
      /\ isr_stack_kernel_t[15] = "eip" /\ isr_stack_kernel_t[16] = "cs"
      /\ isr_stack_kernel_t[17] = "eflags"
  BY DEF isr_stack_kernel_t
<1> QED  BY <1>1, <1>2, <1>3

(* Five words on a stack b: those iret takes, the error code, the number.  *)
Five(s, b, r, w1, w2) ==
    /\ s \in Seq(Words) /\ Len(s) = Len(b) + 5
    /\ \A i \in 1 .. Len(b) : s[i] = b[i]
    /\ s[Len(b) + 1] = r.eflags /\ s[Len(b) + 2] = r.cs /\ s[Len(b) + 3] = r.eip
    /\ s[Len(b) + 4] = w1 /\ s[Len(b) + 5] = w2

(* What an interrupt or resched_no_int leaves on a stack. *)
Entered(s, b, r, w1, w2) ==
    /\ Frame(s, b, r) /\ s[Len(s)] = <<"esp", Len(s) - 1>>
    /\ s[Len(b) + 4] = w1 /\ s[Len(b) + 5] = w2

(* interrupt_enter on top of what the CPU and the stub push makes a whole  *)
(* frame.                                                                  *)
LEMMA FullFrame ==
    ASSUME NEW b \in Seq(Words), NEW r \in [Registers -> Words],
           NEW w1, NEW w2, NEW bf, Five(bf, b, r, w1, w2)
    PROVE  Entered(Pushed(bf, r), b, r, w1, w2)
<1> DEFINE L == Len(b)
           s == Pushed(bf, r)
<1>0. L \in Nat /\ Len(b) = L /\ s = Pushed(bf, r)
  BY LengthNat
<1> HIDE DEF L, s
<1> DEFINE K == L + 5
<1>1. /\ bf \in Seq(Words) /\ Len(bf) = L + 5
      /\ \A i \in 1 .. L : bf[i] = b[i]
      /\ bf[L + 1] = r.eflags /\ bf[L + 2] = r.cs /\ bf[L + 3] = r.eip
      /\ bf[L + 4] = w1 /\ bf[L + 5] = w2
  BY <1>0 DEF Five
<1>2. bf \in Seq(Words)
  BY <1>1
<1>3. \A i \in 1 .. L : bf[i] = b[i]
  BY <1>1
<1>5. K \in Nat /\ Len(bf) = K /\ s = Pushed(bf, r)
  BY <1>0, <1>1
<1> HIDE DEF K
<1>6. /\ s \in Seq(Words) /\ Len(s) = K + 13
      /\ \A i \in 1 .. K : s[i] = bf[i]
      /\ \A i \in 1 .. 12 : isr_stack_kernel_t[13 - i] # "esp" => s[K + i] = r[isr_stack_kernel_t[13 - i]]
      /\ s[K + 13] = <<"esp", K + 12>>
  <2>1. /\ Pushed(bf, r) \in Seq(Words) /\ Len(Pushed(bf, r)) = K + 13
        /\ \A i \in 1 .. K : Pushed(bf, r)[i] = bf[i]
        /\ \A i \in 1 .. 12 : isr_stack_kernel_t[13 - i] # "esp" =>
              Pushed(bf, r)[K + i] = r[isr_stack_kernel_t[13 - i]]
        /\ Pushed(bf, r)[K + 13] = <<"esp", K + 12>>
    BY <1>2, <1>5, PushedWords, ZenonT(40)
  <2> QED  BY <1>5, <2>1, Zenon
<1>7. K + 13 = L + 18 /\ K + 12 = L + 17 /\ L + 18 - 1 = L + 17
  BY <1>0 DEF K
<1>8. ASSUME NEW i \in 1 .. 5 PROVE s[L + i] = bf[L + i]
  <2>1. L + i \in 1 .. K
    BY <1>0 DEF K
  <2> QED  BY <1>6, <2>1
<1>9. \A i \in 1 .. L : s[i] = b[i]
  <2> SUFFICES ASSUME NEW i \in 1 .. L PROVE s[i] = b[i]
    OBVIOUS
  <2>1. i \in 1 .. K
    BY <1>0 DEF K
  <2> QED  BY <1>3, <1>6, <2>1
<1>10. s[L + 1] = r.eflags /\ s[L + 2] = r.cs /\ s[L + 3] = r.eip /\ s[L + 4] = w1 /\ s[L + 5] = w2
  BY <1>1, <1>8
<1>11. ASSUME NEW n \in Popped PROVE s[L + 18 - IndexOf(n)] = r[n]
  <2> DEFINE i == IndexOf(n)
  <2>1. CASE i \in 1 .. 12
    <3>1. isr_stack_kernel_t[i] = n /\ n # "esp"
      BY PoppedFields, Indices
    <3> HIDE DEF i
    <3>2. 13 - i \in 1 .. 12 /\ 13 - (13 - i) = i /\ K + (13 - i) = L + 18 - i
      BY <1>0, <2>1 DEF K
    <3> QED  BY <1>6, <3>1, <3>2 DEF i
  <2>2. CASE i = 15 /\ n = "eip"
    <3>1. L + 18 - 15 = L + 3
      BY <1>0
    <3> QED  BY <1>10, <2>2, <3>1
  <2>3. CASE i = 16 /\ n = "cs"
    <3>1. L + 18 - 16 = L + 2
      BY <1>0
    <3> QED  BY <1>10, <2>3, <3>1
  <2>4. CASE i = 17 /\ n = "eflags"
    <3>1. L + 18 - 17 = L + 1
      BY <1>0
    <3> QED  BY <1>10, <2>4, <3>1
  <2> QED  BY <2>1, <2>2, <2>3, <2>4, PoppedFields
<1>12. Frame(s, b, r)
  BY <1>0, <1>6, <1>7, <1>9, <1>11 DEF Frame
<1>13. s[Len(s)] = <<"esp", Len(s) - 1>>
  <2>1. Len(s) = K + 13
    BY <1>6
  <2>2. Len(s) - 1 = K + 12
    BY <1>5, <2>1
  <2>3. s[K + 13] = <<"esp", K + 12>>
    BY <1>6
  <2> QED  BY <2>1, <2>2, <2>3, Zenon
<1> QED  BY <1>0, <1>10, <1>12, <1>13 DEF Entered

(* A number is a word. *)
LEMMA NumWord == ASSUME NEW n \in Nat PROVE Num(n) \in Words
<1>1. "num" \in Kinds /\ n \in Int
  BY DEF Kinds
<1> QED  BY <1>1, Zenon DEF Num, Words

(* resched_no_int pushes the five words itself. *)
LEMMA BlockFive ==
    ASSUME NEW b \in Seq(Words), NEW r \in [Registers -> Words]
    PROVE  Five(b \o <<r.eflags, r.cs, r.eip, Num(0), Num(0)>>, b, r, Num(0), Num(0))
<1> DEFINE f == <<r.eflags, r.cs, r.eip, Num(0), Num(0)>>
           m == 5
<1>1. f \in Seq(Words) /\ Len(f) = m /\ m \in Nat
      /\ f[1] = r.eflags /\ f[2] = r.cs /\ f[3] = r.eip /\ f[4] = Num(0) /\ f[5] = Num(0)
  <2>1. r.eflags \in Words /\ r.cs \in Words /\ r.eip \in Words /\ Num(0) \in Words
    BY NumWord DEF Registers, Popped
  <2> QED  BY <2>1
<1> HIDE DEF f, m
<1>2. b \o f \in Seq(Words) /\ Len(b \o f) = Len(b) + m
  BY <1>1
<1>3. \A i \in 1 .. Len(b) : (b \o f)[i] = b[i]
  BY <1>1
<1>4. \A i \in 1 .. m : (b \o f)[Len(b) + i] = f[i]
  BY <1>1
<1>5. \A i \in 1 .. 5 : (b \o f)[Len(b) + i] = f[i]
  BY <1>4 DEF m
<1>6. /\ (b \o f)[Len(b) + 1] = r.eflags /\ (b \o f)[Len(b) + 2] = r.cs /\ (b \o f)[Len(b) + 3] = r.eip
      /\ (b \o f)[Len(b) + 4] = Num(0) /\ (b \o f)[Len(b) + 5] = Num(0)
  <2>1. 1 \in 1 .. 5 /\ 2 \in 1 .. 5 /\ 3 \in 1 .. 5 /\ 4 \in 1 .. 5 /\ 5 \in 1 .. 5
    OBVIOUS
  <2> DEFINE z(i) == (b \o f)[Len(b) + i]
  <2>2. \A i \in 1 .. 5 : z(i) = f[i]
    BY <1>5
  <2> HIDE DEF z
  <2>3. z(1) = f[1] /\ z(2) = f[2] /\ z(3) = f[3] /\ z(4) = f[4] /\ z(5) = f[5]
    BY <2>1, <2>2
  <2> QED  BY <1>1, <2>3 DEF z
<1>7. Len(b \o f) = Len(b) + 5
  BY <1>2 DEF m
<1>8. Five(b \o f, b, r, Num(0), Num(0))
  BY <1>2, <1>3, <1>6, <1>7 DEF Five
<1> QED  BY <1>8 DEF f

(* The CPU and the stub push two words between them, but for vector 17:    *)
(* the error code or a zero, and the number.                               *)
ErrorWord(v) == IF v \in HasErrorCode THEN <<"error", v>> ELSE Num(0)

(* Every stub pushes a number. *)
LEMMA StubNumberNat == ASSUME NEW v \in Vectors PROVE v \in Nat /\ StubNumber(v) \in Nat
<1>1. v \in 0 .. 39 \/ v \in 41 .. 48 \/ v = 128
  BY DEF Vectors
<1>2. v \in Nat
  BY <1>1
<1>3. v \in 32 .. 39 => v - 32 \in Nat
  BY <1>2
<1>4. v \in 41 .. 48 => v - 33 \in Nat
  BY <1>2
<1>5. CASE v \in 32 .. 39
  <2>1. v \notin 41 .. 48
    BY <1>2, <1>5
  <2>2. StubNumber(v) = v - 32
    BY <1>5, <2>1, Zenon DEF StubNumber
  <2> QED  BY <1>2, <1>3, <1>5, <2>2
<1>6. CASE v \in 41 .. 48
  <2>1. v \notin 32 .. 39
    BY <1>2, <1>6
  <2>2. StubNumber(v) = v - 33
    BY <1>6, <2>1, Zenon DEF StubNumber
  <2> QED  BY <1>2, <1>4, <1>6, <2>2
<1>7. CASE v \notin 32 .. 39 /\ v \notin 41 .. 48
  <2>1. StubNumber(v) = v
    BY <1>7, Zenon DEF StubNumber
  <2> QED  BY <1>2, <2>1
<1> QED  BY <1>5, <1>6, <1>7

(* The CPU and the stub push five words for every vector but 17, whose     *)
(* error code the stubs do not expect.                                     *)
LEMMA EnterFive ==
    ASSUME NEW b \in Seq(Words), NEW r \in [Registers -> Words], NEW v \in Vectors, v # 17
    PROVE  Five(b \o <<r.eflags, r.cs, r.eip>> \o Error(v) \o Stub(v), b, r,
                ErrorWord(v), Num(StubNumber(v)))
<1> DEFINE f == <<r.eflags, r.cs, r.eip>>
           m == 3
           bf == b \o f
           K == Len(b) + 3
           w1 == ErrorWord(v)
           w2 == Num(StubNumber(v))
           two == Error(v) \o Stub(v)
           five == bf \o Error(v) \o Stub(v)
<1>1. f \in Seq(Words) /\ Len(f) = m /\ m \in Nat
      /\ f[1] = r.eflags /\ f[2] = r.cs /\ f[3] = r.eip
  <2>1. r.eflags \in Words /\ r.cs \in Words /\ r.eip \in Words
    BY DEF Registers, Popped
  <2> QED  BY <2>1
<1>2. v \in Nat /\ StubNumber(v) \in Nat
  BY StubNumberNat
<1>3. w1 \in Words /\ w2 \in Words
  <2>1. "error" \in Kinds /\ v \in Int
    BY <1>2 DEF Kinds
  <2>2. <<"error", v>> \in Words
    BY <2>1, Zenon DEF Words
  <2>3. Num(0) \in Words /\ w2 \in Words
    BY <1>2, NumWord
  <2> QED  BY <2>2, <2>3 DEF ErrorWord
<1> HIDE DEF f, m
<1>4. bf \in Seq(Words) /\ Len(bf) = Len(b) + m
  BY <1>1
<1>5. \A i \in 1 .. Len(b) : bf[i] = b[i]
  BY <1>1
<1>6. \A i \in 1 .. m : bf[Len(b) + i] = f[i]
  BY <1>1
<1>7. /\ bf[Len(b) + 1] = r.eflags /\ bf[Len(b) + 2] = r.cs /\ bf[Len(b) + 3] = r.eip
      /\ Len(bf) = K /\ K \in Nat
  BY <1>1, <1>4, <1>6 DEF m
<1> HIDE DEF bf, K
<1>8. v \in isr_params <=> v \in HasErrorCode
  BY DEF isr_params, HasErrorCode
<1>9. \A w \in Words : LET z == bf \o <<w>> IN
         z \in Seq(Words) /\ Len(z) = K + 1 /\ (\A i \in 1 .. K : z[i] = bf[i]) /\ z[K + 1] = w
  BY <1>4, <1>7
<1>10. /\ five \in Seq(Words) /\ Len(five) = K + 2
       /\ \A i \in 1 .. K : five[i] = bf[i]
       /\ five[K + 1] = w1 /\ five[K + 2] = w2
  <2> HIDE DEF w2
  <2>1. CASE v \in isr_params
    <3>1. Error(v) = <<w1>> /\ Stub(v) = <<>> \o <<w2>>
      BY <1>8, <2>1 DEF Error, Stub, ErrorWord, w2
    <3>2. Stub(v) = <<w2>>
      BY <1>3, <3>1
    <3> HIDE DEF w1
    <3> DEFINE z == bf \o <<w1>>
    <3>3. z \in Seq(Words) /\ Len(z) = K + 1 /\ (\A i \in 1 .. K : z[i] = bf[i]) /\ z[K + 1] = w1
      BY <1>3, <1>9
    <3>4. five = z \o <<w2>>
      BY <3>1, <3>2
    <3> HIDE DEF z, five
    <3> QED  BY <1>3, <1>7, <3>3, <3>4
  <2>2. CASE v \notin isr_params
    <3>1. Error(v) = <<>> /\ Stub(v) = <<w1>> \o <<w2>>
      BY <1>8, <2>2 DEF Error, Stub, ErrorWord, w2
    <3> HIDE DEF w1
    <3>2. bf \o <<>> = bf
      BY <1>4
    <3> DEFINE x == <<w1>>
               y == <<w2>>
    <3>3. x \in Seq(Words) /\ y \in Seq(Words) /\ Len(x) = 1 /\ Len(y) = 1 /\ x[1] = w1 /\ y[1] = w2
      BY <1>3
    <3>4. five = bf \o (x \o y)
      BY <3>1, <3>2
    <3> HIDE DEF x, y, five
    <3>5. Two(bf \o (x \o y), bf, x[1], y[1])
      BY <1>4, <3>3, JoinedOnes, Zenon
    <3> QED  BY <1>7, <3>3, <3>4, <3>5 DEF Two
  <2> QED  BY <2>1, <2>2
<1> HIDE DEF five, w1, w2
<1>11. K + 1 = Len(b) + 4 /\ K + 2 = Len(b) + 5 /\ K = Len(b) + 3
  <2>1. Len(b) \in Nat
    OBVIOUS
  <2> QED  BY <2>1 DEF K
<1>12. \A i \in 1 .. K : five[i] = bf[i]
  BY <1>10
<1>13. \A i \in 1 .. Len(b) : i \in 1 .. K
  BY <1>11
<1>14. Len(b) + 1 \in 1 .. K /\ Len(b) + 2 \in 1 .. K /\ Len(b) + 3 \in 1 .. K
  BY <1>11
<1>15. Five(five, b, r, w1, w2)
  BY <1>5, <1>7, <1>10, <1>11, <1>12, <1>13, <1>14 DEF Five
<1> QED  BY <1>15 DEF five, bf, f, w1, w2

-----------------------------------------------------------------------------
(* The invariant: esp is on the running thread's stack; a thread that does  *)
(* not run has a frame on top of its own, which kstack_ptr points at and   *)
(* from which what it had comes back; so has the running one from the      *)
(* moment it was stopped until it is let go.                               *)
KernSs == <<"sel", 16>>
Context(r, s) == r \in [Registers -> Words] /\ r.ss = KernSs /\ s \in Seq(Words)
Contexts ==
    /\ thr_current \in Threads /\ stack_of = thr_current
    /\ stacks \in [Threads -> Seq(Words)]
    /\ before = [t \in Threads |-> before[t]]
    /\ \A t \in Threads : Context(before[t].regs, before[t].stack)
    /\ regs = [n \in Registers |-> regs[n]] /\ regs.ss = KernSs
    /\ kstack_ptr = [t \in Threads |-> kstack_ptr[t]]
FrameOf(t) == Frame(stacks[t], before[t].stack, before[t].regs)
OthersFramed ==
    \A t \in Threads \ {thr_current} : kstack_ptr[t] = [of |-> t, at |-> Len(stacks[t])] /\ FrameOf(t)
RunningAsBefore ==
    phase = "run" => regs = before[thr_current].regs /\ stacks[thr_current] = before[thr_current].stack
StoppedFramed ==
    phase \in {"handler", "resched", "leave"} => FrameOf(thr_current)
ArgumentRight ==
    phase \in {"handler", "resched"} =>
        stacks[thr_current][Len(stacks[thr_current])] = <<"esp", Len(stacks[thr_current]) - 1>>
HandlerWords ==
    phase = "handler" =>
        /\ vector \in Vectors
        /\ stacks[thr_current][Len(before[thr_current].stack) + 4] = ErrorWord(vector)
        /\ stacks[thr_current][Len(before[thr_current].stack) + 5] = Num(StubNumber(vector))
FInv ==
    /\ Contexts /\ OthersFramed /\ RunningAsBefore /\ StoppedFramed /\ ArgumentRight /\ HandlerWords
    /\ phase \in {"run", "handler", "resched", "leave", "halted"}

-----------------------------------------------------------------------------
(* The beginning: what main runs with, and the frames of the new threads.  *)
LEMMA NumberedWord == ASSUME NEW k \in Kinds, NEW n \in Int PROVE <<k, n>> \in Words
BY Zenon DEF Words

(* The selectors and flags the kernel uses are words; the kernel's data    *)
(* selector is what gdt_flush loads into ss.                               *)
LEMMA Selectors ==
    /\ Sel(GDT_INDEX_KERN_DATA) = KernSs /\ KernSs \in Words
    /\ Sel(GDT_INDEX_USER_DATA) \in Words /\ Sel(GDT_INDEX_USER_CODE) \in Words
    /\ <<"sel", 8>> \in Words /\ Flags(0) \in Words /\ Flags(1) \in Words
<1>0. "sel" \in Kinds /\ "eflags" \in Kinds
  BY DEF Kinds, Registers
<1>1. Sel(GDT_INDEX_KERN_DATA) = KernSs
  BY DEF Sel, GDT_SEG_DESCRIPTOR, GDT_INDEX_KERN_DATA, KernSs
<1>2. Sel(GDT_INDEX_USER_DATA) = <<"sel", 40>> /\ Sel(GDT_INDEX_USER_CODE) = <<"sel", 32>>
  BY DEF Sel, GDT_SEG_DESCRIPTOR, GDT_INDEX_USER_DATA, GDT_INDEX_USER_CODE
<1>3. 0 \in Int /\ 1 \in Int /\ 8 \in Int /\ 16 \in Int /\ 32 \in Int /\ 40 \in Int
  OBVIOUS
<1>4. <<"sel", 8>> \in Words /\ <<"sel", 16>> \in Words /\ <<"sel", 32>> \in Words /\ <<"sel", 40>> \in Words
  BY <1>0, <1>3, NumberedWord, Zenon
<1>5. <<"eflags", 0>> \in Words /\ <<"eflags", 1>> \in Words
  BY <1>0, <1>3, NumberedWord, Zenon
<1>6. Sel(GDT_INDEX_USER_DATA) \in Words /\ Sel(GDT_INDEX_USER_CODE) \in Words
  BY <1>2, <1>4, Zenon
<1> QED  BY <1>1, <1>4, <1>5, <1>6 DEF KernSs, Flags

(* What thr_new is to give a thread, and the frame it writes. *)
LEMMA NewRegsWords ==
    ASSUME NEW t \in Threads
    PROVE  NewRegs(t) \in [Registers -> Words] /\ NewRegs(t).ss = KernSs
<1>1. t \in Int /\ "start" \in Kinds /\ 0 \in Nat
  BY FramesAssumption DEF Kinds
<1>2. <<"start", t>> \in Words /\ Num(0) \in Words
  BY <1>1, NumberedWord, NumWord, Zenon
<1>3. ASSUME NEW n \in Registers PROVE NewRegs(t)[n] \in Words
  <2>1. n \in General => NewRegs(t)[n] = Num(0)
    BY DEF NewRegs, General, DataSegments
  <2>2. n \in DataSegments => NewRegs(t)[n] = Sel(GDT_INDEX_USER_DATA)
    BY DEF NewRegs, General, DataSegments
  <2>3. n = "eip" => NewRegs(t)[n] = <<"start", t>>
    BY DEF NewRegs, General, DataSegments, Registers
  <2>4. n = "cs" => NewRegs(t)[n] = Sel(GDT_INDEX_USER_CODE)
    BY DEF NewRegs, General, DataSegments, Registers
  <2>5. n = "eflags" => NewRegs(t)[n] = Flags(1)
    BY DEF NewRegs, General, DataSegments, Registers
  <2>6. n = "ss" => NewRegs(t)[n] = Sel(GDT_INDEX_KERN_DATA)
    BY DEF NewRegs, General, DataSegments, Registers
  <2>7. n \in General \/ n \in DataSegments \/ n = "eip" \/ n = "cs" \/ n = "eflags" \/ n = "ss"
    BY DEF Registers
  <2> QED  BY <1>2, <2>1, <2>2, <2>3, <2>4, <2>5, <2>6, <2>7, Selectors, Zenon
<1>4. NewRegs(t) = [n \in Registers |-> NewRegs(t)[n]]
  <2> DEFINE v(n) == CASE n \in General -> Num(0)
                       [] n \in DataSegments -> Sel(GDT_INDEX_USER_DATA)
                       [] n = "eip" -> <<"start", t>>
                       [] n = "cs" -> Sel(GDT_INDEX_USER_CODE)
                       [] n = "eflags" -> Flags(1)
                       [] n = "ss" -> Sel(GDT_INDEX_KERN_DATA)
  <2>1. NewRegs(t) = [n \in Registers |-> v(n)]
    BY DEF NewRegs
  <2> HIDE DEF v
  <2> QED  BY <2>1
<1>5. NewRegs(t).ss = KernSs
  BY Selectors DEF NewRegs, General, DataSegments, Registers
<1> QED  BY <1>3, <1>4, <1>5

(* What thr_new writes on a new thread's stack is a frame over an empty    *)
(* stack.                                                                  *)
LEMMA NewFrame == ASSUME NEW t \in Threads PROVE Frame(thr_new(t), <<>>, NewRegs(t)) /\ Len(thr_new(t)) = 18
<1> DEFINE value(f) == CASE f \in {"int_no", "err_code"} -> Num(0)
                         [] f \in DataSegments -> Sel(GDT_INDEX_USER_DATA)
                         [] f = "esp" -> <<"esp", 5>>
                         [] f = "eip" -> <<"start", t>>
                         [] f = "cs" -> Sel(GDT_INDEX_USER_CODE)
                         [] f = "eflags" -> Flags(1)
                         [] OTHER -> Num(0)
           fields == [k \in DOMAIN isr_stack_kernel_t |-> value(isr_stack_kernel_t[k])]
           m == 17
<1>1. thr_new(t) = Append(Reverse(fields), Num(0))
  BY DEF thr_new
<1>2. Num(0) \in Words /\ <<"esp", 5>> \in Words /\ <<"start", t>> \in Words
  <2>1. t \in Int /\ "start" \in Kinds /\ 0 \in Nat /\ 5 \in Nat
    BY FramesAssumption DEF Kinds
  <2> QED  BY <2>1, NumberedWord, NumWord, EspWord, Zenon
<1>3. ASSUME NEW n \in Popped PROVE value(n) = NewRegs(t)[n]
  <2>1. CASE n \in General
    BY <2>1 DEF General, DataSegments, NewRegs, Registers
  <2>2. CASE n \in DataSegments
    BY <2>2 DEF General, DataSegments, NewRegs, Registers
  <2>3. CASE n = "eip"
    BY <2>3 DEF General, DataSegments, NewRegs, Registers
  <2>4. CASE n = "cs"
    BY <2>4 DEF General, DataSegments, NewRegs, Registers
  <2>5. CASE n = "eflags"
    BY <2>5 DEF General, DataSegments, NewRegs, Registers
  <2> QED  BY <2>1, <2>2, <2>3, <2>4, <2>5 DEF Popped
<1>4. \A f \in FieldNames : value(f) \in Words
  <2> SUFFICES ASSUME NEW f \in FieldNames PROVE value(f) \in Words
    OBVIOUS
  <2>1. f \in Popped => value(f) \in Words
    <3> HIDE DEF value
    <3> QED  BY <1>3, NewRegsWords, PoppedFields
  <2>2. f = "esp" => value(f) = <<"esp", 5>>
    BY DEF DataSegments
  <2>3. f = "int_no" \/ f = "err_code" => value(f) = Num(0)
    BY DEF DataSegments
  <2> HIDE DEF value
  <2> QED  BY <1>2, <2>1, <2>2, <2>3, Zenon DEF FieldNames
<1> HIDE DEF value
<1>5. \A i \in 1 .. 17 : isr_stack_kernel_t[i] \in FieldNames
  BY DEF isr_stack_kernel_t, FieldNames, Popped, General, DataSegments
<1>6. DOMAIN isr_stack_kernel_t = 1 .. m /\ m \in Nat
  BY DEF isr_stack_kernel_t
<1>7. \A i \in 1 .. m : fields[i] = value(isr_stack_kernel_t[i]) /\ fields[i] \in Words
  BY <1>4, <1>5, <1>6
<1>8. fields \in Seq(Words) /\ Len(fields) = m
  <2>1. fields \in [1 .. m -> Words]
    BY <1>6, <1>7
  <2> HIDE DEF fields, m
  <2> QED  BY <1>6, <2>1, AsSequence
<1> HIDE DEF fields
<1> DEFINE v == Reverse(fields)
           s == Append(v, Num(0))
<1>9. v \in Seq(Words) /\ Len(v) = m /\ \A i \in 1 .. m : v[i] = fields[m - i + 1]
  <2> HIDE DEF m
  <2>1. v = [i \in 1 .. m |-> fields[m - i + 1]]
    BY <1>8 DEF Reverse
  <2>2. \A i \in 1 .. m : m - i + 1 \in 1 .. m
    BY <1>6
  <2>3. \A i \in 1 .. m : fields[m - i + 1] \in Words
    BY <1>7, <2>2
  <2>4. v \in [1 .. m -> Words]
    BY <2>1, <2>3
  <2>5. \A i \in 1 .. m : v[i] = fields[m - i + 1]
    BY <2>1
  <2> HIDE DEF v
  <2> QED  BY <1>6, <2>4, <2>5, AsSequence
<1> HIDE DEF v
<1>10. s \in Seq(Words) /\ Len(s) = m + 1 /\ \A i \in 1 .. m : s[i] = v[i]
  <2> HIDE DEF m
  <2> QED  BY <1>2, <1>6, <1>9
<1>11. Len(s) = 18
  BY <1>10 DEF m
<1>12. ASSUME NEW n \in Popped PROVE s[18 - IndexOf(n)] = NewRegs(t)[n]
  <2> DEFINE i == IndexOf(n)
  <2>1. i \in 1 .. 17 /\ isr_stack_kernel_t[i] = n
    BY Indices, PoppedFields
  <2> HIDE DEF i
  <2>2. 18 - i \in 1 .. m /\ m - (18 - i) + 1 = i /\ i \in 1 .. m
    BY <2>1 DEF m
  <2>3. s[18 - i] = v[18 - i] /\ v[18 - i] = fields[m - (18 - i) + 1] /\ fields[i] = value(n)
    BY <1>7, <1>9, <1>10, <2>1, <2>2
  <2> QED  BY <1>3, <2>2, <2>3 DEF i
<1> HIDE DEF s
<1>14. Frame(s, <<>>, NewRegs(t))
  <2> DEFINE b == <<>>
  <2>1. Len(b) = 0
    OBVIOUS
  <2> HIDE DEF b
  <2>2. Len(b) + 18 = 18 /\ \A i \in 1 .. Len(b) : s[i] = b[i]
    BY <2>1
  <2>3. \A n \in Popped : s[Len(b) + 18 - IndexOf(n)] = NewRegs(t)[n]
    <3> SUFFICES ASSUME NEW n \in Popped PROVE s[Len(b) + 18 - IndexOf(n)] = NewRegs(t)[n]
      OBVIOUS
    <3> DEFINE k == 18 - IndexOf(n)
    <3>1. k \in Int
      BY PoppedFields
    <3>2. s[k] = NewRegs(t)[n]
      BY <1>12
    <3> HIDE DEF k
    <3>3. Len(b) + k = k
      BY <2>1, <3>1
    <3>4. s[Len(b) + k] = NewRegs(t)[n]
      BY <3>2, <3>3
    <3> QED  BY <3>4 DEF k
  <2>4. Frame(s, b, NewRegs(t))
    BY <1>10, <1>11, <2>2, <2>3, Zenon DEF Frame
  <2> QED  BY <2>4 DEF b
<1> QED  BY <1>1, <1>11, <1>14 DEF s, v

(* The registers a thread works in are words, and it leaves ss alone. *)
LEMMA OwnWords ==
    ASSUME NEW t \in Threads, NEW k \in 0 .. 1, NEW if \in 0 .. 1, NEW r \in [Registers -> Words]
    PROVE  Own(t, k, if, r) \in [Registers -> Words] /\ Own(t, k, if, r).ss = r.ss
<1>1. 2 * t + k \in Int /\ if \in Int
  BY FramesAssumption
<1>2. Flags(if) \in Words
  <2>1. "eflags" \in Kinds
    BY DEF Kinds, Registers
  <2> QED  BY <1>1, <2>1, NumberedWord, Zenon DEF Flags
<1>3. \A n \in Registers : n \in Kinds
  BY DEF Kinds
<1>4. \A n \in Registers : <<n, 2 * t + k>> \in Words
  BY <1>1, <1>3, NumberedWord, Zenon
<1>5. \A n \in Registers : Own(t, k, if, r)[n] \in Words
  <2> SUFFICES ASSUME NEW n \in Registers PROVE Own(t, k, if, r)[n] \in Words
    OBVIOUS
  <2>1. \/ Own(t, k, if, r)[n] = <<n, 2 * t + k>>
        \/ Own(t, k, if, r)[n] = Flags(if)
        \/ Own(t, k, if, r)[n] = r[n]
    BY DEF Own
  <2>2. r[n] \in Words
    OBVIOUS
  <2> QED  BY <1>2, <1>4, <2>1, <2>2, Zenon
<1>6. Own(t, k, if, r) = [n \in Registers |-> Own(t, k, if, r)[n]]
  <2> DEFINE v(n) == IF n \in General \cup {"eip"} THEN <<n, 2 * t + k>> ELSE IF n = "eflags" THEN Flags(if) ELSE r[n]
  <2>1. Own(t, k, if, r) = [n \in Registers |-> v(n)]
    BY DEF Own
  <2> HIDE DEF v
  <2> QED  BY <2>1
<1>7. Own(t, k, if, r).ss = r.ss
  BY DEF Own, Registers, General
<1> QED  BY <1>5, <1>6, <1>7

(* FInv holds when main turns interrupts on. *)
LEMMA InitFInv == FramesInit => FInv
<1> SUFFICES ASSUME FramesInit PROVE FInv
  OBVIOUS
<1>1. Main \in Threads
  BY FramesAssumption
<1>2. gdt_flush \in [Registers -> Words] /\ gdt_flush.ss = KernSs
  BY Selectors DEF gdt_flush, Registers, KernSs
<1>3. regs \in [Registers -> Words] /\ regs.ss = KernSs
  <2>1. regs = Own(Main, 0, 1, gdt_flush) /\ 0 \in 0 .. 1 /\ 1 \in 0 .. 1
    BY DEF FramesInit
  <2> QED  BY <1>1, <1>2, <2>1, OwnWords
<1>4. \A t \in Threads : stacks[t] = IF t = Main THEN <<>> ELSE thr_new(t)
  BY DEF FramesInit
<1>5. DOMAIN stacks = Threads /\ stacks = [t \in Threads |-> stacks[t]]
  BY DEF FramesInit
<1>6. \A t \in Threads : stacks[t] \in Seq(Words)
  <2> SUFFICES ASSUME NEW t \in Threads PROVE stacks[t] \in Seq(Words)
    OBVIOUS
  <2>1. <<>> \in Seq(Words)
    OBVIOUS
  <2>2. thr_new(t) \in Seq(Words)
    BY NewFrame DEF Frame
  <2> QED  BY <1>4, <2>1, <2>2
<1>7. ASSUME NEW t \in Threads
      PROVE  /\ before[t].regs = IF t = Main THEN regs ELSE NewRegs(t)
             /\ before[t].stack = <<>>
  BY DEF FramesInit
<1>8. before = [t \in Threads |-> before[t]]
  BY DEF FramesInit
<1>9. ASSUME NEW t \in Threads
      PROVE  Context(before[t].regs, before[t].stack)
  <2>1. <<>> \in Seq(Words)
    OBVIOUS
  <2>2. before[t].regs \in [Registers -> Words] /\ before[t].regs.ss = KernSs
    BY <1>3, <1>7, NewRegsWords
  <2> QED  BY <1>7, <2>1, <2>2 DEF Context
<1>10. kstack_ptr = [t \in Threads |-> [of |-> t, at |-> Len(stacks[t])]]
  BY DEF FramesInit
<1>11. phase = "run" /\ stack_of = Main /\ thr_current = Main
  BY DEF FramesInit
<1>12. Contexts
  BY <1>1, <1>3, <1>5, <1>6, <1>8, <1>9, <1>10, <1>11 DEF Contexts
<1>13. OthersFramed
  <2> SUFFICES ASSUME NEW t \in Threads \ {thr_current}
               PROVE  kstack_ptr[t] = [of |-> t, at |-> Len(stacks[t])] /\ FrameOf(t)
    BY DEF OthersFramed
  <2>1. stacks[t] = thr_new(t) /\ before[t].regs = NewRegs(t) /\ before[t].stack = <<>>
    BY <1>4, <1>7, <1>11
  <2>2. FrameOf(t)
    BY <2>1, NewFrame, Zenon DEF FrameOf
  <2> QED  BY <1>10, <2>2
<1>14. RunningAsBefore
  BY <1>1, <1>4, <1>7, <1>11 DEF RunningAsBefore
<1>15. StoppedFramed /\ ArgumentRight /\ HandlerWords
  BY <1>11 DEF StoppedFramed, ArgumentRight, HandlerWords
<1> QED  BY <1>11, <1>12, <1>13, <1>14, <1>15 DEF FInv

-----------------------------------------------------------------------------
(* The steps.  All but Switch change only the running thread's stack. *)
LEMMA RanRight ==
    ASSUME Contexts, NEW r, NEW b, Ran(r, b)
    PROVE  /\ before'[thr_current].regs = r /\ before'[thr_current].stack = b
           /\ before' = [t \in Threads |-> before'[t]]
           /\ \A t \in Threads \ {thr_current} : before'[t] = before[t]
BY DEF Contexts, Ran

(* A step that writes only the running thread's stack and registers        *)
(* disturbs no stopped thread.                                             *)
LEMMA OnlyRunning ==
    ASSUME Contexts, OthersFramed, NEW s \in Seq(Words),
           stacks' = [stacks EXCEPT ![stack_of] = s],
           before' = before \/ \E r, b : Context(r, b) /\ Ran(r, b),
           regs' = [n \in Registers |-> regs'[n]], regs'.ss = KernSs,
           stack_of' = stack_of, kstack_ptr' = kstack_ptr, thr_current' = thr_current
    PROVE  Contexts' /\ OthersFramed' /\ stacks'[thr_current] = s
<1>1. thr_current \in Threads /\ stack_of = thr_current
  BY DEF Contexts
<1>2. /\ stacks' \in [Threads -> Seq(Words)] /\ stacks'[thr_current] = s
      /\ \A t \in Threads \ {thr_current} : stacks'[t] = stacks[t]
  BY <1>1 DEF Contexts
<1>3. /\ before' = [t \in Threads |-> before'[t]]
      /\ \A t \in Threads : Context(before'[t].regs, before'[t].stack)
      /\ \A t \in Threads \ {thr_current} : before'[t] = before[t]
  <2>1. CASE before' = before
    BY <2>1 DEF Contexts
  <2>2. CASE \E r, b : Context(r, b) /\ Ran(r, b)
    <3> PICK r, b : Context(r, b) /\ Ran(r, b)
      BY <2>2
    <3>1. /\ before'[thr_current].regs = r /\ before'[thr_current].stack = b
          /\ before' = [t \in Threads |-> before'[t]]
          /\ \A t \in Threads \ {thr_current} : before'[t] = before[t]
      BY RanRight
    <3>2. \A t \in Threads \ {thr_current} : Context(before'[t].regs, before'[t].stack)
      BY <3>1 DEF Contexts
    <3>3. Context(before'[thr_current].regs, before'[thr_current].stack)
      BY <3>1
    <3> QED  BY <3>1, <3>2, <3>3
  <2> QED  BY <2>1, <2>2
<1>4. Contexts'
  <2>1. kstack_ptr' = [t \in Threads |-> kstack_ptr'[t]]
    BY DEF Contexts
  <2> QED  BY <1>1, <1>2, <1>3, <2>1 DEF Contexts
<1>5. OthersFramed'
  <2> SUFFICES ASSUME NEW t \in Threads \ {thr_current}
               PROVE  kstack_ptr'[t] = [of |-> t, at |-> Len(stacks'[t])] /\ FrameOf(t)'
    BY DEF OthersFramed
  <2>1. stacks'[t] = stacks[t] /\ before'[t] = before[t] /\ kstack_ptr'[t] = kstack_ptr[t]
    BY <1>2, <1>3
  <2>2. kstack_ptr[t] = [of |-> t, at |-> Len(stacks[t])] /\ FrameOf(t)
    BY DEF OthersFramed
  <2> QED  BY <2>1, <2>2, Zenon DEF FrameOf
<1> QED  BY <1>2, <1>4, <1>5

(* A running thread's own steps keep FInv. *)
LEMMA WorkFInv == FInv /\ Work => FInv'
<1> SUFFICES ASSUME FInv, Work PROVE FInv'
  OBVIOUS
<1>1. Contexts /\ OthersFramed /\ RunningAsBefore /\ thr_current \in Threads /\ stack_of = thr_current
  BY DEF FInv, Contexts
<1>2. PICK k \in 0 .. 1, if \in 0 .. 1 :
        LET r == Own(thr_current, k, if, regs)
            s == IF k = 1 THEN <<<<"data", thr_current>>>> ELSE <<>>
        IN  regs' = r /\ stacks' = [stacks EXCEPT ![stack_of] = s] /\ Ran(r, s)
  BY DEF Work
<1> DEFINE r == Own(thr_current, k, if, regs)
           s == IF k = 1 THEN <<<<"data", thr_current>>>> ELSE <<>>
<1>3. /\ phase = "run" /\ phase' = "run" /\ stack_of' = stack_of /\ kstack_ptr' = kstack_ptr
      /\ thr_current' = thr_current
  BY DEF Work
<1>4. regs' = r /\ stacks' = [stacks EXCEPT ![stack_of] = s] /\ Ran(r, s)
  BY <1>2
<1>5. regs \in [Registers -> Words] /\ regs.ss = KernSs
  BY <1>1, <1>3 DEF RunningAsBefore, Contexts, Context
<1>6. r \in [Registers -> Words] /\ r.ss = KernSs
  BY <1>1, <1>5, OwnWords
<1>7. s \in Seq(Words)
  <2>1. "data" \in Kinds /\ thr_current \in Int
    BY <1>1, FramesAssumption DEF Kinds
  <2>2. <<"data", thr_current>> \in Words
    BY <2>1, NumberedWord, Zenon
  <2> QED  BY <2>2
<1> HIDE DEF r, s
<1>8. Context(r, s)
  BY <1>6, <1>7 DEF Context
<1>9. Contexts' /\ OthersFramed' /\ stacks'[thr_current] = s
  BY <1>1, <1>3, <1>4, <1>6, <1>7, <1>8, OnlyRunning
<1>10. before'[thr_current].regs = r /\ before'[thr_current].stack = s
  BY <1>1, <1>4, RanRight
<1>11. RunningAsBefore'
  BY <1>3, <1>4, <1>9, <1>10 DEF RunningAsBefore
<1>12. StoppedFramed' /\ ArgumentRight' /\ HandlerWords'
  BY <1>3 DEF StoppedFramed, ArgumentRight, HandlerWords
<1> QED  BY <1>3, <1>9, <1>11, <1>12 DEF FInv

(* An exception that halts the machine keeps FInv. *)
LEMMA StopsFInv == FInv /\ Stops => FInv'
<1> SUFFICES ASSUME FInv, Stops PROVE FInv'
  OBVIOUS
<1>1. /\ phase' = "halted" /\ regs' = regs /\ stacks' = stacks /\ stack_of' = stack_of
      /\ kstack_ptr' = kstack_ptr /\ thr_current' = thr_current /\ before' = before
  BY DEF Stops
<1>2. Contexts'
  BY <1>1 DEF FInv, Contexts
<1>3. OthersFramed'
  BY <1>1 DEF FInv, OthersFramed, FrameOf
<1> QED  BY <1>1, <1>2, <1>3 DEF FInv, RunningAsBefore, StoppedFramed, ArgumentRight, HandlerWords

(* A C function's own use of its argument leaves the frame alone. *)
LEMMA NewArgument ==
    ASSUME NEW b \in Seq(Words), NEW r, NEW s, Frame(s, b, r)
    PROVE  Frame(Append(Front(s), Junk), b, r)
<1> DEFINE L == Len(b)
           K == L + 17
           f == Front(s)
           a == Append(f, Junk)
<1>1. L \in Nat /\ K \in Nat /\ s \in Seq(Words) /\ Len(s) = K + 1
  <2>1. Len(b) \in Nat
    BY LengthNat
  <2> QED  BY <2>1 DEF Frame
<1>2. /\ \A i \in 1 .. L : s[i] = b[i]
      /\ \A n \in Popped : s[L + 18 - IndexOf(n)] = r[n]
  BY DEF Frame
<1>3. Junk \in Words
  <2>1. "junk" \in Kinds /\ 0 \in Int
    BY DEF Kinds
  <2> QED  BY <2>1, NumberedWord, Zenon DEF Junk
<1>4. f \in Seq(Words) /\ Len(f) = K /\ \A i \in 1 .. K : f[i] = s[i]
  <2> HIDE DEF K
  <2>1. f = [i \in 1 .. K |-> s[i]]
    BY <1>1 DEF Front
  <2>2. \A i \in 1 .. K : s[i] \in Words
    BY <1>1
  <2>3. f \in [1 .. K -> Words]
    BY <2>1, <2>2
  <2>4. \A i \in 1 .. K : f[i] = s[i]
    BY <2>1
  <2> HIDE DEF f
  <2> QED  BY <1>1, <2>3, <2>4, AsSequence
<1> HIDE DEF f
<1>5. a \in Seq(Words) /\ Len(a) = K + 1 /\ \A i \in 1 .. K : a[i] = f[i]
  <2> HIDE DEF K
  <2> QED  BY <1>1, <1>3, <1>4, SMTT(30)
<1> HIDE DEF a
<1>6. Len(a) = Len(b) + 18
  BY <1>1, <1>5
<1>7. \A i \in 1 .. Len(b) : a[i] = b[i]
  BY <1>1, <1>2, <1>4, <1>5, SMTT(30)
<1>8. ASSUME NEW n \in Popped PROVE a[Len(b) + 18 - IndexOf(n)] = r[n]
  <2> DEFINE k == Len(b) + 18 - IndexOf(n)
  <2>1. IndexOf(n) \in 1 .. 17
    BY PoppedFields, Indices
  <2>2. k \in 1 .. K
    BY <1>1, <2>1, SMTT(30)
  <2>3. s[k] = r[n]
    BY <1>2
  <2> HIDE DEF k, K
  <2>4. a[k] = r[n]
    BY <1>4, <1>5, <2>2, <2>3
  <2> QED  BY <2>4 DEF k
<1>9. Frame(a, b, r)
  BY <1>5, <1>6, <1>7, <1>8 DEF Frame
<1> QED  BY <1>9 DEF a, f

(* A handler that returns leaves its frame as it found it. *)
LEMMA ReturnsFInv == FInv /\ Returns => FInv'
<1> SUFFICES ASSUME FInv, Returns PROVE FInv'
  OBVIOUS
<1>1. Contexts /\ OthersFramed /\ StoppedFramed /\ thr_current \in Threads /\ stack_of = thr_current
  BY DEF FInv, Contexts
<1>2. /\ phase = "handler" /\ phase' = "leave" /\ stack_of' = stack_of /\ kstack_ptr' = kstack_ptr
      /\ thr_current' = thr_current /\ before' = before
  BY DEF Returns
<1> DEFINE s == Append(Front(stacks[stack_of]), Junk)
<1>3. stacks' = [stacks EXCEPT ![stack_of] = s]
  BY DEF Returns
<1>4. Frame(stacks[thr_current], before[thr_current].stack, before[thr_current].regs)
      /\ before[thr_current].stack \in Seq(Words)
  BY <1>1, <1>2 DEF StoppedFramed, FrameOf, Contexts, Context
<1>5. Frame(s, before[thr_current].stack, before[thr_current].regs)
  BY <1>1, <1>4, NewArgument, Zenon
<1>6. s \in Seq(Words)
  BY <1>5 DEF Frame
<1>7. regs' = [n \in Registers |-> regs'[n]] /\ regs'.ss = KernSs
  <2>1. regs = [n \in Registers |-> regs[n]] /\ regs.ss = KernSs
    BY <1>1 DEF Contexts
  <2>2. DOMAIN regs = Registers
    BY <2>1
  <2>3. regs' = [n \in Registers |-> IF n \in {"eax", "ecx", "edx"} THEN Junk ELSE regs[n]]
    BY <2>2 DEF Returns
  <2>4. "ss" \in Registers
    BY DEF Registers
  <2> QED  BY <2>1, <2>3, <2>4
<1> HIDE DEF s
<1>8. Contexts' /\ OthersFramed' /\ stacks'[thr_current] = s
  BY <1>1, <1>2, <1>3, <1>6, <1>7, OnlyRunning
<1>9. FrameOf(thr_current)'
  BY <1>2, <1>5, <1>8 DEF FrameOf
<1> QED  BY <1>2, <1>8, <1>9 DEF FInv, RunningAsBefore, StoppedFramed, ArgumentRight, HandlerWords

(* interrupt_leave and iret take the whole frame, and restore what it has. *)
LEMMA Resumed ==
    ASSUME NEW b, NEW r, Context(r, b), NEW s, Frame(s, b, r),
           NEW q, q = [n \in Registers |-> q[n]], q.ss = KernSs
    PROVE  interrupt_leave(s, q) = r /\ Left(s) = b
<1>1. r \in [Registers -> Words] /\ r.ss = KernSs /\ b \in Seq(Words)
  BY DEF Context
<1>2. /\ s \in Seq(Words) /\ Len(s) = Len(b) + 18
      /\ \A i \in 1 .. Len(b) : s[i] = b[i]
      /\ \A n \in Popped : s[Len(b) + 18 - IndexOf(n)] = r[n]
  BY DEF Frame
<1>3. Len(b) \in Nat
  BY <1>1, LengthNat
<1>4. ASSUME NEW n \in Popped PROVE Field(s, Len(s) - 1, n) = r[n]
  <2>1. Field(s, Len(s) - 1, n) = s[Len(s) - 1 + 1 - IndexOf(n)]
    BY PoppedFields, FieldAt
  <2>2. Len(s) - 1 + 1 - IndexOf(n) = Len(b) + 18 - IndexOf(n)
    <3> DEFINE i == IndexOf(n)
               L == Len(b)
               M == Len(s)
    <3>1. i \in Int /\ L \in Nat /\ M = L + 18
      BY <1>2, <1>3, PoppedFields
    <3> HIDE DEF i, L, M
    <3>2. M - 1 + 1 - i = L + 18 - i
      BY <3>1
    <3> QED  BY <3>2 DEF i, L, M
  <2>3. s[Len(b) + 18 - IndexOf(n)] = r[n]
    BY <1>2
  <2> QED  BY <2>1, <2>2, <2>3
<1>5. interrupt_leave(s, q) = r
  <2>1. DOMAIN q = Registers
    OBVIOUS
  <2>2. interrupt_leave(s, q) = [n \in Registers |-> IF n \in Popped THEN Field(s, Len(s) - 1, n) ELSE q[n]]
    BY <2>1 DEF interrupt_leave
  <2>3. \A n \in Registers : n \in Popped \/ n = "ss"
    BY DEF Registers, Popped
  <2>4. \A n \in Registers : (IF n \in Popped THEN Field(s, Len(s) - 1, n) ELSE q[n]) = r[n]
    BY <1>1, <1>4, <2>3
  <2> DEFINE v(n) == IF n \in Popped THEN Field(s, Len(s) - 1, n) ELSE q[n]
  <2>5. interrupt_leave(s, q) = [n \in Registers |-> v(n)] /\ \A n \in Registers : v(n) = r[n]
    BY <2>2, <2>4
  <2> HIDE DEF v
  <2> QED  BY <1>1, <2>5
<1>6. Left(s) = b
  <2>1. Left(s) = SubSeq(s, 1, Len(s) - 1 - Len(isr_stack_kernel_t))
    BY DEF Left
  <2>2. Len(s) - 1 - Len(isr_stack_kernel_t) = Len(b)
    BY <1>2, <1>3, Indices
  <2>3. Left(s) = SubSeq(s, 1, Len(b))
    BY <2>1, <2>2
  <2>4. Len(b) <= Len(s)
    BY <1>2, <1>3
  <2> DEFINE L == Len(b)
  <2>5. L \in Nat /\ Left(s) = SubSeq(s, 1, L) /\ L <= Len(s) /\ \A i \in 1 .. L : s[i] = b[i]
    BY <1>2, <1>3, <2>3, <2>4
  <2>6. b = [i \in 1 .. L |-> b[i]]
    BY <1>1
  <2> HIDE DEF L
  <2>7. Left(s) = [i \in 1 .. L |-> s[i]]
    BY <1>2, <2>5
  <2> QED  BY <2>5, <2>6, <2>7
<1> QED  BY <1>5, <1>6

(* interrupt_leave and iret load exactly what was saved. *)
LEMMA LeaveFInv == FInv /\ Leave => FInv'
<1> SUFFICES ASSUME FInv, Leave PROVE FInv'
  OBVIOUS
<1>1. Contexts /\ OthersFramed /\ StoppedFramed /\ thr_current \in Threads /\ stack_of = thr_current
  BY DEF FInv, Contexts
<1>2. /\ phase = "leave" /\ phase' = "run" /\ stack_of' = stack_of /\ kstack_ptr' = kstack_ptr
      /\ thr_current' = thr_current /\ before' = before
      /\ regs' = interrupt_leave(stacks[stack_of], regs)
      /\ stacks' = [stacks EXCEPT ![stack_of] = Left(stacks[stack_of])]
  BY DEF Leave, stack
<1> DEFINE r == before[thr_current].regs
           b == before[thr_current].stack
           s == stacks[thr_current]
<1>3. Frame(s, b, r) /\ Context(r, b)
  BY <1>1, <1>2 DEF StoppedFramed, FrameOf, Contexts
<1>4. regs = [n \in Registers |-> regs[n]] /\ regs.ss = KernSs
  BY <1>1 DEF Contexts
<1>5. interrupt_leave(s, regs) = r /\ Left(s) = b
  <2> HIDE DEF r, b, s
  <2> QED  BY <1>3, <1>4, Resumed, Zenon
<1>6. regs' = r /\ stacks' = [stacks EXCEPT ![stack_of] = b]
  BY <1>1, <1>2, <1>5
<1>7. b \in Seq(Words) /\ regs' = [n \in Registers |-> regs'[n]] /\ regs'.ss = KernSs
  BY <1>3, <1>6 DEF Context
<1>8. Contexts' /\ OthersFramed' /\ stacks'[thr_current] = b
  <2> HIDE DEF b
  <2> QED  BY <1>1, <1>2, <1>6, <1>7, OnlyRunning
<1>9. RunningAsBefore'
  BY <1>2, <1>6, <1>8 DEF RunningAsBefore
<1> QED  BY <1>2, <1>8, <1>9 DEF FInv, StoppedFramed, ArgumentRight, HandlerWords

(* Loading the kernel's data segments touches no other register. *)
LEMMA KernelDataRight ==
    ASSUME NEW r \in [Registers -> Words], r.ss = KernSs
    PROVE  /\ DOMAIN KernelData(r) = Registers /\ KernelData(r).ss = KernSs
           /\ KernelData(r) = [m \in Registers |-> KernelData(r)[m]]
<1>1. DOMAIN r = Registers /\ "ss" \in Registers /\ "ss" \notin DataSegments
  BY DEF Registers, DataSegments
<1>2. KernelData(r) = [m \in Registers |-> IF m \in DataSegments THEN Sel(GDT_INDEX_KERN_DATA) ELSE r[m]]
  BY <1>1 DEF KernelData
<1> QED  BY <1>1, <1>2

(* A thread that calls resched, as sem_wait does, is left with a frame     *)
(* over its stack.                                                         *)
LEMMA BlockFInv == FInv /\ Block => FInv'
<1> SUFFICES ASSUME FInv, Block PROVE FInv'
  OBVIOUS
<1>1. Contexts /\ OthersFramed /\ RunningAsBefore /\ thr_current \in Threads /\ stack_of = thr_current
  BY DEF FInv, Contexts
<1> DEFINE r == [regs EXCEPT !.eip = <<"behind resched", thr_current>>]
           b == stacks[thr_current]
           s == Pushed(b \o <<r.eflags, r.cs, r.eip, Num(0), Num(0)>>, r)
<1>2. /\ phase = "run" /\ phase' = "resched" /\ stack_of' = stack_of /\ kstack_ptr' = kstack_ptr
      /\ thr_current' = thr_current
      /\ regs' = [KernelData(r) EXCEPT !.eax = <<"esp", Len(stacks'[stack_of]) - 1>>]
      /\ stacks' = [stacks EXCEPT ![stack_of] = s] /\ Ran(r, b)
  BY <1>1 DEF Block, stack
<1>3. regs \in [Registers -> Words] /\ regs.ss = KernSs /\ b \in Seq(Words)
  BY <1>1, <1>2 DEF RunningAsBefore, Contexts, Context
<1>4. r \in [Registers -> Words] /\ r.ss = KernSs
  <2>1. "behind resched" \in Kinds /\ thr_current \in Int
    BY <1>1, FramesAssumption DEF Kinds
  <2>2. <<"behind resched", thr_current>> \in Words
    BY <2>1, NumberedWord, Zenon
  <2>3. "eip" # "ss" /\ "eip" \in Registers
    BY DEF Registers
  <2> DEFINE w == <<"behind resched", thr_current>>
  <2>4. w \in Words /\ r = [regs EXCEPT !.eip = w]
    BY <2>2
  <2> HIDE DEF w, r
  <2>5. r \in [Registers -> Words]
    BY <1>3, <2>4
  <2>6. r.ss = KernSs
    BY <1>3, <2>3, <2>4
  <2> QED  BY <2>5, <2>6
<1> HIDE DEF r, b
<1>5. Context(r, b)
  BY <1>3, <1>4 DEF Context
<1>6. Frame(s, b, r) /\ s[Len(s)] = <<"esp", Len(s) - 1>>
  <2>1. Entered(s, b, r, Num(0), Num(0))
    BY <1>3, <1>4, BlockFive, FullFrame, Zenon
  <2> QED  BY <2>1 DEF Entered
<1> HIDE DEF s
<1>7. s \in Seq(Words)
  BY <1>6 DEF Frame
<1>8. regs' = [n \in Registers |-> regs'[n]] /\ regs'.ss = KernSs
  <2>1. "eax" # "ss" /\ "eax" \in Registers
    BY DEF Registers, General
  <2> DEFINE q == KernelData(r)
             w == <<"esp", Len(stacks'[stack_of]) - 1>>
  <2>2. DOMAIN q = Registers /\ q.ss = KernSs /\ q = [m \in Registers |-> q[m]]
    BY <1>4, KernelDataRight
  <2>3. regs' = [q EXCEPT !.eax = w]
    BY <1>2
  <2> HIDE DEF q, w
  <2> QED  BY <2>1, <2>2, <2>3
<1>9. Contexts' /\ OthersFramed' /\ stacks'[thr_current] = s
  BY <1>1, <1>2, <1>5, <1>7, <1>8, OnlyRunning
<1>10. before'[thr_current].regs = r /\ before'[thr_current].stack = b
  BY <1>1, <1>2, RanRight
<1>11. FrameOf(thr_current)'
  BY <1>2, <1>6, <1>9, <1>10 DEF FrameOf
<1>12. ArgumentRight'
  BY <1>2, <1>6, <1>9 DEF ArgumentRight
<1> QED  BY <1>2, <1>9, <1>11, <1>12 DEF FInv, RunningAsBefore, StoppedFramed, HandlerWords

(* An interrupt or a system call with the registers r. *)
LEMMA EnterFInv ==
    ASSUME FInv, phase = "run", NEW r, Context(r, stacks[thr_current]), NEW v \in Vectors, v # 17, Enter(v, r),
           \/ before' = before /\ r = before[thr_current].regs
           \/ Ran(r, stacks[thr_current])
    PROVE  FInv'
<1>1. Contexts /\ OthersFramed /\ RunningAsBefore /\ thr_current \in Threads /\ stack_of = thr_current
  BY DEF FInv, Contexts
<1> DEFINE b == stacks[thr_current]
           bf == b \o <<r.eflags, r.cs, r.eip>> \o Error(v) \o Stub(v)
           s == Pushed(bf, r)
           q == KernelData(r)
           w1 == IF Gate(v).masks THEN Flags(0) ELSE r.eflags
           w2 == <<"sel", Gate(v).sel>>
           w3 == <<"isr", CHOOSE w \in Vectors : isr(w) = Gate(v).offset>>
<1>2. /\ phase' = "handler" /\ vector' = v
      /\ stack_of' = stack_of /\ kstack_ptr' = kstack_ptr /\ thr_current' = thr_current
  BY DEF Enter
<1>3. stacks' = [stacks EXCEPT ![stack_of] = s]
  BY <1>1 DEF Enter
<1>4. regs' = [q EXCEPT !.eflags = w1, !.cs = w2, !.eip = w3]
  BY DEF Enter
<1>5. r \in [Registers -> Words] /\ r.ss = KernSs /\ b \in Seq(Words)
  BY DEF Context
<1>6. Entered(s, b, r, ErrorWord(v), Num(StubNumber(v)))
  <2>1. Five(bf, b, r, ErrorWord(v), Num(StubNumber(v)))
    <3> HIDE DEF b
    <3> QED  BY <1>5, EnterFive, Zenon
  <2> HIDE DEF b, bf
  <2> QED  BY <1>5, <2>1, FullFrame, Zenon
<1> HIDE DEF bf, s
<1>7. Frame(s, b, r) /\ s[Len(s)] = <<"esp", Len(s) - 1>>
      /\ s[Len(b) + 4] = ErrorWord(v) /\ s[Len(b) + 5] = Num(StubNumber(v))
  BY <1>6 DEF Entered
<1>8. s \in Seq(Words)
  BY <1>7 DEF Frame
<1>9. regs' = [n \in Registers |-> regs'[n]] /\ regs'.ss = KernSs
  <2>1. {"eflags", "cs", "eip", "ss"} \subseteq Registers
    BY DEF Registers
  <2>2. DOMAIN q = Registers /\ q.ss = KernSs /\ q = [m \in Registers |-> q[m]]
    BY <1>5, KernelDataRight
  <2> HIDE DEF q, w1, w2, w3
  <2> QED  BY <1>4, <2>1, <2>2
<1>10. before' = before \/ \E r1, b1 : Context(r1, b1) /\ Ran(r1, b1)
  OBVIOUS
<1>11. before'[thr_current].regs = r /\ before'[thr_current].stack = b
  <2>1. CASE before' = before /\ r = before[thr_current].regs
    BY <1>1, <2>1 DEF RunningAsBefore
  <2>2. CASE Ran(r, stacks[thr_current])
    BY <1>1, <2>2, RanRight
  <2> QED  BY <2>1, <2>2
<1> HIDE DEF b
<1>12. Contexts' /\ OthersFramed' /\ stacks'[thr_current] = s
  BY <1>1, <1>2, <1>3, <1>8, <1>9, <1>10, OnlyRunning
<1>13. FrameOf(thr_current)'
  BY <1>2, <1>7, <1>11, <1>12 DEF FrameOf
<1>14. ArgumentRight'
  BY <1>2, <1>7, <1>12 DEF ArgumentRight
<1>15. HandlerWords'
  BY <1>2, <1>7, <1>11, <1>12, Zenon DEF HandlerWords
<1> QED  BY <1>2, <1>12, <1>13, <1>14, <1>15 DEF FInv, RunningAsBefore, StoppedFramed

(* The registers a system call is made with. *)
LEMMA LoadedRight ==
    ASSUME NEW call \in Calls, NEW r \in [Registers -> Words]
    PROVE  Loaded(call, r) \in [Registers -> Words] /\ Loaded(call, r).ss = r.ss
<1> DEFINE at(n) == SelectInSeq(SyscallRegs, LAMBDA m : m = n)
           v(n) == IF at(n) \in DOMAIN call THEN Num(call[at(n)]) ELSE r[n]
<1>1. Loaded(call, r) = [n \in Registers |-> v(n)]
  BY DEF Loaded
<1>2. ASSUME NEW k \in DOMAIN call PROVE Num(call[k]) \in Words
  <2>1. call[k] \in Nat
    BY FramesAssumption
  <2> QED  BY <2>1, NumWord, Zenon
<1>3. \A n \in Registers : v(n) \in Words
  BY <1>2
<1>4. at("ss") = 0
  <2>1. {i \in 1 .. Len(SyscallRegs) : SyscallRegs[i] = "ss"} = {}
    BY DEF SyscallRegs
  <2> QED  BY <2>1 DEF SelectInSeq
<1>5. DOMAIN call = 1 .. Len(call)
  BY FramesAssumption
<1>6. v("ss") = r.ss
  <2>1. 0 \notin 1 .. Len(call)
    BY FramesAssumption
  <2> QED  BY <1>4, <1>5, <2>1
<1> HIDE DEF v
<1>7. "ss" \in Registers
  BY DEF Registers
<1> QED  BY <1>1, <1>3, <1>6, <1>7

(* An interrupt builds its frame on the running thread's stack. *)
LEMMA InterruptFInv == ASSUME 17 \notin Raised PROVE FInv /\ Interrupt => FInv'
<1> SUFFICES ASSUME FInv, Interrupt PROVE FInv'
  OBVIOUS
<1>1. Contexts /\ RunningAsBefore /\ thr_current \in Threads /\ stack_of = thr_current
  BY DEF FInv, Contexts
<1>2. PICK v \in Raised : Enter(v, regs)
  BY DEF Interrupt
<1>3. v \in Vectors /\ v # 17
  BY FramesAssumption
<1>4. phase = "run" /\ before' = before
  BY DEF Interrupt
<1>5. regs = before[thr_current].regs /\ Context(regs, stacks[thr_current])
  BY <1>1, <1>4 DEF RunningAsBefore, Contexts
<1> QED  BY <1>2, <1>3, <1>4, <1>5, EnterFInv

(* So does a system call. *)
LEMMA SyscallFInv == FInv /\ Syscall => FInv'
<1> SUFFICES ASSUME FInv, Syscall PROVE FInv'
  OBVIOUS
<1>1. Contexts /\ RunningAsBefore /\ thr_current \in Threads /\ stack_of = thr_current
  BY DEF FInv, Contexts
<1>2. PICK call \in Calls : Enter(128, Loaded(call, regs)) /\ Ran(Loaded(call, regs), stack)
  BY DEF Syscall
<1>3. 128 \in Vectors /\ 128 # 17
  BY DEF Vectors
<1>4. phase = "run" /\ stack = stacks[thr_current]
  BY <1>1 DEF Syscall, stack
<1> DEFINE r == Loaded(call, regs)
<1>5. regs \in [Registers -> Words] /\ regs.ss = KernSs /\ stacks[thr_current] \in Seq(Words)
  BY <1>1, <1>4 DEF RunningAsBefore, Contexts, Context
<1>6. Context(r, stacks[thr_current])
  BY <1>5, LoadedRight DEF Context
<1>7. Enter(128, r) /\ Ran(r, stacks[thr_current])
  BY <1>2, <1>4
<1> HIDE DEF r
<1> QED  BY <1>3, <1>4, <1>6, <1>7, EnterFInv

(* thr_switch and thr_run: kstack_ptr is the whole stack, so that no word   *)
(* is cut off, of the thread that stops or of the one that goes on.        *)
LEMMA WholeStack == ASSUME NEW s \in Seq(Words) PROVE SubSeq(s, 1, Len(s)) = s
<1>1. Len(s) \in Nat
  BY LengthNat
<1>2. s = [i \in 1 .. Len(s) |-> s[i]]
  OBVIOUS
<1> QED  BY <1>1, <1>2

(* thr_switch takes up the frame of the thread it switches to, which was   *)
(* stopped with one.                                                       *)
LEMMA SwitchFInv == FInv /\ Switch => FInv'
<1> SUFFICES ASSUME FInv, Switch PROVE FInv'
  OBVIOUS
<1>1. /\ Contexts /\ OthersFramed /\ StoppedFramed /\ ArgumentRight
      /\ thr_current \in Threads /\ stack_of = thr_current
  BY DEF FInv, Contexts
<1>2. /\ phase \in {"handler", "resched"} /\ phase' = "leave" /\ regs' = regs /\ before' = before
  BY DEF Switch
<1> DEFINE ptrs == [kstack_ptr EXCEPT ![thr_current] = Saved(Argument(stack))]
<1>3. PICK next \in Threads :
        /\ kstack_ptr' = ptrs /\ thr_current' = next /\ stack_of' = ptrs[next].of
        /\ stacks' = [stacks EXCEPT ![ptrs[next].of] = SubSeq(@, 1, ptrs[next].at)]
  BY DEF Switch
<1>4. Saved(Argument(stack)) = [of |-> thr_current, at |-> Len(stacks[thr_current])]
  <2> DEFINE s == stacks[thr_current]
  <2>1. s \in Seq(Words) /\ stack = s
    BY <1>1 DEF Contexts, stack
  <2>2. s[Len(s)] = <<"esp", Len(s) - 1>>
    BY <1>1, <1>2 DEF ArgumentRight
  <2>3. Len(s) \in Nat
    BY <2>1, LengthNat
  <2> HIDE DEF s
  <2>4. Argument(stack) = Len(s) - 1
    BY <2>1, <2>2 DEF Argument, Last
  <2>5. Len(s) - 1 + 1 = Len(s)
    BY <2>3
  <2>6. Saved(Argument(stack)) = [of |-> thr_current, at |-> Len(s)]
    BY <1>1, <2>4, <2>5 DEF Saved
  <2> QED  BY <2>6 DEF s
<1>5. FrameOf(thr_current)
  BY <1>1, <1>2 DEF StoppedFramed
<1>6. /\ ptrs = [t \in Threads |-> ptrs[t]]
      /\ ptrs[thr_current] = [of |-> thr_current, at |-> Len(stacks[thr_current])]
      /\ \A t \in Threads \ {thr_current} : ptrs[t] = kstack_ptr[t]
  <2>1. kstack_ptr = [t \in Threads |-> kstack_ptr[t]]
    BY <1>1 DEF Contexts
  <2> DEFINE w == Saved(Argument(stack))
  <2>2. w = [of |-> thr_current, at |-> Len(stacks[thr_current])]
    BY <1>4
  <2>3. ptrs = [kstack_ptr EXCEPT ![thr_current] = w]
    OBVIOUS
  <2> HIDE DEF w, ptrs
  <2>4. ptrs = [t \in Threads |-> ptrs[t]]
    BY <2>1, <2>3
  <2>5. ptrs[thr_current] = w
    BY <1>1, <2>1, <2>3
  <2>6. \A t \in Threads \ {thr_current} : ptrs[t] = kstack_ptr[t]
    BY <2>1, <2>3
  <2> QED  BY <2>2, <2>4, <2>5, <2>6
<1>7. \A t \in Threads : ptrs[t] = [of |-> t, at |-> Len(stacks[t])] /\ FrameOf(t)
  BY <1>1, <1>5, <1>6 DEF OthersFramed
<1> HIDE DEF ptrs
<1>14. ptrs[next].of = next /\ ptrs[next].at = Len(stacks[next])
  <2> DEFINE p == ptrs[next]
             l == Len(stacks[next])
  <2>1. p = [of |-> next, at |-> l]
    BY <1>7
  <2> HIDE DEF p, l
  <2>2. p.of = next /\ p.at = l
    BY <2>1
  <2> QED  BY <2>2 DEF p, l
<1>8. stacks' = stacks
  <2>1. stacks' = [stacks EXCEPT ![next] = SubSeq(stacks[next], 1, Len(stacks[next]))]
    BY <1>3, <1>14
  <2>2. stacks \in [Threads -> Seq(Words)]
    BY <1>1 DEF Contexts
  <2>3. SubSeq(stacks[next], 1, Len(stacks[next])) = stacks[next]
    BY <2>2, WholeStack
  <2> QED  BY <2>1, <2>2, <2>3
<1>9. stack_of' = next /\ thr_current' = next
  BY <1>3, <1>14
<1>10. Contexts'
  BY <1>1, <1>2, <1>3, <1>6, <1>8, <1>9 DEF Contexts
<1>11. \A t \in Threads : kstack_ptr'[t] = [of |-> t, at |-> Len(stacks'[t])] /\ FrameOf(t)'
  BY <1>2, <1>3, <1>7, <1>8 DEF FrameOf
<1>12. OthersFramed'
  BY <1>11 DEF OthersFramed
<1>13. StoppedFramed'
  BY <1>9, <1>11 DEF StoppedFramed
<1> QED  BY <1>2, <1>10, <1>12, <1>13 DEF FInv, RunningAsBefore, ArgumentRight, HandlerWords

(* FInv holds in every state, when no exception 17 is raised. *)
LEMMA FInvAlways == ASSUME 17 \notin Raised PROVE FramesSpec => []FInv
<1>1. FInv /\ UNCHANGED framesVars => FInv'
  <2> SUFFICES ASSUME FInv, UNCHANGED framesVars PROVE FInv'
    OBVIOUS
  <2>1. /\ phase' = phase /\ regs' = regs /\ stacks' = stacks /\ stack_of' = stack_of /\ vector' = vector
        /\ kstack_ptr' = kstack_ptr /\ thr_current' = thr_current /\ before' = before
    BY DEF framesVars
  <2>2. Contexts' /\ OthersFramed'
    BY <2>1 DEF FInv, Contexts, OthersFramed, FrameOf
  <2>3. RunningAsBefore' /\ StoppedFramed' /\ ArgumentRight'
    BY <2>1 DEF FInv, RunningAsBefore, StoppedFramed, ArgumentRight, FrameOf
  <2>4. HandlerWords'
    BY <2>1 DEF FInv, HandlerWords
  <2> QED  BY <2>1, <2>2, <2>3, <2>4 DEF FInv
<1>2. FInv /\ [FramesNext]_framesVars => FInv'
  BY <1>1, WorkFInv, InterruptFInv, SyscallFInv, BlockFInv, StopsFInv, ReturnsFInv, SwitchFInv, LeaveFInv DEF FramesNext
<1> QED  BY <1>2, InitFInv, PTL DEF FramesSpec

(* A thread that runs has its stack and every register as it left them, for *)
(* any number of threads and any interrupts that come between: the frames  *)
(* that boot.asm, resched_no_int and thr_new write are all of the shape    *)
(* that interrupt_leave takes off (boot.asm:154-228, thr.c:168-213,        *)
(* 291-331, sched.c:21-48).  Vector 17, whose error code the stub does not *)
(* expect, is raised by a CPU only for user mode code, which there is not. *)
THEOREM ThreadsUndisturbedEver == ASSUME 17 \notin Raised PROVE FramesSpec => []ThreadsUndisturbed
<1>1. FInv => ThreadsUndisturbed
  BY DEF FInv, Contexts, RunningAsBefore, ThreadsUndisturbed, stack
<1> QED  BY <1>1, FInvAlways, PTL

-----------------------------------------------------------------------------
(* The registers in C functions that were entered with a frame. *)
InHandler ==
    /\ phase = "handler" => regs.eflags = Flags(0) /\ regs.eip = <<"isr", vector>>
    /\ phase = "resched" => regs.eflags = before[thr_current].regs.eflags

(* A gate leads to the stub of its own vector. *)
LEMMA EnterInHandler ==
    ASSUME GatesLead, NEW r, NEW v \in Vectors, Context(r, stacks[thr_current]), Enter(v, r)
    PROVE  InHandler'
<1> DEFINE q == KernelData(r)
           w1 == IF Gate(v).masks THEN Flags(0) ELSE r.eflags
           w2 == <<"sel", Gate(v).sel>>
           w3 == <<"isr", CHOOSE w \in Vectors : isr(w) = Gate(v).offset>>
<1>1. regs' = [q EXCEPT !.eflags = w1, !.cs = w2, !.eip = w3] /\ vector' = v /\ phase' = "handler"
  BY DEF Enter
<1>2. w1 = Flags(0) /\ w3 = <<"isr", v>>
  BY DEF GatesLead
<1>3. {"eflags", "cs", "eip"} \subseteq Registers /\ DOMAIN q = Registers
  BY KernelDataRight DEF Registers, Context
<1> HIDE DEF q, w1, w2, w3
<1>4. regs'.eflags = w1 /\ regs'.eip = w3
  BY <1>1, <1>3
<1> QED  BY <1>1, <1>2, <1>4 DEF InHandler

(* A handler runs for the vector whose stub was entered. *)
LEMMA InHandlerAlways == ASSUME 17 \notin Raised, GatesLead PROVE FramesSpec => []InHandler
<1>1. FramesInit => InHandler
  BY DEF FramesInit, InHandler
<1>2. ASSUME FInv, InHandler, [FramesNext]_framesVars PROVE InHandler'
  <2>1. CASE Interrupt
    <3>1. PICK v \in Raised : Enter(v, regs)
      BY <2>1 DEF Interrupt
    <3>2. v \in Vectors
      BY FramesAssumption
    <3>3. Context(regs, stacks[thr_current])
      BY <1>2, <2>1 DEF FInv, Contexts, RunningAsBefore, Interrupt
    <3> QED  BY <3>1, <3>2, <3>3, EnterInHandler
  <2>2. CASE Syscall
    <3>1. PICK call \in Calls : Enter(128, Loaded(call, regs))
      BY <2>2 DEF Syscall
    <3>2. 128 \in Vectors
      BY DEF Vectors
    <3>3. Context(regs, stacks[thr_current])
      BY <1>2, <2>2 DEF FInv, Contexts, RunningAsBefore, Syscall
    <3>4. Context(Loaded(call, regs), stacks[thr_current])
      BY <3>3, LoadedRight DEF Context
    <3> QED  BY <3>1, <3>2, <3>4, EnterInHandler
  <2>3. CASE Block
    <3> DEFINE r == [regs EXCEPT !.eip = <<"behind resched", thr_current>>]
               q == KernelData(r)
               w == <<"esp", Len(stacks'[stack_of]) - 1>>
    <3>1. /\ regs' = [q EXCEPT !.eax = w] /\ phase' = "resched"
          /\ thr_current' = thr_current /\ before'[thr_current].regs = r
      <4>1. regs' = [q EXCEPT !.eax = w] /\ phase' = "resched" /\ thr_current' = thr_current /\ Ran(r, stack)
        BY <2>3 DEF Block
      <4>2. Contexts
        BY <1>2 DEF FInv
      <4> QED  BY <4>1, <4>2, RanRight
    <3>2. DOMAIN regs = Registers
      BY <1>2 DEF FInv, Contexts
    <3>3. DOMAIN r = Registers /\ r.eflags = regs.eflags
      BY <3>2
    <3> HIDE DEF r
    <3>4. "eflags" \in Registers /\ "eflags" \notin DataSegments
      BY DEF Registers, DataSegments
    <3>5. q = [n \in Registers |-> IF n \in DataSegments THEN Sel(GDT_INDEX_KERN_DATA) ELSE r[n]]
      BY <3>3 DEF KernelData
    <3>6. q.eflags = r.eflags
      BY <3>4, <3>5
    <3> HIDE DEF q, w
    <3>7. regs'.eflags = q.eflags
      BY <3>1
    <3> QED  BY <3>1, <3>3, <3>6, <3>7 DEF InHandler
  <2>4. CASE Work \/ Stops \/ Returns \/ Switch \/ Leave
    BY <2>4 DEF Work, Stops, Returns, Switch, Leave, InHandler
  <2>5. CASE UNCHANGED framesVars
    BY <1>2, <2>5 DEF framesVars, InHandler
  <2> QED  BY <1>2, <2>1, <2>2, <2>3, <2>4, <2>5 DEF FramesNext
<1> QED  BY <1>1, <1>2, FInvAlways, PTL DEF FramesSpec

(* Where a C function looks through its argument. *)
LEMMA ReadAt ==
    ASSUME FInv, phase \in {"handler", "resched"}, NEW n \in FieldNames
    PROVE  Read(n) = stacks[thr_current][Len(before[thr_current].stack) + (18 - IndexOf(n))]
<1> DEFINE s == stacks[thr_current]
           b == before[thr_current].stack
           i == IndexOf(n)
<1>1. /\ Contexts /\ FrameOf(thr_current) /\ stack = s /\ thr_current \in Threads
      /\ s[Len(s)] = <<"esp", Len(s) - 1>>
  BY DEF FInv, StoppedFramed, ArgumentRight, Contexts, stack
<1>2. Len(s) = Len(b) + 18 /\ b \in Seq(Words)
  BY <1>1 DEF FrameOf, Frame, Contexts, Context
<1>3. Len(b) \in Nat
  BY <1>2, LengthNat
<1>4. i \in Int
  BY Indices
<1>5. Argument(stack) = Len(s) - 1
  <2> HIDE DEF s
  <2> QED  BY <1>1 DEF Argument, Last
<1>6. Read(n) = s[Len(s) - 1 + 1 - i]
  BY <1>1, <1>5, FieldAt, Zenon DEF Read
<1> HIDE DEF s, b, i
<1>7. Len(s) - 1 + 1 - i = Len(b) + (18 - i)
  <2> DEFINE L == Len(b)
             M == Len(s)
  <2>1. L \in Nat /\ M = L + 18 /\ i \in Int
    BY <1>2, <1>3, <1>4
  <2> HIDE DEF L, M
  <2>2. M - 1 + 1 - i = L + (18 - i)
    BY <2>1
  <2> QED  BY <2>2 DEF L, M
<1> QED  BY <1>6, <1>7 DEF s, b, i

(* A C function reads through its pointer what was stopped, which stub took *)
(* it and the CPU's error code or a zero; a handler runs with interrupts   *)
(* off and in the function of that very vector (isr.h:35-40, boot.asm:     *)
(* 106-228).                                                               *)
THEOREM FrameIsReadEver == ASSUME 17 \notin Raised, GatesLead PROVE FramesSpec => []FrameIsRead
<1>1. ASSUME FInv, InHandler PROVE FrameIsRead
  <2> SUFFICES ASSUME phase \in {"handler", "resched"}
               PROVE  /\ \A n \in Popped : Read(n) = before[thr_current].regs[n]
                      /\ phase = "handler" =>
                            /\ Read("int_no") = Num(StubNumber(vector))
                            /\ Read("err_code") = ErrorWord(vector)
                            /\ regs.eip = <<"isr", vector>>
                            /\ vector < 32 => isr_handler = exception_messages[vector]
                      /\ regs.eflags = IF phase = "handler" THEN Flags(0) ELSE before[thr_current].regs.eflags
    BY DEF FrameIsRead, ErrorWord
  <2>1. ASSUME NEW n \in Popped PROVE Read(n) = before[thr_current].regs[n]
    <3>1. stacks[thr_current][Len(before[thr_current].stack) + 18 - IndexOf(n)] = before[thr_current].regs[n]
      BY <1>1 DEF FInv, StoppedFramed, FrameOf, Frame
    <3> QED  BY <1>1, <3>1, PoppedFields, ReadAt
  <2>2. ASSUME phase = "handler"
        PROVE  Read("int_no") = Num(StubNumber(vector)) /\ Read("err_code") = ErrorWord(vector)
    <3>1. /\ "int_no" \in FieldNames /\ "err_code" \in FieldNames
          /\ isr_stack_kernel_t[13] = "int_no" /\ isr_stack_kernel_t[14] = "err_code"
      BY DEF FieldNames, isr_stack_kernel_t
    <3>2. 13 \in 1 .. 17 /\ 14 \in 1 .. 17 /\ 18 - 13 = 5 /\ 18 - 14 = 4
      OBVIOUS
    <3>3. IndexOf("int_no") = 13 /\ IndexOf("err_code") = 14
      BY <3>1, <3>2, Indices
    <3> QED  BY <1>1, <2>2, <3>1, <3>2, <3>3, ReadAt DEF FInv, HandlerWords
  <2>3. ASSUME phase = "handler", vector < 32 PROVE isr_handler = exception_messages[vector]
    <3>1. vector \in Vectors
      BY <1>1, <2>3 DEF FInv, HandlerWords
    <3>2. vector \in Nat
      BY <3>1, StubNumberNat
    <3>3. vector \notin 32 .. 39 /\ vector \notin 41 .. 48
      BY <2>3, <3>2
    <3>4. StubNumber(vector) = vector
      BY <3>3, Zenon DEF StubNumber
    <3>5. Read("int_no")[2] = vector
      BY <2>2, <2>3, <3>4 DEF Num
    <3> QED  BY <3>5 DEF isr_handler
  <2> QED  BY <1>1, <2>1, <2>2, <2>3 DEF InHandler
<1> QED  BY <1>1, FInvAlways, InHandlerAlways, PTL
=============================================================================
