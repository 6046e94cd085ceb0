----------------------------- MODULE ListProofs -----------------------------
(***************************************************************************)
(* The nodes and pointers of a list implement a sequence, for any number   *)
(* of nodes, any values and any order of them.                             *)
(***************************************************************************)
EXTENDS List, OlistProofs, FiniteSetTheorems

-----------------------------------------------------------------------------
(* c are the k nodes of a list, in order: what the pointers fst and lst,   *)
(* the contents nd of memory and the nodes us in use make of it.           *)
Linked(c, k, fst, lst, nd, us) ==
    /\ c \in [1 .. k -> Nodes]
    /\ \A i, j \in 1 .. k : c[i] = c[j] => i = j
    /\ us = {c[i] : i \in 1 .. k}
    /\ fst = IF k = 0 THEN NULL ELSE c[1]
    /\ k > 0 => lst = c[k]
    /\ \A i \in 1 .. k : nd[c[i]].next = IF i = k THEN NULL ELSE c[i + 1]
    /\ \A i \in 1 .. k : nd[c[i]].prev = IF i = 1 THEN NULL ELSE c[i - 1]

(* The items in the nodes c. *)
Vals(c, k, nd) == [i \in 1 .. k |-> nd[c[i]].value]

(* What every step keeps: the links are those of some sequence of nodes,   *)
(* and an ordered list has no slot emptied by list_set, so its items can   *)
(* be compared.                                                            *)
ListInv ==
    /\ TypeOK
    /\ Cardinality(used) = size
    /\ \E c : Linked(c, size, first, last, node, used)
    /\ ordered => \A n \in used : node[n].value \in Values

(* What the model's bounds are. *)
LEMMA Bounds ==
    /\ Cardinality(Nodes) \in Nat
    /\ \A S \in SUBSET Nodes : /\ IsFiniteSet(S)
                               /\ Cardinality(S) \in Nat /\ Cardinality(S) <= Cardinality(Nodes)
    /\ NULL \notin Nodes /\ NULL \notin Values
BY ListAssumption, FS_CardinalityType, FS_Subset

-----------------------------------------------------------------------------
(* The walks along "next" and "prev".                                      *)
NextWalk(head, nd) ==
    CHOOSE f : f = [i \in 0 .. Cardinality(Nodes) |-> IF i = 0 THEN head ELSE nd[f[i - 1]].next]
PrevWalk(head, nd) ==
    CHOOSE f : f = [i \in 0 .. Cardinality(Nodes) |-> IF i = 0 THEN head ELSE nd[f[i - 1]].prev]

(* f is what such a walk visits. *)
IsNextWalk(f, head, nd) ==
    f[0] = head /\ \A i \in 1 .. Cardinality(Nodes) : f[i] = nd[f[i - 1]].next
IsPrevWalk(f, head, nd) ==
    f[0] = head /\ \A i \in 1 .. Cardinality(Nodes) : f[i] = nd[f[i - 1]].prev

(* From any pointer there is a walk of any length along any links. *)
LEMMA WalkExists ==
    ASSUME NEW head \in Pointers, NEW nxt \in [Pointers -> Pointers], NEW n \in Nat
    PROVE  \E f \in [0 .. n -> Pointers] :
              f[0] = head /\ \A i \in 1 .. n : f[i] = nxt[f[i - 1]]
<1> DEFINE Goes(f, k) == f[0] = head /\ \A i \in 1 .. k : f[i] = nxt[f[i - 1]]
           Bad == {k \in Nat : ~\E f \in [0 .. k -> Pointers] : Goes(f, k)}
<1>1. SUFFICES ASSUME Bad # {} PROVE FALSE
  OBVIOUS
<1>2. PICK k \in Bad : \A j \in Bad : k <= j
  <2>1. Bad \subseteq Nat
    OBVIOUS
  <2> HIDE DEF Bad
  <2> QED  BY <1>1, <2>1, LeastNat
<1>3. k # 0
  <2> SUFFICES ASSUME k = 0 PROVE FALSE
    OBVIOUS
  <2> DEFINE f == [i \in 0 .. 0 |-> head]
  <2>1. f \in [0 .. 0 -> Pointers] /\ Goes(f, 0)
    OBVIOUS
  <2> QED  BY <1>2, <2>1
<1>4. k \in Nat /\ k - 1 \in Nat /\ k - 1 \notin Bad
  <2>1. k \in Nat
    BY <1>2
  <2> HIDE DEF Bad
  <2> QED  BY <1>2, <1>3, <2>1
<1>5. PICK f \in [0 .. k - 1 -> Pointers] : Goes(f, k - 1)
  BY <1>4
<1> DEFINE g == [i \in 0 .. k |-> IF i = k THEN nxt[f[k - 1]] ELSE f[i]]
<1>6. g \in [0 .. k -> Pointers]
  <2>1. f[k - 1] \in Pointers
    BY <1>4
  <2> QED  BY <1>4, <2>1
<1>7. Goes(g, k)
  <2>1. g[0] = head
    BY <1>3, <1>4, <1>5
  <2>2. ASSUME NEW i \in 1 .. k PROVE g[i] = nxt[g[i - 1]]
    <3>1. i - 1 \in 0 .. k /\ i \in 0 .. k /\ i - 1 # k
      BY <1>4
    <3>2. g[i - 1] = f[i - 1]
      BY <3>1
    <3>3. CASE i = k
      BY <3>1, <3>2, <3>3
    <3>4. CASE i # k
      <4>1. i \in 1 .. k - 1
        BY <1>4, <3>4
      <4>2. f[i] = nxt[f[i - 1]]
        BY <1>5, <4>1
      <4>3. g[i] = f[i]
        BY <3>1, <3>4
      <4> QED  BY <3>2, <4>2, <4>3
    <3> QED  BY <3>3, <3>4
  <2> QED  BY <2>1, <2>2
<1> QED  BY <1>2, <1>6, <1>7

(* So the walks of the model are what their equations say. *)
LEMMA NextWalkSpec ==
    ASSUME NEW head \in Pointers, NEW nd \in [Pointers -> Node]
    PROVE  IsNextWalk(NextWalk(head, nd), head, nd)
<1> DEFINE N == Cardinality(Nodes)
           nxt == [p \in Pointers |-> nd[p].next]
           Is(f) == f = [i \in 0 .. N |-> IF i = 0 THEN head ELSE nd[f[i - 1]].next]
<1>1. N \in Nat
  BY Bounds
<1>2. nxt \in [Pointers -> Pointers]
  BY DEF Node
<1>3. PICK f \in [0 .. N -> Pointers] : f[0] = head /\ \A i \in 1 .. N : f[i] = nxt[f[i - 1]]
  <2> HIDE DEF N, nxt, Is
  <2>1. \A m \in [Pointers -> Pointers] : \E f \in [0 .. N -> Pointers] :
           f[0] = head /\ \A i \in 1 .. N : f[i] = m[f[i - 1]]
    BY <1>1, WalkExists
  <2> QED  BY <1>2, <2>1
<1>4. Is(f)
  <2> DEFINE g == [i \in 0 .. N |-> IF i = 0 THEN head ELSE nd[f[i - 1]].next]
  <2>1. ASSUME NEW i \in 0 .. N PROVE f[i] = g[i]
    <3>1. CASE i = 0
      BY <1>3, <3>1
    <3>2. CASE i # 0
      <4>1. i \in 1 .. N /\ i - 1 \in 0 .. N
        BY <1>1, <3>2
      <4>2. f[i] = nxt[f[i - 1]] /\ f[i - 1] \in Pointers
        BY <1>3, <4>1
      <4>3. nxt[f[i - 1]] = nd[f[i - 1]].next
        BY <4>2
      <4> QED  BY <3>2, <4>2, <4>3
    <3> QED  BY <3>1, <3>2
  <2>2. f = [i \in 0 .. N |-> f[i]] /\ g = [i \in 0 .. N |-> g[i]]
    OBVIOUS
  <2>3. f = g
    <3> HIDE DEF g
    <3> QED  BY <2>1, <2>2
  <2> QED  BY <2>3
<1>5. Is(NextWalk(head, nd))
  <2>1. NextWalk(head, nd) = CHOOSE g : Is(g)
    BY DEF NextWalk
  <2> HIDE DEF Is
  <2> QED  BY <1>4, <2>1
<1> HIDE DEF N
<1>6. ASSUME NEW g, Is(g)
      PROVE  g[0] = head /\ \A i \in 1 .. N : g[i] = nd[g[i - 1]].next
  <2> DEFINE e(i) == IF i = 0 THEN head ELSE nd[g[i - 1]].next
  <2>1. g = [i \in 0 .. N |-> e(i)]
    BY <1>6
  <2>2. \A i \in 0 .. N : g[i] = e(i)
    <3> HIDE DEF e
    <3> QED  BY <2>1
  <2> QED  BY <1>1, <2>2
<1> HIDE DEF Is
<1> QED  BY <1>5, <1>6 DEF N, IsNextWalk

LEMMA PrevWalkSpec ==
    ASSUME NEW head \in Pointers, NEW nd \in [Pointers -> Node]
    PROVE  IsPrevWalk(PrevWalk(head, nd), head, nd)
<1> DEFINE N == Cardinality(Nodes)
           prv == [p \in Pointers |-> nd[p].prev]
           Is(f) == f = [i \in 0 .. N |-> IF i = 0 THEN head ELSE nd[f[i - 1]].prev]
<1>1. N \in Nat
  BY Bounds
<1>2. prv \in [Pointers -> Pointers]
  BY DEF Node
<1>3. PICK f \in [0 .. N -> Pointers] : f[0] = head /\ \A i \in 1 .. N : f[i] = prv[f[i - 1]]
  <2> HIDE DEF N, prv, Is
  <2>1. \A m \in [Pointers -> Pointers] : \E f \in [0 .. N -> Pointers] :
           f[0] = head /\ \A i \in 1 .. N : f[i] = m[f[i - 1]]
    BY <1>1, WalkExists
  <2> QED  BY <1>2, <2>1
<1>4. Is(f)
  <2> DEFINE g == [i \in 0 .. N |-> IF i = 0 THEN head ELSE nd[f[i - 1]].prev]
  <2>1. ASSUME NEW i \in 0 .. N PROVE f[i] = g[i]
    <3>1. CASE i = 0
      BY <1>3, <3>1
    <3>2. CASE i # 0
      <4>1. i \in 1 .. N /\ i - 1 \in 0 .. N
        BY <1>1, <3>2
      <4>2. f[i] = prv[f[i - 1]] /\ f[i - 1] \in Pointers
        BY <1>3, <4>1
      <4>3. prv[f[i - 1]] = nd[f[i - 1]].prev
        BY <4>2
      <4> QED  BY <3>2, <4>2, <4>3
    <3> QED  BY <3>1, <3>2
  <2>2. f = [i \in 0 .. N |-> f[i]] /\ g = [i \in 0 .. N |-> g[i]]
    OBVIOUS
  <2>3. f = g
    <3> HIDE DEF g
    <3> QED  BY <2>1, <2>2
  <2> QED  BY <2>3
<1>5. Is(PrevWalk(head, nd))
  <2>1. PrevWalk(head, nd) = CHOOSE g : Is(g)
    BY DEF PrevWalk
  <2> HIDE DEF Is
  <2> QED  BY <1>4, <2>1
<1> HIDE DEF N
<1>6. ASSUME NEW g, Is(g)
      PROVE  g[0] = head /\ \A i \in 1 .. N : g[i] = nd[g[i - 1]].prev
  <2> DEFINE e(i) == IF i = 0 THEN head ELSE nd[g[i - 1]].prev
  <2>1. g = [i \in 0 .. N |-> e(i)]
    BY <1>6
  <2>2. \A i \in 0 .. N : g[i] = e(i)
    <3> HIDE DEF e
    <3> QED  BY <2>1
  <2> QED  BY <1>1, <2>2
<1> HIDE DEF Is
<1> QED  BY <1>5, <1>6 DEF N, IsPrevWalk

LEMMA WalksSpec ==
    /\ TypeOK => IsNextWalk(NodeAt, first, node) /\ IsPrevWalk(NodeFromEnd, last, node)
    /\ TypeOK' => IsNextWalk(NodeAt', first', node')
<1>1. NodeAt = NextWalk(first, node) /\ NodeFromEnd = PrevWalk(last, node)
  BY DEF NodeAt, NodeFromEnd, NextWalk, PrevWalk
<1>2. NodeAt' = NextWalk(first', node')
  BY DEF NodeAt, NextWalk
<1>3. TypeOK => first \in Pointers /\ last \in Pointers /\ node \in [Pointers -> Node]
  BY DEF TypeOK
<1>4. TypeOK' => first' \in Pointers /\ node' \in [Pointers -> Node]
  BY DEF TypeOK
<1>5. TypeOK => IsNextWalk(NodeAt, first, node) /\ IsPrevWalk(NodeFromEnd, last, node)
  BY <1>1, <1>3, NextWalkSpec, PrevWalkSpec
<1>6. TypeOK' => IsNextWalk(NodeAt', first', node')
  BY <1>2, <1>4, NextWalkSpec
<1> QED  BY <1>5, <1>6

(* A function that starts with the first of some nodes and goes on as they *)
(* do goes through all of them.                                            *)
Follows(f, c, k) ==
    f[0] = c[1] /\ \A i \in 1 .. k - 1 : f[i - 1] = c[i] => f[i] = c[i + 1]

LEMMA WalkThrough ==
    ASSUME NEW n \in Nat, NEW k \in 1 .. n, NEW c, NEW f, Follows(f, c, k)
    PROVE  \A i \in 0 .. k - 1 : f[i] = c[i + 1]
<1> DEFINE Bad == {i \in 0 .. k - 1 : f[i] # c[i + 1]}
<1> SUFFICES ASSUME Bad # {} PROVE FALSE
  OBVIOUS
<1>1. PICK i \in Bad : \A j \in Bad : i <= j
  <2>1. Bad \subseteq Nat
    OBVIOUS
  <2> HIDE DEF Bad
  <2> QED  BY <2>1, LeastNat
<1>2. i \in 0 .. k - 1 /\ f[i] # c[i + 1]
  BY <1>1
<1>3. i # 0
  <2>1. 0 + 1 = 1
    OBVIOUS
  <2> QED  BY <1>2, <2>1 DEF Follows
<1>4. i - 1 \in 0 .. k - 1 /\ i \in 1 .. k - 1 /\ (i - 1) + 1 = i /\ i - 1 < i
  BY <1>2, <1>3
<1>5. i - 1 \notin Bad
  <2> HIDE DEF Bad
  <2> QED  BY <1>1, <1>2, <1>4
<1>6. f[i - 1] = c[i]
  BY <1>4, <1>5
<1> QED  BY <1>2, <1>4, <1>6 DEF Follows

(* The walk along "next" goes through the nodes of the list to NULL. *)
LEMMA NextThrough ==
    ASSUME NEW k \in 0 .. Cardinality(Nodes), NEW c, NEW hd, NEW lst, NEW nd, NEW us,
           Linked(c, k, hd, lst, nd, us), NEW f, IsNextWalk(f, hd, nd)
    PROVE  f[k] = NULL /\ \A i \in 0 .. k - 1 : f[i] = c[i + 1]
<1> DEFINE N == Cardinality(Nodes)
<1>0. N \in Nat /\ f[0] = hd /\ \A i \in 1 .. N : f[i] = nd[f[i - 1]].next
  BY Bounds DEF IsNextWalk
<1> HIDE DEF N
<1>1. /\ hd = IF k = 0 THEN NULL ELSE c[1]
      /\ \A i \in 1 .. k : nd[c[i]].next = IF i = k THEN NULL ELSE c[i + 1]
  BY DEF Linked
<1>2. CASE k = 0
  BY <1>0, <1>1, <1>2
<1>3. CASE k # 0
  <2>1. k \in 1 .. N
    BY <1>3 DEF N
  <2>2. ASSUME NEW i \in 1 .. k - 1, f[i - 1] = c[i] PROVE f[i] = c[i + 1]
    <3>1. i \in 1 .. N /\ i \in 1 .. k /\ i # k
      BY <1>0, <2>1
    <3>2. f[i] = nd[f[i - 1]].next
      BY <1>0, <2>1, <3>1
    <3>3. nd[c[i]].next = c[i + 1]
      BY <1>1, <3>1
    <3> QED  BY <2>2, <3>2, <3>3
  <2>3. f[0] = c[1]
    BY <1>0, <1>1, <1>3
  <2>4. \A i \in 0 .. k - 1 : f[i] = c[i + 1]
    <3>1. Follows(f, c, k)
      BY <2>2, <2>3 DEF Follows
    <3> QED  BY <1>0, <2>1, <3>1, WalkThrough
  <2>5. f[k - 1] = c[k]
    <3>1. k - 1 \in 0 .. k - 1 /\ (k - 1) + 1 = k
      BY <2>1
    <3> QED  BY <2>4, <3>1
  <2>6. f[k] = nd[c[k]].next /\ k \in 1 .. k
    BY <1>0, <2>1, <2>5
  <2> QED  BY <1>1, <2>4, <2>6
<1> QED  BY <1>2, <1>3

(* The walk along "prev" goes through them backwards. *)
LEMMA PrevThrough ==
    ASSUME NEW k \in 0 .. Cardinality(Nodes), NEW c, NEW hd, NEW lst, NEW nd, NEW us,
           Linked(c, k, hd, lst, nd, us), NEW f, IsPrevWalk(f, lst, nd)
    PROVE  \A i \in 0 .. k - 1 : f[i] = c[k - i]
<1> DEFINE N == Cardinality(Nodes)
<1>0. N \in Nat /\ f[0] = lst /\ \A i \in 1 .. N : f[i] = nd[f[i - 1]].prev
  BY Bounds DEF IsPrevWalk
<1> HIDE DEF N
<1>1. /\ k > 0 => lst = c[k]
      /\ \A i \in 1 .. k : nd[c[i]].prev = IF i = 1 THEN NULL ELSE c[i - 1]
  BY DEF Linked
<1>2. CASE k = 0
  BY <1>2
<1>3. CASE k # 0
  <2> DEFINE back == [i \in 1 .. k |-> c[(k + 1) - i]]
  <2>1. k \in 1 .. N
    BY <1>3 DEF N
  <2>b. \A i \in 1 .. k : back[i] = c[(k + 1) - i]
    OBVIOUS
  <2> HIDE DEF back
  <2>2. ASSUME NEW i \in 1 .. k - 1, f[i - 1] = back[i] PROVE f[i] = back[i + 1]
    <3> DEFINE j == (k + 1) - i
    <3>1. i \in 1 .. N /\ i \in 1 .. k /\ i + 1 \in 1 .. k /\ j \in 1 .. k /\ j # 1
          /\ j - 1 = (k + 1) - (i + 1)
      BY <1>0, <2>1
    <3>2. f[i] = nd[f[i - 1]].prev /\ back[i] = c[j] /\ back[i + 1] = c[j - 1]
      BY <1>0, <2>b, <3>1
    <3> HIDE DEF j
    <3>3. nd[c[j]].prev = c[j - 1]
      BY <1>1, <3>1
    <3> QED  BY <2>2, <3>2, <3>3
  <2>3. f[0] = back[1]
    <3>1. 1 \in 1 .. k /\ (k + 1) - 1 = k
      BY <2>1
    <3> QED  BY <1>0, <1>1, <2>1, <2>b, <3>1
  <2>4. \A i \in 0 .. k - 1 : f[i] = back[i + 1]
    <3>1. Follows(f, back, k)
      BY <2>2, <2>3 DEF Follows
    <3> QED  BY <1>0, <2>1, <3>1, WalkThrough
  <2>5. ASSUME NEW i \in 0 .. k - 1 PROVE f[i] = c[k - i]
    <3>1. i + 1 \in 1 .. k /\ (k + 1) - (i + 1) = k - i
      BY <2>1
    <3> QED  BY <2>4, <2>b, <3>1
  <2> QED  BY <2>5
<1> QED  BY <1>2, <1>3

(* The nodes as the model's walks find them. *)
LEMMA NodeAtSpec ==
    ASSUME TypeOK, NEW c, Linked(c, size, first, last, node, used)
    PROVE  /\ NodeAt[size] = NULL
           /\ \A i \in 0 .. size - 1 : NodeAt[i] = c[i + 1] /\ NodeFromEnd[i] = c[size - i]
<1>1. Cardinality(Nodes) \in Nat /\ size \in 0 .. Cardinality(Nodes)
  BY Bounds DEF TypeOK
<1>2. NodeAt[size] = NULL /\ \A i \in 0 .. size - 1 : NodeAt[i] = c[i + 1]
  BY <1>1, WalksSpec, NextThrough
<1>3. \A i \in 0 .. size - 1 : NodeFromEnd[i] = c[size - i]
  BY <1>1, WalksSpec, PrevThrough
<1> QED  BY <1>2, <1>3

(* What the list contains, before and after a step. *)
LEMMA ContentsSpec ==
    ASSUME TypeOK, NEW c, Linked(c, size, first, last, node, used)
    PROVE  Contents = Vals(c, size, node)
<1>1. \A i \in 1 .. size : NodeAt[i - 1] = c[i]
  <2> SUFFICES ASSUME NEW i \in 1 .. size PROVE NodeAt[i - 1] = c[i]
    OBVIOUS
  <2>1. size \in Nat
    BY Bounds DEF TypeOK
  <2>2. i - 1 \in 0 .. size - 1 /\ (i - 1) + 1 = i
    BY <2>1
  <2> QED  BY <2>2, NodeAtSpec
<1> QED  BY <1>1 DEF Contents, Vals

LEMMA ContentsNext ==
    ASSUME TypeOK', NEW c, Linked(c, size', first', last', node', used')
    PROVE  Contents' = Vals(c, size', node')
<1>0. Cardinality(Nodes) \in Nat /\ size' \in 0 .. Cardinality(Nodes)
  BY Bounds DEF TypeOK
<1>1. \A i \in 0 .. size' - 1 : NodeAt'[i] = c[i + 1]
  <2>1. PICK k, f, hd, lst, nd, us :
           /\ k \in 0 .. Cardinality(Nodes) /\ k = size' /\ f = NodeAt'
           /\ hd = first' /\ lst = last' /\ nd = node' /\ us = used'
    BY <1>0
  <2>2. IsNextWalk(f, hd, nd) /\ Linked(c, k, hd, lst, nd, us)
    BY <2>1, WalksSpec
  <2>3. k \in 0 .. Cardinality(Nodes)
    BY <2>1
  <2>4. \A i \in 0 .. k - 1 : f[i] = c[i + 1]
    BY <2>2, <2>3, NextThrough
  <2> QED  BY <2>1, <2>4
<1>2. \A i \in 1 .. size' : NodeAt'[i - 1] = c[i]
  <2>1. PICK k \in Nat : k = size'
    BY <1>0
  <2>2. \A i \in 1 .. k : i - 1 \in 0 .. k - 1 /\ (i - 1) + 1 = i
    OBVIOUS
  <2> QED  BY <1>1, <2>1, <2>2
<1> QED  BY <1>2 DEF Contents, Vals

-----------------------------------------------------------------------------
(* How the links change: a node put in at place p, a node taken out.       *)

(* c2 is c with n at place p. *)
PutAt(c, k, n, p) == [i \in 1 .. k + 1 |-> IF i < p THEN c[i] ELSE IF i = p THEN n ELSE c[i - 1]]

(* c2 is c without what was at place p. *)
CutAt(c, k, p) == [i \in 1 .. k - 1 |-> IF i < p THEN c[i] ELSE c[i + 1]]

(* nd2 is memory nd with node n linked in at place p of the nodes c, the   *)
(* first and last of which are fst and lst, then fst2 and lst2.            *)
PutLinks(c, k, fst, lst, nd, fst2, lst2, nd2, n, p) ==
    /\ nd2[n].next = IF p = k + 1 THEN NULL ELSE c[p]
    /\ nd2[n].prev = IF p = 1 THEN NULL ELSE c[p - 1]
    /\ fst2 = IF p = 1 THEN n ELSE fst
    /\ lst2 = IF p = k + 1 THEN n ELSE lst
    /\ \A i \in 1 .. k :
          /\ nd2[c[i]].value = nd[c[i]].value
          /\ nd2[c[i]].next = IF i = p - 1 THEN n ELSE nd[c[i]].next
          /\ nd2[c[i]].prev = IF i = p THEN n ELSE nd[c[i]].prev

LEMMA PutLinked ==
    ASSUME NEW k \in Nat, NEW c, NEW fst, NEW lst, NEW nd, NEW us,
           Linked(c, k, fst, lst, nd, us),
           NEW n \in Nodes, n \notin us, NEW p \in 1 .. k + 1, NEW fst2, NEW lst2, NEW nd2,
           PutLinks(c, k, fst, lst, nd, fst2, lst2, nd2, n, p)
    PROVE  /\ Linked(PutAt(c, k, n, p), k + 1, fst2, lst2, nd2, us \cup {n})
           /\ Vals(PutAt(c, k, n, p), k + 1, nd2) = PutAt(Vals(c, k, nd), k, nd2[n].value, p)
<1> DEFINE c2 == PutAt(c, k, n, p)
<1>a. /\ c \in [1 .. k -> Nodes]
      /\ \A i, j \in 1 .. k : c[i] = c[j] => i = j
      /\ us = {c[i] : i \in 1 .. k}
      /\ fst = IF k = 0 THEN NULL ELSE c[1]
      /\ k > 0 => lst = c[k]
      /\ \A i \in 1 .. k : nd[c[i]].next = IF i = k THEN NULL ELSE c[i + 1]
      /\ \A i \in 1 .. k : nd[c[i]].prev = IF i = 1 THEN NULL ELSE c[i - 1]
  BY DEF Linked
<1>b. /\ nd2[n].next = IF p = k + 1 THEN NULL ELSE c[p]
      /\ nd2[n].prev = IF p = 1 THEN NULL ELSE c[p - 1]
      /\ fst2 = IF p = 1 THEN n ELSE fst
      /\ lst2 = IF p = k + 1 THEN n ELSE lst
      /\ \A i \in 1 .. k :
            /\ nd2[c[i]].value = nd[c[i]].value
            /\ nd2[c[i]].next = IF i = p - 1 THEN n ELSE nd[c[i]].next
            /\ nd2[c[i]].prev = IF i = p THEN n ELSE nd[c[i]].prev
  BY DEF PutLinks
<1>c. /\ DOMAIN c2 = 1 .. k + 1 /\ c2 = [i \in 1 .. k + 1 |-> c2[i]]
      /\ \A i \in 1 .. p - 1 : i \in 1 .. k /\ c2[i] = c[i]
      /\ c2[p] = n
      /\ \A i \in p + 1 .. k + 1 : i - 1 \in 1 .. k /\ c2[i] = c[i - 1]
  BY DEF PutAt
<1>n. \A i \in 1 .. k : c[i] # n /\ c[i] \in Nodes
  BY <1>a
<1> HIDE DEF c2
<1>split. \A i \in 1 .. k + 1 : i \in 1 .. p - 1 \/ i = p \/ i \in p + 1 .. k + 1
  OBVIOUS
<1>low. \A i \in 1 .. p - 1 : /\ i \in 1 .. k /\ i \in 1 .. k + 1 /\ i < p /\ i # p /\ i # k + 1
                              /\ c2[i] = c[i]
  <2>1. \A i \in 1 .. p - 1 : i \in 1 .. k /\ i \in 1 .. k + 1 /\ i < p /\ i # p /\ i # k + 1
    OBVIOUS
  <2> QED  BY <1>c, <2>1
<1>high. \A i \in p + 1 .. k + 1 : /\ i - 1 \in 1 .. k /\ i \in 1 .. k + 1 /\ ~(i < p) /\ i # p /\ i # 1
                                   /\ i - 1 # p - 1 /\ (i - 1) + 1 = i
                                   /\ c2[i] = c[i - 1]
  <2>1. \A i \in p + 1 .. k + 1 : /\ i - 1 \in 1 .. k /\ i \in 1 .. k + 1 /\ ~(i < p) /\ i # p /\ i # 1
                                  /\ i - 1 # p - 1 /\ (i - 1) + 1 = i
    OBVIOUS
  <2> QED  BY <1>c, <2>1
<1>mid. c2[p] = n
  BY <1>c
<1>1. c2 \in [1 .. k + 1 -> Nodes]
  <2>1. \A i \in 1 .. k + 1 : c2[i] \in Nodes
    BY <1>c, <1>n, <1>split
  <2> QED  BY <1>c, <2>1
<1>2. ASSUME NEW i \in 1 .. k + 1, NEW j \in 1 .. k + 1, c2[i] = c2[j] PROVE i = j
  <2>1. CASE i = p \/ j = p
    BY <1>2, <1>c, <1>n, <1>split, <2>1
  <2>2. CASE i \in 1 .. p - 1 /\ j \in 1 .. p - 1
    BY <1>2, <1>a, <1>low, <2>2
  <2>3. CASE i \in p + 1 .. k + 1 /\ j \in p + 1 .. k + 1
    <3>1. i - 1 \in 1 .. k /\ j - 1 \in 1 .. k /\ c[i - 1] = c[j - 1]
      BY <1>2, <1>high, <2>3
    <3>2. i - 1 = j - 1
      BY <1>a, <3>1
    <3>3. i \in Int /\ j \in Int
      OBVIOUS
    <3> QED  BY <3>2, <3>3
  <2>4. ASSUME NEW x \in 1 .. p - 1, NEW y \in p + 1 .. k + 1 PROVE c2[x] # c2[y]
    <3>0. x # y - 1
      OBVIOUS
    <3>1. x \in 1 .. k /\ y - 1 \in 1 .. k /\ x # y - 1 /\ c2[x] = c[x] /\ c2[y] = c[y - 1]
      BY <1>low, <1>high, <3>0
    <3> QED  BY <1>a, <3>1
  <2> QED  BY <1>2, <1>split, <2>1, <2>2, <2>3, <2>4
<1>3. us \cup {n} = {c2[i] : i \in 1 .. k + 1}
  <2>1. ASSUME NEW i \in 1 .. k PROVE \E j \in 1 .. k + 1 : c[i] = c2[j]
    <3>1. CASE i < p
      <4>1. i \in 1 .. p - 1 /\ i \in 1 .. k + 1
        BY <3>1
      <4> QED  BY <1>low, <4>1
    <3>2. CASE ~(i < p)
      <4>1. i + 1 \in p + 1 .. k + 1 /\ i + 1 \in 1 .. k + 1 /\ (i + 1) - 1 = i
        BY <3>2
      <4>2. c2[i + 1] = c[i]
        BY <1>high, <4>1
      <4> QED  BY <4>1, <4>2
    <3> QED  BY <3>1, <3>2
  <2>2. \A i \in 1 .. k + 1 : c2[i] = n \/ \E j \in 1 .. k : c2[i] = c[j]
    BY <1>low, <1>high, <1>mid, <1>split
  <2>3. n = c2[p] /\ p \in 1 .. k + 1
    BY <1>mid
  <2>4. \A x : x \in us <=> \E i \in 1 .. k : x = c[i]
    BY <1>a
  <2>5. \A x : x \in us \cup {n} <=> \E i \in 1 .. k + 1 : x = c2[i]
    BY <2>1, <2>2, <2>3, <2>4
  <2> QED  BY <2>5
<1>4. fst2 = IF k + 1 = 0 THEN NULL ELSE c2[1]
  <2>1. CASE p = 1
    BY <1>b, <1>c, <2>1
  <2>2. CASE p # 1
    <3>1. 1 \in 1 .. p - 1 /\ k # 0 /\ k + 1 # 0
      BY <2>2
    <3> QED  BY <1>a, <1>b, <1>low, <2>2, <3>1
  <2> QED  BY <2>1, <2>2
<1>5. lst2 = c2[k + 1]
  <2>1. CASE p = k + 1
    BY <1>b, <1>c, <2>1
  <2>2. CASE p # k + 1
    <3>1. k + 1 \in p + 1 .. k + 1 /\ k > 0 /\ (k + 1) - 1 = k
      BY <2>2
    <3>2. c2[k + 1] = c[k]
      BY <1>high, <3>1
    <3> QED  BY <1>a, <1>b, <2>2, <3>1, <3>2
  <2> QED  BY <2>1, <2>2
<1>6. ASSUME NEW i \in 1 .. k + 1
      PROVE  nd2[c2[i]].next = IF i = k + 1 THEN NULL ELSE c2[i + 1]
  <2>1. CASE i = p
    <3>1. CASE p = k + 1
      BY <1>b, <1>c, <2>1, <3>1
    <3>2. CASE p # k + 1
      <4>1. p + 1 \in p + 1 .. k + 1 /\ (p + 1) - 1 = p
        BY <3>2
      <4> QED  BY <1>b, <1>c, <2>1, <3>2, <4>1
    <3> QED  BY <3>1, <3>2
  <2>2. CASE i \in 1 .. p - 1
    <3>1. i \in 1 .. k /\ i # k + 1 /\ c2[i] = c[i]
      BY <1>low, <2>2
    <3>2. CASE i = p - 1
      <4>1. i + 1 = p
        BY <3>2
      <4> QED  BY <1>b, <1>c, <3>1, <3>2, <4>1
    <3>3. CASE i # p - 1
      <4>1. i + 1 \in 1 .. p - 1 /\ i # k
        BY <2>2, <3>3
      <4>2. nd2[c[i]].next = nd[c[i]].next
        BY <1>b, <3>1, <3>3
      <4>3. nd[c[i]].next = c[i + 1]
        BY <1>a, <3>1, <4>1
      <4>4. c2[i + 1] = c[i + 1]
        BY <1>c, <4>1
      <4> QED  BY <3>1, <4>2, <4>3, <4>4
    <3> QED  BY <3>2, <3>3
  <2>3. CASE i \in p + 1 .. k + 1
    <3>1. i - 1 \in 1 .. k /\ i - 1 # p - 1 /\ c2[i] = c[i - 1] /\ (i - 1) + 1 = i
      BY <1>high, <2>3
    <3>2. nd2[c2[i]].next = IF i - 1 = k THEN NULL ELSE c[i]
      BY <1>a, <1>b, <3>1
    <3>3. CASE i = k + 1
      BY <3>2, <3>3
    <3>4. CASE i # k + 1
      <4>1. i + 1 \in p + 1 .. k + 1 /\ (i + 1) - 1 = i /\ i - 1 # k
        BY <2>3, <3>4
      <4> QED  BY <1>c, <3>2, <3>4, <4>1
    <3> QED  BY <3>3, <3>4
  <2> QED  BY <1>split, <2>1, <2>2, <2>3
<1>7. ASSUME NEW i \in 1 .. k + 1
      PROVE  nd2[c2[i]].prev = IF i = 1 THEN NULL ELSE c2[i - 1]
  <2>1. CASE i = p
    <3>1. CASE p = 1
      BY <1>b, <1>c, <2>1, <3>1
    <3>2. CASE p # 1
      <4>1. p - 1 \in 1 .. p - 1
        BY <3>2
      <4> QED  BY <1>b, <1>c, <2>1, <3>2, <4>1
    <3> QED  BY <3>1, <3>2
  <2>2. CASE i \in 1 .. p - 1
    <3>1. i \in 1 .. k /\ i # p /\ c2[i] = c[i]
      BY <1>low, <2>2
    <3>2. nd2[c2[i]].prev = IF i = 1 THEN NULL ELSE c[i - 1]
      BY <1>a, <1>b, <3>1
    <3>3. CASE i # 1
      <4>1. i - 1 \in 1 .. p - 1
        BY <2>2, <3>3
      <4> QED  BY <1>c, <3>2, <3>3, <4>1
    <3> QED  BY <3>2, <3>3
  <2>3. CASE i \in p + 1 .. k + 1
    <3>1. i - 1 \in 1 .. k /\ c2[i] = c[i - 1] /\ i # 1
      BY <1>high, <2>3
    <3>2. CASE i = p + 1
      <4>1. i - 1 = p
        BY <3>2
      <4> QED  BY <1>b, <1>c, <3>1, <4>1
    <3>3. CASE i # p + 1
      <4>1. i - 1 \in p + 1 .. k + 1 /\ i - 1 # p /\ i - 1 # 1
        BY <2>3, <3>3
      <4>2. nd2[c[i - 1]].prev = c[(i - 1) - 1]
        BY <1>a, <1>b, <3>1, <4>1
      <4> QED  BY <1>c, <3>1, <4>1, <4>2
    <3> QED  BY <3>2, <3>3
  <2> QED  BY <1>split, <2>1, <2>2, <2>3
<1>8. Linked(c2, k + 1, fst2, lst2, nd2, us \cup {n})
  BY <1>1, <1>2, <1>3, <1>4, <1>5, <1>6, <1>7 DEF Linked
<1>9. Vals(c2, k + 1, nd2) = PutAt(Vals(c, k, nd), k, nd2[n].value, p)
  <2> DEFINE v == Vals(c, k, nd)
             w == PutAt(v, k, nd2[n].value, p)
             u == Vals(c2, k + 1, nd2)
  <2>1. /\ \A i \in 1 .. k : v[i] = nd[c[i]].value
        /\ u = [i \in 1 .. k + 1 |-> u[i]] /\ \A i \in 1 .. k + 1 : u[i] = nd2[c2[i]].value
    BY DEF Vals
  <2>2. /\ w = [i \in 1 .. k + 1 |-> w[i]]
        /\ \A i \in 1 .. k + 1 :
              w[i] = IF i < p THEN v[i] ELSE IF i = p THEN nd2[n].value ELSE v[i - 1]
    BY DEF PutAt
  <2> HIDE DEF u, v, w
  <2>3. ASSUME NEW i \in 1 .. k + 1 PROVE u[i] = w[i]
    <3>1. CASE i = p
      BY <1>c, <2>1, <2>2, <3>1
    <3>2. CASE i \in 1 .. p - 1
      <4>1. i \in 1 .. k /\ c2[i] = c[i] /\ i < p
        BY <1>low, <3>2
      <4> QED  BY <1>b, <2>1, <2>2, <4>1
    <3>3. CASE i \in p + 1 .. k + 1
      <4>1. i - 1 \in 1 .. k /\ c2[i] = c[i - 1] /\ ~(i < p) /\ i # p
        BY <1>high, <3>3
      <4> QED  BY <1>b, <2>1, <2>2, <4>1
    <3> QED  BY <1>split, <3>1, <3>2, <3>3
  <2>4. u = w
    BY <2>1, <2>2, <2>3
  <2> QED  BY <2>4 DEF u, v, w
<1> QED  BY <1>8, <1>9 DEF c2

(* nd2 is memory nd with the node at place p of the nodes c unlinked,      *)
(* which is the last of them only when it is the only one.                 *)
CutLinks(c, k, fst, lst, nd, fst2, lst2, nd2, p) ==
    /\ p < k \/ k = 1
    /\ fst2 = IF p = 1 THEN nd[c[1]].next ELSE fst
    /\ lst2 = lst
    /\ \A i \in 1 .. k : i # p =>
          /\ nd2[c[i]].value = nd[c[i]].value
          /\ nd2[c[i]].next = IF i = p - 1 THEN nd[c[p]].next ELSE nd[c[i]].next
          /\ nd2[c[i]].prev = IF i = p + 1 THEN nd[c[p]].prev ELSE nd[c[i]].prev

LEMMA CutLinked ==
    ASSUME NEW k \in Nat, NEW c, NEW fst, NEW lst, NEW nd, NEW us,
           Linked(c, k, fst, lst, nd, us),
           NEW p \in 1 .. k, NEW fst2, NEW lst2, NEW nd2,
           CutLinks(c, k, fst, lst, nd, fst2, lst2, nd2, p)
    PROVE  /\ Linked(CutAt(c, k, p), k - 1, fst2, lst2, nd2, us \ {c[p]})
           /\ Vals(CutAt(c, k, p), k - 1, nd2) = CutAt(Vals(c, k, nd), k, p)
<1> DEFINE c2 == CutAt(c, k, p)
<1>a. /\ c \in [1 .. k -> Nodes]
      /\ \A i, j \in 1 .. k : c[i] = c[j] => i = j
      /\ us = {c[i] : i \in 1 .. k}
      /\ fst = IF k = 0 THEN NULL ELSE c[1]
      /\ k > 0 => lst = c[k]
      /\ \A i \in 1 .. k : nd[c[i]].next = IF i = k THEN NULL ELSE c[i + 1]
      /\ \A i \in 1 .. k : nd[c[i]].prev = IF i = 1 THEN NULL ELSE c[i - 1]
  BY DEF Linked
<1>b. /\ p < k \/ k = 1
      /\ fst2 = IF p = 1 THEN nd[c[1]].next ELSE fst
      /\ lst2 = lst
      /\ \A i \in 1 .. k : i # p =>
            /\ nd2[c[i]].value = nd[c[i]].value
            /\ nd2[c[i]].next = IF i = p - 1 THEN nd[c[p]].next ELSE nd[c[i]].next
            /\ nd2[c[i]].prev = IF i = p + 1 THEN nd[c[p]].prev ELSE nd[c[i]].prev
  BY DEF CutLinks
<1>c. /\ DOMAIN c2 = 1 .. k - 1 /\ c2 = [i \in 1 .. k - 1 |-> c2[i]]
      /\ \A i \in 1 .. p - 1 : c2[i] = c[i]
      /\ \A i \in p .. k - 1 : c2[i] = c[i + 1]
  <2>1. \A i \in 1 .. p - 1 : i \in 1 .. k - 1 /\ i < p
    OBVIOUS
  <2>2. \A i \in p .. k - 1 : i \in 1 .. k - 1 /\ ~(i < p)
    OBVIOUS
  <2> QED  BY <2>1, <2>2 DEF CutAt
<1> HIDE DEF c2
<1>split. \A i \in 1 .. k - 1 : i \in 1 .. p - 1 \/ i \in p .. k - 1
  OBVIOUS
<1>low. \A i \in 1 .. p - 1 : i \in 1 .. k /\ i \in 1 .. k - 1 /\ i # p /\ i # p + 1 /\ i # k /\ c2[i] = c[i]
  <2>1. \A i \in 1 .. p - 1 : i \in 1 .. k /\ i \in 1 .. k - 1 /\ i # p /\ i # p + 1 /\ i # k
    OBVIOUS
  <2> QED  BY <1>c, <2>1
<1>high. \A i \in p .. k - 1 : /\ i + 1 \in 1 .. k /\ i \in 1 .. k - 1 /\ i + 1 # p /\ i + 1 # p - 1 /\ i + 1 # 1
                               /\ (i + 1) - 1 = i /\ c2[i] = c[i + 1]
  <2>1. \A i \in p .. k - 1 : /\ i + 1 \in 1 .. k /\ i \in 1 .. k - 1 /\ i + 1 # p /\ i + 1 # p - 1 /\ i + 1 # 1
                              /\ (i + 1) - 1 = i
    OBVIOUS
  <2> QED  BY <1>c, <2>1
<1>1. c2 \in [1 .. k - 1 -> Nodes]
  <2>1. \A i \in 1 .. k - 1 : c2[i] \in Nodes
    BY <1>a, <1>low, <1>high, <1>split
  <2> QED  BY <1>c, <2>1
<1>2. ASSUME NEW i \in 1 .. k - 1, NEW j \in 1 .. k - 1, c2[i] = c2[j] PROVE i = j
  <2>1. CASE i \in 1 .. p - 1 /\ j \in 1 .. p - 1
    BY <1>2, <1>a, <1>low, <2>1
  <2>2. CASE i \in p .. k - 1 /\ j \in p .. k - 1
    <3>1. i + 1 = j + 1
      BY <1>2, <1>a, <1>high, <2>2
    <3> QED  BY <3>1
  <2>3. ASSUME NEW x \in 1 .. p - 1, NEW y \in p .. k - 1 PROVE c2[x] # c2[y]
    <3>0. x # y + 1
      OBVIOUS
    <3>1. x \in 1 .. k /\ y + 1 \in 1 .. k /\ c2[x] = c[x] /\ c2[y] = c[y + 1]
      BY <1>low, <1>high
    <3> QED  BY <1>a, <3>0, <3>1
  <2> QED  BY <1>2, <1>split, <2>1, <2>2, <2>3
<1>3. us \ {c[p]} = {c2[i] : i \in 1 .. k - 1}
  <2>1. ASSUME NEW i \in 1 .. k, i # p PROVE \E j \in 1 .. k - 1 : c[i] = c2[j]
    <3>1. CASE i < p
      <4>1. i \in 1 .. p - 1
        BY <3>1
      <4> QED  BY <1>low, <4>1
    <3>2. CASE ~(i < p)
      <4>1. i - 1 \in p .. k - 1 /\ (i - 1) + 1 = i
        BY <2>1, <3>2
      <4>2. c2[i - 1] = c[i] /\ i - 1 \in 1 .. k - 1
        BY <1>high, <4>1
      <4> QED  BY <4>2
    <3> QED  BY <3>1, <3>2
  <2>2. ASSUME NEW i \in 1 .. k - 1 PROVE \E j \in 1 .. k : j # p /\ c2[i] = c[j]
    BY <1>low, <1>high, <1>split
  <2>3. \A x : x \in us <=> \E i \in 1 .. k : x = c[i]
    BY <1>a
  <2>4. \A i \in 1 .. k : c[i] = c[p] <=> i = p
    BY <1>a
  <2>5. \A x : x \in us \ {c[p]} <=> \E i \in 1 .. k - 1 : x = c2[i]
    BY <2>1, <2>2, <2>3, <2>4
  <2> QED  BY <2>5
<1>4. fst2 = IF k - 1 = 0 THEN NULL ELSE c2[1]
  <2>1. CASE p = 1
    <3>1. 1 \in 1 .. k /\ 1 + 1 = 2
      OBVIOUS
    <3>2. fst2 = IF 1 = k THEN NULL ELSE c[2]
      BY <1>a, <1>b, <2>1, <3>1
    <3>3. CASE k = 1
      BY <3>2, <3>3
    <3>4. CASE k # 1
      <4>1. 1 \in p .. k - 1 /\ k - 1 # 0
        BY <2>1, <3>4
      <4> QED  BY <1>c, <3>1, <3>2, <3>4, <4>1
    <3> QED  BY <3>3, <3>4
  <2>2. CASE p # 1
    <3>1. 1 \in 1 .. p - 1 /\ k # 0 /\ k - 1 # 0
      BY <2>2
    <3> QED  BY <1>a, <1>b, <1>low, <2>2, <3>1
  <2> QED  BY <2>1, <2>2
<1>5. ASSUME k - 1 > 0 PROVE lst2 = c2[k - 1]
  <2>1. k - 1 \in p .. k - 1 /\ k > 0 /\ (k - 1) + 1 = k
    BY <1>5, <1>b
  <2>2. c2[k - 1] = c[k]
    BY <1>c, <2>1
  <2> QED  BY <1>a, <1>b, <2>1, <2>2
<1>6. ASSUME NEW i \in 1 .. k - 1
      PROVE  nd2[c2[i]].next = IF i = k - 1 THEN NULL ELSE c2[i + 1]
  <2>0. p < k
    BY <1>b
  <2>1. CASE i \in 1 .. p - 1
    <3>0. i \in 1 .. k /\ i # p /\ i # k /\ c2[i] = c[i]
      BY <1>low, <2>1
    <3>1. CASE i = p - 1
      <4>1. i + 1 = p /\ p \in p .. k - 1 /\ i # k - 1 /\ p # k
        BY <2>0, <3>1
      <4>2. nd2[c2[i]].next = c[p + 1]
        BY <1>a, <1>b, <3>0, <3>1, <4>1
      <4>3. c2[p] = c[p + 1]
        BY <1>c, <4>1
      <4> QED  BY <4>1, <4>2, <4>3
    <3>2. CASE i # p - 1
      <4>1. i + 1 \in 1 .. p - 1 /\ i # k - 1
        BY <2>1, <3>2
      <4>2. nd2[c[i]].next = nd[c[i]].next
        BY <1>b, <3>0, <3>2
      <4>3. nd[c[i]].next = c[i + 1]
        BY <1>a, <3>0
      <4>4. c2[i + 1] = c[i + 1]
        BY <1>c, <4>1
      <4> QED  BY <3>0, <4>1, <4>2, <4>3, <4>4
    <3> QED  BY <3>1, <3>2
  <2>2. CASE i \in p .. k - 1
    <3>0. i + 1 \in 1 .. k /\ i + 1 # p /\ i + 1 # p - 1 /\ c2[i] = c[i + 1]
      BY <1>high, <2>2
    <3>1. nd2[c2[i]].next = IF i + 1 = k THEN NULL ELSE c[(i + 1) + 1]
      BY <1>a, <1>b, <3>0
    <3>2. CASE i = k - 1
      <4>1. i + 1 = k
        BY <3>2
      <4> QED  BY <3>1, <3>2, <4>1
    <3>3. CASE i # k - 1
      <4>1. i + 1 \in p .. k - 1 /\ i + 1 # k
        BY <2>2, <3>3
      <4> QED  BY <1>c, <3>1, <3>3, <4>1
    <3> QED  BY <3>2, <3>3
  <2> QED  BY <1>split, <2>1, <2>2
<1>7. ASSUME NEW i \in 1 .. k - 1
      PROVE  nd2[c2[i]].prev = IF i = 1 THEN NULL ELSE c2[i - 1]
  <2>1. CASE i \in 1 .. p - 1
    <3>0. i \in 1 .. k /\ i # p /\ i # p + 1 /\ c2[i] = c[i]
      BY <1>low, <2>1
    <3>1. nd2[c2[i]].prev = IF i = 1 THEN NULL ELSE c[i - 1]
      BY <1>a, <1>b, <3>0
    <3>2. CASE i # 1
      <4>1. i - 1 \in 1 .. p - 1
        BY <2>1, <3>2
      <4> QED  BY <1>c, <3>1, <3>2, <4>1
    <3> QED  BY <3>1, <3>2
  <2>2. CASE i \in p .. k - 1
    <3>0. i + 1 \in 1 .. k /\ i + 1 # p /\ c2[i] = c[i + 1] /\ i + 1 # 1 /\ (i + 1) - 1 = i
      BY <1>high, <2>2
    <3>1. CASE i = p
      <4>1. nd2[c2[i]].prev = IF p = 1 THEN NULL ELSE c[p - 1]
        <5>1. nd2[c[i + 1]].prev = nd[c[p]].prev
          BY <1>b, <3>0, <3>1
        <5> QED  BY <1>a, <3>0, <5>1
      <4>2. CASE p # 1
        <5>1. p - 1 \in 1 .. p - 1
          BY <4>2
        <5> QED  BY <1>c, <3>1, <4>1, <4>2, <5>1
      <4> QED  BY <3>1, <4>1, <4>2
    <3>2. CASE i # p
      <4>1. i - 1 \in p .. k - 1 /\ (i - 1) + 1 = i /\ i # 1 /\ i + 1 # p + 1
        BY <2>2, <3>2
      <4>2. nd2[c[i + 1]].prev = c[i]
        BY <1>a, <1>b, <3>0, <4>1
      <4>3. c2[i - 1] = c[i]
        BY <1>c, <4>1
      <4> QED  BY <3>0, <4>1, <4>2, <4>3
    <3> QED  BY <3>1, <3>2
  <2> QED  BY <1>split, <2>1, <2>2
<1>8. Linked(c2, k - 1, fst2, lst2, nd2, us \ {c[p]})
  BY <1>1, <1>2, <1>3, <1>4, <1>5, <1>6, <1>7 DEF Linked
<1>9. Vals(c2, k - 1, nd2) = CutAt(Vals(c, k, nd), k, p)
  <2> DEFINE v == Vals(c, k, nd)
             w == CutAt(v, k, p)
             u == Vals(c2, k - 1, nd2)
  <2>1. /\ \A i \in 1 .. k : v[i] = nd[c[i]].value
        /\ u = [i \in 1 .. k - 1 |-> u[i]] /\ \A i \in 1 .. k - 1 : u[i] = nd2[c2[i]].value
    BY DEF Vals
  <2>2. /\ w = [i \in 1 .. k - 1 |-> w[i]]
        /\ \A i \in 1 .. k - 1 : w[i] = IF i < p THEN v[i] ELSE v[i + 1]
    BY DEF CutAt
  <2> HIDE DEF u, v, w
  <2>3. ASSUME NEW i \in 1 .. k - 1 PROVE u[i] = w[i]
    <3>1. CASE i \in 1 .. p - 1
      <4>1. i \in 1 .. k /\ c2[i] = c[i] /\ i < p /\ i # p
        BY <1>low, <3>1
      <4> QED  BY <1>b, <2>1, <2>2, <4>1
    <3>2. CASE i \in p .. k - 1
      <4>1. i + 1 \in 1 .. k /\ c2[i] = c[i + 1] /\ ~(i < p) /\ i + 1 # p
        BY <1>high, <3>2
      <4> QED  BY <1>b, <2>1, <2>2, <4>1
    <3> QED  BY <1>split, <3>1, <3>2
  <2>4. u = w
    BY <2>1, <2>2, <2>3
  <2> QED  BY <2>4 DEF u, v, w
<1> QED  BY <1>8, <1>9 DEF c2

-----------------------------------------------------------------------------
(* Such a step keeps the invariant.                                        *)
LEMMA ListTyped ==
    ASSUME ListInv
    PROVE  /\ TypeOK /\ Cardinality(used) = size /\ size \in Nat
           /\ first \in Pointers /\ last \in Pointers /\ node \in [Pointers -> Node]
           /\ used \subseteq Nodes /\ NULL \notin used
BY Bounds DEF ListInv, TypeOK

LEMMA PutStep ==
    ASSUME ListInv, NEW c, Linked(c, size, first, last, node, used),
           NEW n \in Nodes \ used, NEW p \in 1 .. size + 1,
           PutLinks(c, size, first, last, node, first', last', node', n, p),
           used' = used \cup {n}, size' = size + 1, ordered' = ordered,
           node' \in [Pointers -> Node], ordered => node'[n].value \in Values
    PROVE  ListInv' /\ Contents' = PutAt(Contents, size, node'[n].value, p)
<1>0. /\ TypeOK /\ Cardinality(used) = size /\ size \in Nat
      /\ first \in Pointers /\ last \in Pointers /\ used \subseteq Nodes
  BY ListTyped
<1> DEFINE c2 == PutAt(c, size, n, p)
<1>1. /\ Linked(c2, size + 1, first', last', node', used \cup {n})
      /\ Vals(c2, size + 1, node') = PutAt(Vals(c, size, node), size, node'[n].value, p)
  BY <1>0, PutLinked
<1> HIDE DEF c2
<1>2. Linked(c2, size', first', last', node', used')
  BY <1>1
<1>3. used' \subseteq Nodes /\ Cardinality(used') = size'
  <2>1. IsFiniteSet(used)
    BY <1>0, Bounds
  <2> QED  BY <1>0, <2>1, FS_AddElement
<1>4. TypeOK'
  <2>1. size' \in 0 .. Cardinality(Nodes)
    BY <1>0, <1>3, Bounds
  <2>2. first' \in Pointers /\ last' \in Pointers
    BY <1>0 DEF PutLinks, Pointers
  <2>3. ordered' \in BOOLEAN
    BY <1>0 DEF TypeOK
  <2> QED  BY <1>3, <2>1, <2>2, <2>3 DEF TypeOK
<1>5. ASSUME ordered', NEW m \in used' PROVE node'[m].value \in Values
  <2>1. CASE m = n
    BY <1>5, <2>1
  <2>2. CASE m # n
    <3>1. m \in used
      BY <2>2
    <3>2. PICK i \in 1 .. size : m = c[i]
      BY <3>1 DEF Linked
    <3>3. node'[c[i]].value = node[c[i]].value
      BY DEF PutLinks
    <3> QED  BY <1>5, <3>1, <3>2, <3>3 DEF ListInv
  <2> QED  BY <2>1, <2>2
<1>6. ListInv'
  BY <1>2, <1>3, <1>4, <1>5 DEF ListInv
<1>7. Contents' = Vals(c2, size', node')
  BY <1>2, <1>4, ContentsNext
<1>8. Contents = Vals(c, size, node)
  BY <1>0, ContentsSpec
<1> QED  BY <1>1, <1>6, <1>7, <1>8

LEMMA CutStep ==
    ASSUME ListInv, NEW c, Linked(c, size, first, last, node, used), NEW p \in 1 .. size,
           CutLinks(c, size, first, last, node, first', last', node', p),
           used' = used \ {c[p]}, size' = size - 1, ordered' = ordered,
           node' \in [Pointers -> Node]
    PROVE  ListInv' /\ Contents' = CutAt(Contents, size, p)
<1>0. /\ TypeOK /\ Cardinality(used) = size /\ size \in Nat
      /\ first \in Pointers /\ last \in Pointers /\ used \subseteq Nodes
      /\ node \in [Pointers -> Node]
  BY ListTyped
<1> DEFINE c2 == CutAt(c, size, p)
<1>1. /\ Linked(c2, size - 1, first', last', node', used \ {c[p]})
      /\ Vals(c2, size - 1, node') = CutAt(Vals(c, size, node), size, p)
  BY <1>0, CutLinked
<1> HIDE DEF c2
<1>2. Linked(c2, size', first', last', node', used')
  BY <1>1
<1>c. /\ \A i \in 1 .. size : c[i] \in used
      /\ \A i \in 1 .. size : i # p => c[i] # c[p]
      /\ \A m \in used : \E i \in 1 .. size : m = c[i]
  BY DEF Linked
<1>3. used' \subseteq Nodes /\ Cardinality(used') = size'
  <2>1. IsFiniteSet(used)
    BY <1>0, Bounds
  <2>2. c[p] \in used
    BY <1>c
  <2> QED  BY <1>0, <2>1, <2>2, FS_RemoveElement
<1>4. TypeOK'
  <2>1. size' \in 0 .. Cardinality(Nodes)
    <3>1. size <= Cardinality(Nodes) /\ Cardinality(Nodes) \in Nat
      BY <1>0, Bounds
    <3> QED  BY <1>0, <3>1
  <2>2. first' \in Pointers /\ last' \in Pointers
    <3>1. node[c[1]].next \in Pointers
      <4>1. 1 \in 1 .. size
        BY <1>0
      <4>2. c[1] \in Pointers
        BY <1>0, <1>c, <4>1 DEF Pointers
      <4> QED  BY <1>0, <4>2 DEF Node
    <3> QED  BY <1>0, <3>1 DEF CutLinks
  <2>3. ordered' \in BOOLEAN
    BY <1>0 DEF TypeOK
  <2> QED  BY <1>3, <2>1, <2>2, <2>3 DEF TypeOK
<1>5. ASSUME ordered', NEW m \in used' PROVE node'[m].value \in Values
  <2>1. m \in used /\ m # c[p]
    OBVIOUS
  <2>2. PICK i \in 1 .. size : m = c[i]
    BY <1>c, <2>1
  <2>3. node'[c[i]].value = node[c[i]].value
    BY <2>1, <2>2 DEF CutLinks
  <2> QED  BY <1>5, <2>1, <2>2, <2>3 DEF ListInv
<1>6. ListInv'
  BY <1>2, <1>3, <1>4, <1>5 DEF ListInv
<1>7. Contents' = Vals(c2, size', node')
  BY <1>2, <1>4, ContentsNext
<1>8. Contents = Vals(c, size, node)
  BY <1>0, ContentsSpec
<1> QED  BY <1>1, <1>6, <1>7, <1>8

-----------------------------------------------------------------------------
(* What a list contains is a sequence, and these steps are operations on   *)
(* it.                                                                     *)
LEMMA ContentsSeq ==
    ASSUME ListInv
    PROVE  /\ Contents \in Seq(Values \cup {NULL}) /\ Len(Contents) = size
           /\ ordered => Contents \in Seq(Values)
<1>0. TypeOK /\ size \in Nat /\ node \in [Pointers -> Node]
  BY ListTyped
<1>1. PICK c : Linked(c, size, first, last, node, used)
  BY DEF ListInv
<1>2. Contents = [i \in 1 .. size |-> node[c[i]].value]
  BY <1>0, <1>1, ContentsSpec DEF Vals
<1>3. \A i \in 1 .. size : c[i] \in Nodes /\ c[i] \in used
  BY <1>1 DEF Linked
<1>4. \A i \in 1 .. size : node[c[i]].value \in Values \cup {NULL}
  BY <1>0, <1>3 DEF Pointers, Node
<1>5. ordered => \A i \in 1 .. size : node[c[i]].value \in Values
  BY <1>3 DEF ListInv
<1> QED  BY <1>0, <1>2, <1>4, <1>5

LEMMA PutLastIsAppend ==
    ASSUME NEW S, NEW s \in Seq(S), NEW x \in S
    PROVE  PutAt(s, Len(s), x, Len(s) + 1) = Append(s, x)
<1> DEFINE t == PutAt(s, Len(s), x, Len(s) + 1)
           u == Append(s, x)
<1>1. /\ t = [i \in 1 .. Len(s) + 1 |-> t[i]]
      /\ \A i \in 1 .. Len(s) + 1 :
            t[i] = IF i < Len(s) + 1 THEN s[i] ELSE IF i = Len(s) + 1 THEN x ELSE s[i - 1]
  BY DEF PutAt
<1>2. /\ DOMAIN u = 1 .. Len(s) + 1 /\ u = [i \in DOMAIN u |-> u[i]]
      /\ \A i \in 1 .. Len(s) : u[i] = s[i]
      /\ u[Len(s) + 1] = x
  <2>1. /\ u \in Seq(S) /\ Len(u) = Len(s) + 1 /\ u[Len(s) + 1] = x
        /\ \A i \in 1 .. Len(s) : u[i] = s[i]
    OBVIOUS
  <2> HIDE DEF u
  <2>2. DOMAIN u = 1 .. Len(s) + 1 /\ u = [i \in DOMAIN u |-> u[i]]
    BY <2>1
  <2> QED  BY <2>1, <2>2
<1>3. \A i \in 1 .. Len(s) + 1 : IF i < Len(s) + 1 THEN i \in 1 .. Len(s) ELSE i = Len(s) + 1
  OBVIOUS
<1> HIDE DEF t, u
<1>4. \A i \in 1 .. Len(s) + 1 : t[i] = u[i]
  BY <1>1, <1>2, <1>3
<1>5. t = u
  BY <1>1, <1>2, <1>4
<1> QED  BY <1>5 DEF t, u

LEMMA PutIsOlistAdd ==
    ASSUME NEW s, NEW x, NEW key
    PROVE  PutAt(s, Len(s), x, OlistPos(s, x, key)) = OlistAdd(s, x, key)
BY DEF PutAt, OlistAdd

LEMMA CutIsRemove ==
    ASSUME NEW S, NEW s \in Seq(S), NEW i \in 0 .. Len(s) - 1
    PROVE  CutAt(s, Len(s), i + 1) = SubSeq(s, 1, i) \o SubSeq(s, i + 2, Len(s))
<1> DEFINE l == SubSeq(s, 1, i)
           r == SubSeq(s, i + 2, Len(s))
           t == CutAt(s, Len(s), i + 1)
<1>1. l \in Seq(S) /\ Len(l) = i /\ \A j \in 1 .. i : l[j] = s[j]
  OBVIOUS
<1>2. /\ r \in Seq(S) /\ Len(r) = Len(s) - (i + 1)
      /\ \A j \in 1 .. Len(s) - (i + 1) : r[j] = s[(i + 1) + j]
  OBVIOUS
<1>3. /\ t = [j \in 1 .. Len(s) - 1 |-> t[j]]
      /\ \A j \in 1 .. Len(s) - 1 : t[j] = IF j < i + 1 THEN s[j] ELSE s[j + 1]
  BY DEF CutAt
<1> HIDE DEF l, r, t
<1>4. l \o r \in Seq(S) /\ Len(l \o r) = Len(s) - 1
  <2>1. l \o r \in Seq(S) /\ Len(l \o r) = Len(l) + Len(r)
    <3>1. l \in Seq(S) /\ r \in Seq(S)
      BY <1>1, <1>2
    <3> QED  BY <3>1
  <2>2. Len(s) \in Nat /\ i \in Nat
    OBVIOUS
  <2> QED  BY <1>1, <1>2, <2>1, <2>2
<1>5. \A j \in 1 .. Len(s) - 1 : (l \o r)[j] = t[j]
  <2> SUFFICES ASSUME NEW j \in 1 .. Len(s) - 1 PROVE (l \o r)[j] = t[j]
    OBVIOUS
  <2>1. (l \o r)[j] = IF j <= Len(l) THEN l[j] ELSE r[j - Len(l)]
    BY <1>1, <1>2
  <2>2. CASE j < i + 1
    <3>1. j <= i /\ j \in 1 .. i
      BY <2>2
    <3>2. (l \o r)[j] = l[j]
      BY <1>1, <2>1, <3>1
    <3>3. l[j] = s[j]
      BY <1>1, <3>1
    <3>4. t[j] = s[j]
      BY <1>3, <2>2
    <3> QED  BY <3>2, <3>3, <3>4
  <2>3. CASE ~(j < i + 1)
    <3>1. /\ j - i \in 1 .. Len(s) - (i + 1) /\ (i + 1) + (j - i) = j + 1
          /\ ~(j <= i)
      BY <2>3
    <3>2. (l \o r)[j] = r[j - i]
      BY <1>1, <2>1, <3>1
    <3>3. r[j - i] = s[j + 1]
      BY <1>2, <3>1
    <3>4. t[j] = s[j + 1]
      BY <1>3, <2>3
    <3> QED  BY <3>2, <3>3, <3>4
  <2> QED  BY <2>2, <2>3
<1>6. DOMAIN (l \o r) = 1 .. Len(s) - 1 /\ l \o r = [j \in DOMAIN (l \o r) |-> (l \o r)[j]]
  <2> DEFINE q == l \o r
  <2>1. q \in Seq(S) /\ Len(q) = Len(s) - 1
    BY <1>4
  <2> HIDE DEF q
  <2>2. DOMAIN q = 1 .. Len(s) - 1 /\ q = [j \in DOMAIN q |-> q[j]]
    BY <2>1
  <2> QED  BY <2>2 DEF q
<1>7. l \o r = t
  BY <1>3, <1>5, <1>6
<1> QED  BY <1>7 DEF l, r, t

(* The walk of olist_add ends in front of the node at the place where the  *)
(* item belongs.                                                           *)
LEMMA WalkEndSpec ==
    ASSUME ListInv, ordered, NEW c, Linked(c, size, first, last, node, used), NEW item \in Values
    PROVE  /\ OlistPos(Contents, item, Key) \in 1 .. size + 1
           /\ WalkEnd(item) = IF OlistPos(Contents, item, Key) = size + 1 THEN NULL
                              ELSE c[OlistPos(Contents, item, Key)]
<1> DEFINE p == OlistPos(Contents, item, Key)
           N == Cardinality(Nodes)
           Stops(i) == NodeAt[i] = NULL \/ Key[node[NodeAt[i]].value] > Key[item]
           Least(i) == Stops(i) /\ \A j \in 0 .. i - 1 : ~Stops(j)
<1>0. TypeOK /\ N \in Nat /\ size \in 0 .. N /\ Key \in [Values -> Int] /\ NULL \notin Nodes
  BY ListTyped, Bounds, ListAssumption DEF TypeOK
<1>1. /\ p \in 1 .. size + 1
      /\ \A j \in 1 .. p - 1 : Key[Contents[j]] <= Key[item]
      /\ p <= size => Key[Contents[p]] > Key[item]
  <2>1. Contents \in Seq(Values) /\ Len(Contents) = size
    BY ContentsSeq
  <2> QED  BY <1>0, <2>1, OlistPosSpec
<1>2. \A i \in 1 .. size : Contents[i] = node[c[i]].value /\ Contents[i] \in Values /\ c[i] \in Nodes
  <2>1. Contents = Vals(c, size, node)
    BY <1>0, ContentsSpec
  <2>2. Contents \in Seq(Values) /\ Len(Contents) = size
    BY ContentsSeq
  <2>3. \A i \in 1 .. size : Contents[i] = node[c[i]].value
    BY <2>1 DEF Vals
  <2>4. \A i \in 1 .. size : Contents[i] \in Values
    BY <2>2
  <2>5. \A i \in 1 .. size : c[i] \in Nodes
    BY DEF Linked
  <2> QED  BY <2>3, <2>4, <2>5
<1>3. NodeAt[size] = NULL /\ \A i \in 0 .. size - 1 : NodeAt[i] = c[i + 1]
  BY <1>0, NodeAtSpec
<1> HIDE DEF p, N
<1>4. \A i \in 0 .. size - 1 : i + 1 \in 1 .. size
  BY <1>0
<1>5. Stops(p - 1)
  <2>1. CASE p = size + 1
    <3>1. p - 1 = size
      BY <1>0, <2>1
    <3> QED  BY <1>3, <3>1
  <2>2. CASE p # size + 1
    <3>1. p \in 1 .. size /\ p - 1 \in 0 .. size - 1 /\ (p - 1) + 1 = p /\ p <= size
      BY <1>0, <1>1, <2>2
    <3>2. NodeAt[p - 1] = c[p]
      BY <1>3, <3>1
    <3> QED  BY <1>1, <1>2, <3>1, <3>2
  <2> QED  BY <2>1, <2>2
<1>6. ASSUME NEW j \in 0 .. (p - 1) - 1 PROVE ~Stops(j)
  <2>1. j \in 0 .. size - 1 /\ j + 1 \in 1 .. size /\ j + 1 \in 1 .. p - 1
    BY <1>0, <1>1
  <2>2. NodeAt[j] = c[j + 1] /\ c[j + 1] # NULL
    BY <1>0, <1>2, <1>3, <2>1
  <2>3. Key[node[c[j + 1]].value] <= Key[item] /\ node[c[j + 1]].value \in Values
    BY <1>1, <1>2, <2>1
  <2>4. Key[node[c[j + 1]].value] \in Int /\ Key[item] \in Int
    BY <1>0, <2>3
  <2>5. ~(Key[node[c[j + 1]].value] > Key[item])
    BY <2>3, <2>4
  <2> QED  BY <2>2, <2>5
<1>7. p - 1 \in 0 .. N
  BY <1>0, <1>1
<1> HIDE DEF Stops
<1>8. Least(p - 1)
  BY <1>5, <1>6
<1>9. ASSUME NEW i \in 0 .. N, Least(i) PROVE i = p - 1
  <2>1. ~(i < p - 1)
    <3> SUFFICES ASSUME i < p - 1 PROVE FALSE
      OBVIOUS
    <3>1. i \in 0 .. (p - 1) - 1
      BY <1>7
    <3> QED  BY <1>6, <1>9, <3>1
  <2>2. ~(p - 1 < i)
    <3> SUFFICES ASSUME p - 1 < i PROVE FALSE
      OBVIOUS
    <3>1. p - 1 \in 0 .. i - 1
      BY <1>7
    <3> QED  BY <1>5, <1>9, <3>1
  <2> QED  BY <1>0, <1>7, <2>1, <2>2
<1>10. WalkEnd(item) = NodeAt[CHOOSE i \in 0 .. N : Least(i)]
  BY DEF WalkEnd, Stops, N
<1> HIDE DEF Least
<1>11. WalkEnd(item) = NodeAt[p - 1]
  BY <1>7, <1>8, <1>9, <1>10
<1>12. CASE p = size + 1
  <2>1. p - 1 = size
    BY <1>0, <1>12
  <2> QED  BY <1>1, <1>3, <1>11, <1>12, <2>1 DEF p
<1>13. CASE p # size + 1
  <2>1. p - 1 \in 0 .. size - 1 /\ (p - 1) + 1 = p
    BY <1>0, <1>1, <1>13
  <2> QED  BY <1>1, <1>3, <1>11, <1>13, <2>1 DEF p
<1> QED  BY <1>12, <1>13

-----------------------------------------------------------------------------
(* Every operation keeps the invariant and is one on the sequence.         *)
Implements == ListInv' /\ Sequence!SeqNext

LEMMA InsertStep ==
    ASSUME NEW item \in Values, ListInv', ordered' = ordered,
           Contents' = IF ordered THEN OlistAdd(Contents, item, Key) ELSE Append(Contents, item)
    PROVE  Implements
<1>1. Sequence!Insert(item)
  <2>1. Sequence!OlistAdd(Contents, item, Key) = OlistAdd(Contents, item, Key)
    BY DEF Sequence!OlistAdd, OlistAdd, Sequence!OlistPos, OlistPos
  <2> QED  BY <2>1 DEF Sequence!Insert
<1> QED  BY <1>1 DEF Implements, Sequence!SeqNext

LEMMA NodeFields ==
    ASSUME NEW m \in [Pointers -> Node], NEW q \in Pointers
    PROVE  /\ \A x \in Pointers : /\ [m EXCEPT ![q].next = x] \in [Pointers -> Node]
                                  /\ [m EXCEPT ![q].prev = x] \in [Pointers -> Node]
           /\ \A x \in Values \cup {NULL} : [m EXCEPT ![q].value = x] \in [Pointers -> Node]
           /\ \A x \in Node : [m EXCEPT ![q] = x] \in [Pointers -> Node]
BY DEF Node

LEMMA ListAddStep ==
    ASSUME ListInv, NEW item \in Values, ListAdd(item)
    PROVE  Implements
<1>0. /\ TypeOK /\ Cardinality(used) = size /\ size \in Nat /\ used \subseteq Nodes
      /\ first \in Pointers /\ last \in Pointers /\ node \in [Pointers -> Node]
      /\ NULL \in Pointers /\ Nodes \subseteq Pointers
  BY ListTyped DEF Pointers
<1>1. PICK c : Linked(c, size, first, last, node, used)
  BY DEF ListInv
<1> DEFINE linked(n) == IF size = 0 THEN node ELSE [node EXCEPT ![last].next = n]
           new == [value |-> item, next |-> NULL, prev |-> IF size = 0 THEN NULL ELSE last]
<1>2. PICK n \in Nodes \ used :
         /\ used' = used \cup {n} /\ size' = size + 1 /\ ordered' = ordered /\ ~ordered
         /\ node' = [linked(n) EXCEPT ![n] = new]
         /\ first' = (IF size = 0 THEN n ELSE first) /\ last' = n
  BY DEF ListAdd
<1>3. new \in Node
  BY <1>0 DEF Node
<1>4. linked(n) \in [Pointers -> Node]
  BY <1>0, NodeFields
<1>5. node' \in [Pointers -> Node]
  BY <1>0, <1>2, <1>3, <1>4, NodeFields
<1>c. /\ \A i \in 1 .. size : c[i] \in Pointers /\ c[i] # n
      /\ \A i, j \in 1 .. size : c[i] = c[j] => i = j
      /\ size > 0 => last = c[size]
  BY <1>0, <1>1 DEF Linked
<1>6. node'[n] = new
  BY <1>0, <1>2, <1>4
<1>7. ASSUME NEW i \in 1 .. size
      PROVE  /\ node'[c[i]].value = node[c[i]].value
             /\ node'[c[i]].next = IF i = size THEN n ELSE node[c[i]].next
             /\ node'[c[i]].prev = node[c[i]].prev
  <2>1. size # 0 /\ size > 0 /\ size \in 1 .. size
    BY <1>0
  <2>2. node'[c[i]] = [node EXCEPT ![last].next = n][c[i]]
    BY <1>2, <1>4, <1>c, <2>1
  <2>3. c[i] = last <=> i = size
    BY <1>c, <2>1
  <2>4. node[c[i]] \in Node
    BY <1>0, <1>c
  <2> QED  BY <1>0, <1>c, <2>2, <2>3, <2>4 DEF Node
<1>8. PutLinks(c, size, first, last, node, first', last', node', n, size + 1)
  <2>1. first' = IF size + 1 = 1 THEN n ELSE first
    BY <1>0, <1>2
  <2>2. /\ node'[n].next = NULL
        /\ node'[n].prev = IF size + 1 = 1 THEN NULL ELSE c[(size + 1) - 1]
    <3>1. (size + 1) - 1 = size /\ (size + 1 = 1 <=> size = 0) /\ (size # 0 => size > 0)
      BY <1>0
    <3> QED  BY <1>6, <1>c, <3>1
  <2>3. \A i \in 1 .. size : (i = (size + 1) - 1 <=> i = size) /\ i # size + 1
    BY <1>0
  <2> QED  BY <1>2, <1>7, <2>1, <2>2, <2>3 DEF PutLinks
<1>9. /\ ListInv'
      /\ Contents' = PutAt(Contents, size, item, size + 1)
  <2>1. size + 1 \in 1 .. size + 1
    BY <1>0
  <2> HIDE DEF new
  <2>2. node'[n].value = item
    BY <1>6 DEF new
  <2> QED  BY <1>1, <1>2, <1>5, <1>8, <2>1, <2>2, PutStep
<1>10. Contents' = Append(Contents, item)
  <2>1. Contents \in Seq(Values \cup {NULL}) /\ Len(Contents) = size /\ item \in Values \cup {NULL}
    BY ContentsSeq
  <2>2. PutAt(Contents, Len(Contents), item, Len(Contents) + 1) = Append(Contents, item)
    BY <2>1, PutLastIsAppend
  <2> QED  BY <1>9, <2>1, <2>2
<1> QED  BY <1>2, <1>9, <1>10, InsertStep

(* The new node of olist_add is where the item belongs. *)
LEMMA OrderedStep ==
    ASSUME ListInv, NEW c, Linked(c, size, first, last, node, used),
           ordered, ordered' = ordered, NEW item \in Values, NEW n \in Nodes \ used,
           PutLinks(c, size, first, last, node, first', last', node', n, OlistPos(Contents, item, Key)),
           used' = used \cup {n}, size' = size + 1,
           node' \in [Pointers -> Node], node'[n].value = item
    PROVE  Implements
<1> DEFINE p == OlistPos(Contents, item, Key)
<1>1. p \in 1 .. size + 1
  BY WalkEndSpec
<1>2. ListInv' /\ Contents' = PutAt(Contents, size, item, p)
  <2> HIDE DEF p
  <2>1. PutLinks(c, size, first, last, node, first', last', node', n, p)
    BY DEF p
  <2> QED  BY <1>1, <2>1, PutStep
<1>3. Len(Contents) = size
  BY ContentsSeq
<1>4. Contents' = OlistAdd(Contents, item, Key)
  BY <1>2, <1>3, PutIsOlistAdd
<1> QED  BY <1>2, <1>4, InsertStep

LEMMA OlistAddFirstStep ==
    ASSUME ListInv, NEW item \in Values, OlistAddFirst(item)
    PROVE  Implements
<1>0. /\ TypeOK /\ used \subseteq Nodes /\ node \in [Pointers -> Node]
      /\ NULL \in Pointers /\ Nodes \subseteq Pointers
  BY ListTyped DEF Pointers
<1>1. PICK c : Linked(c, size, first, last, node, used)
  BY DEF ListInv
<1> DEFINE new == [value |-> item, next |-> NULL, prev |-> NULL]
<1>2. PICK n \in Nodes \ used :
         /\ used' = used \cup {n} /\ size' = 1 /\ size = 0 /\ ordered' = ordered /\ ordered
         /\ node' = [node EXCEPT ![n] = new] /\ first' = n /\ last' = n
  BY DEF OlistAddFirst
<1>3. new \in Node
  BY <1>0 DEF Node
<1>4. node' \in [Pointers -> Node] /\ node'[n] = new
  BY <1>0, <1>2, <1>3, NodeFields
<1>5. OlistPos(Contents, item, Key) = 1
  <2>1. OlistPos(Contents, item, Key) \in 1 .. 0 + 1
    BY <1>1, <1>2, WalkEndSpec
  <2> QED  BY <2>1
<1>6. PutLinks(c, size, first, last, node, first', last', node', n, 1)
  BY <1>2, <1>4 DEF PutLinks
<1>7. node'[n].value = item
  BY <1>4
<1>8. size' = size + 1
  BY <1>2
<1> HIDE DEF new
<1> QED  BY <1>1, <1>2, <1>4, <1>5, <1>6, <1>7, <1>8, OrderedStep

LEMMA OlistAddLastStep ==
    ASSUME ListInv, NEW item \in Values, OlistAddLast(item)
    PROVE  Implements
<1>0. /\ TypeOK /\ size \in Nat /\ used \subseteq Nodes /\ node \in [Pointers -> Node]
      /\ last \in Pointers /\ NULL \in Pointers /\ Nodes \subseteq Pointers
  BY ListTyped DEF Pointers
<1>1. PICK c : Linked(c, size, first, last, node, used)
  BY DEF ListInv
<1> DEFINE new == [value |-> item, next |-> NULL, prev |-> last]
<1>2. PICK n \in Nodes \ used :
         /\ used' = used \cup {n} /\ size' = size + 1 /\ size > 0 /\ ordered' = ordered /\ ordered
         /\ WalkEnd(item) = NULL
         /\ node' = [node EXCEPT ![n] = new, ![last].next = n] /\ first' = first /\ last' = n
  BY DEF OlistAddLast
<1>c. /\ \A i \in 1 .. size : c[i] \in Pointers /\ c[i] # n /\ c[i] # NULL
      /\ \A i, j \in 1 .. size : c[i] = c[j] => i = j
      /\ last = c[size] /\ size \in 1 .. size
  BY <1>0, <1>1, <1>2, Bounds DEF Linked
<1> DEFINE mid == [node EXCEPT ![n] = new]
<1>3. new \in Node
  BY <1>0 DEF Node
<1>4. mid \in [Pointers -> Node] /\ mid[n] = new /\ \A i \in 1 .. size : mid[c[i]] = node[c[i]]
  BY <1>0, <1>3, <1>c, NodeFields
<1>5. node' = [mid EXCEPT ![last].next = n]
  BY <1>2
<1> HIDE DEF mid
<1>6. node' \in [Pointers -> Node] /\ node'[n] = new
  BY <1>0, <1>4, <1>5, <1>c, NodeFields
<1>7. ASSUME NEW i \in 1 .. size
      PROVE  /\ node'[c[i]].value = node[c[i]].value
             /\ node'[c[i]].next = IF i = size THEN n ELSE node[c[i]].next
             /\ node'[c[i]].prev = node[c[i]].prev
  <2>3. c[i] = last <=> i = size
    BY <1>c
  <2>4. mid[c[i]] \in Node /\ mid[c[i]] = node[c[i]]
    BY <1>4, <1>c
  <2> QED  BY <1>4, <1>5, <1>c, <2>3, <2>4 DEF Node
<1>8. OlistPos(Contents, item, Key) = size + 1
  <2> DEFINE p == OlistPos(Contents, item, Key)
  <2>1. p \in 1 .. size + 1 /\ WalkEnd(item) = IF p = size + 1 THEN NULL ELSE c[p]
    BY <1>1, <1>2, WalkEndSpec
  <2> HIDE DEF p
  <2>2. p # size + 1 => p \in 1 .. size
    BY <1>0, <2>1
  <2>3. p = size + 1
    BY <1>2, <1>c, <2>1, <2>2
  <2> QED  BY <2>3 DEF p
<1>9. PutLinks(c, size, first, last, node, first', last', node', n, size + 1)
  <2>1. (size + 1) - 1 = size /\ size + 1 # 1
    BY <1>0, <1>2
  <2>2. \A i \in 1 .. size : (i = (size + 1) - 1 <=> i = size) /\ i # size + 1
    BY <1>0
  <2> QED  BY <1>2, <1>6, <1>7, <1>c, <2>1, <2>2 DEF PutLinks
<1>10. node'[n].value = item
  BY <1>6
<1> HIDE DEF new
<1> QED  BY <1>1, <1>2, <1>6, <1>8, <1>9, <1>10, OrderedStep

LEMMA OlistAddBeforeStep ==
    ASSUME ListInv, NEW item \in Values, OlistAddBefore(item)
    PROVE  Implements
<1>0. /\ TypeOK /\ size \in Nat /\ used \subseteq Nodes /\ node \in [Pointers -> Node]
      /\ NULL \in Pointers /\ Nodes \subseteq Pointers /\ NULL \notin Nodes
  BY ListTyped, Bounds DEF Pointers
<1>1. PICK c : Linked(c, size, first, last, node, used)
  BY DEF ListInv
<1> DEFINE p == OlistPos(Contents, item, Key)
           at == WalkEnd(item)
           before == node[at].prev
           new == [value |-> item, next |-> at, prev |-> before]
<1>2. PICK n \in Nodes \ used :
         /\ used' = used \cup {n} /\ size' = size + 1 /\ ordered' = ordered /\ ordered /\ at # NULL
         /\ last' = last
         /\ IF before = NULL
            THEN /\ first' = n
                 /\ node' = [node EXCEPT ![n] = new, ![at].prev = n]
            ELSE /\ first' = first
                 /\ node' = [node EXCEPT ![n] = new, ![before].next = n, ![at].prev = n]
  BY DEF OlistAddBefore
<1>3. p \in 1 .. size /\ at = c[p]
  <2>1. p \in 1 .. size + 1 /\ at = IF p = size + 1 THEN NULL ELSE c[p]
    BY <1>1, <1>2, WalkEndSpec
  <2> HIDE DEF p, at
  <2>2. p # size + 1 => p \in 1 .. size
    BY <1>0, <2>1
  <2> QED  BY <1>2, <2>1, <2>2
<1>o. PutLinks(c, size, first, last, node, first', last', node', n, p)
       => PutLinks(c, size, first, last, node, first', last', node', n, OlistPos(Contents, item, Key))
  OBVIOUS
<1> HIDE DEF p, at
<1>c. /\ \A i \in 1 .. size : c[i] \in Pointers /\ c[i] # n /\ c[i] # NULL
      /\ \A i, j \in 1 .. size : c[i] = c[j] => i = j
      /\ \A i \in 1 .. size : node[c[i]].prev = IF i = 1 THEN NULL ELSE c[i - 1]
  BY <1>0, <1>1 DEF Linked
<1>4. /\ before = IF p = 1 THEN NULL ELSE c[p - 1]
      /\ p # 1 => p - 1 \in 1 .. size /\ p - 1 # p
      /\ at \in Pointers /\ before \in Pointers /\ n \in Pointers
  <2>1. p # 1 => p - 1 \in 1 .. size /\ p - 1 # p
    BY <1>0, <1>3
  <2> QED  BY <1>0, <1>3, <1>c, <2>1
<1>5. before = NULL <=> p = 1
  BY <1>4, <1>c
<1>6. new \in Node
  BY <1>4 DEF Node
<1> HIDE DEF before
<1> DEFINE mid == [node EXCEPT ![n] = new]
           low == IF before = NULL THEN mid ELSE [mid EXCEPT ![before].next = n]
<1>7. mid \in [Pointers -> Node] /\ mid[n] = new /\ \A i \in 1 .. size : mid[c[i]] = node[c[i]]
  BY <1>0, <1>4, <1>6, <1>c, NodeFields
<1>8. node' = [low EXCEPT ![at].prev = n]
  BY <1>2
<1> HIDE DEF mid
<1>9. /\ low \in [Pointers -> Node] /\ low[n] = new
      /\ \A i \in 1 .. size : /\ low[c[i]].value = node[c[i]].value
                              /\ low[c[i]].next = IF i = p - 1 THEN n ELSE node[c[i]].next
                              /\ low[c[i]].prev = node[c[i]].prev
  <2>1. CASE p = 1
    <3>1. low = mid /\ \A i \in 1 .. size : i # p - 1
      BY <1>5, <2>1
    <3> HIDE DEF low
    <3>2. low \in [Pointers -> Node] /\ low[n] = new
      BY <1>7, <3>1
    <3>3. \A i \in 1 .. size : low[c[i]] = node[c[i]]
      BY <1>7, <3>1
    <3> QED  BY <3>1, <3>2, <3>3
  <2>2. CASE p # 1
    <3>1. low = [mid EXCEPT ![before].next = n] /\ before = c[p - 1] /\ before # n
      BY <1>4, <1>5, <1>c, <2>2
    <3>2. low \in [Pointers -> Node] /\ low[n] = new
      BY <1>4, <1>7, <3>1, NodeFields
    <3>3. ASSUME NEW i \in 1 .. size
          PROVE  /\ low[c[i]].value = node[c[i]].value
                 /\ low[c[i]].next = IF i = p - 1 THEN n ELSE node[c[i]].next
                 /\ low[c[i]].prev = node[c[i]].prev
      <4>1. c[i] = before <=> i = p - 1
        BY <1>4, <1>c, <2>2, <3>1
      <4>2. mid[c[i]] \in Node /\ mid[c[i]] = node[c[i]]
        BY <1>7, <1>c
      <4> QED  BY <1>7, <1>c, <3>1, <4>1, <4>2 DEF Node
    <3> QED  BY <3>2, <3>3
  <2> QED  BY <2>1, <2>2
<1> HIDE DEF low
<1>10. node' \in [Pointers -> Node] /\ node'[n] = new
  <2>1. at # n
    BY <1>3, <1>c
  <2> QED  BY <1>4, <1>8, <1>9, <2>1, NodeFields
<1>11. ASSUME NEW i \in 1 .. size
       PROVE  /\ node'[c[i]].value = node[c[i]].value
              /\ node'[c[i]].next = IF i = p - 1 THEN n ELSE node[c[i]].next
              /\ node'[c[i]].prev = IF i = p THEN n ELSE node[c[i]].prev
  <2>1. c[i] = at <=> i = p
    BY <1>3, <1>c
  <2>2. low[c[i]] \in Node
    BY <1>9, <1>c
  <2>3. /\ node'[c[i]].value = low[c[i]].value
        /\ node'[c[i]].next = low[c[i]].next
        /\ node'[c[i]].prev = IF i = p THEN n ELSE low[c[i]].prev
    BY <1>8, <1>9, <1>c, <2>1, <2>2 DEF Node
  <2> QED  BY <1>9, <2>3
<1>12. PutLinks(c, size, first, last, node, first', last', node', n, p)
  <2>1. p # size + 1
    BY <1>0, <1>3
  <2>2. first' = IF p = 1 THEN n ELSE first
    BY <1>2, <1>5
  <2>3. node'[n].next = c[p] /\ node'[n].prev = IF p = 1 THEN NULL ELSE c[p - 1]
    BY <1>3, <1>4, <1>10
  <2> QED  BY <1>2, <1>11, <2>1, <2>2, <2>3 DEF PutLinks
<1>13. node'[n].value = item
  BY <1>10
<1> HIDE DEF new
<1> QED  BY <1>1, <1>2, <1>10, <1>12, <1>13, <1>o, OrderedStep

LEMMA RemoveStep ==
    ASSUME ListInv, ListInv', ordered' = ordered, NEW index \in 0 .. size - 1,
           Contents' = CutAt(Contents, size, index + 1)
    PROVE  Implements
<1>1. Contents \in Seq(Values \cup {NULL}) /\ Len(Contents) = size /\ size \in Nat
  BY ContentsSeq, ListTyped
<1>2. CutAt(Contents, Len(Contents), index + 1)
        = SubSeq(Contents, 1, index) \o SubSeq(Contents, index + 2, Len(Contents))
  BY <1>1, CutIsRemove
<1>3. index < Len(Contents) /\ index \in 0 .. Len(Contents) - 1
  BY <1>1
<1>4. Sequence!Remove(index)
  BY <1>1, <1>2, <1>3 DEF Sequence!Remove
<1> QED  BY <1>3, <1>4 DEF Implements, Sequence!SeqNext

LEMMA ListDelFirstStep ==
    ASSUME ListInv, ListDelFirst
    PROVE  Implements
<1>0. /\ TypeOK /\ size \in Nat /\ used \subseteq Nodes /\ node \in [Pointers -> Node]
      /\ NULL \in Pointers /\ Nodes \subseteq Pointers /\ NULL \notin Nodes
  BY ListTyped, Bounds DEF Pointers
<1>1. PICK c : Linked(c, size, first, last, node, used)
  BY DEF ListInv
<1>2. /\ size > 0 /\ used' = used \ {first} /\ size' = size - 1
      /\ first' = node[first].next /\ last' = last /\ ordered' = ordered
  BY DEF ListDelFirst
<1>3. PICK f : f = first'
  OBVIOUS
<1>4. node' = [node EXCEPT ![f].prev = NULL]
  BY <1>3 DEF ListDelFirst
<1>c. /\ \A i \in 1 .. size : c[i] \in Pointers /\ c[i] # NULL
      /\ \A i, j \in 1 .. size : c[i] = c[j] => i = j
      /\ first = c[1] /\ 1 \in 1 .. size
      /\ node[c[1]].next = (IF 1 = size THEN NULL ELSE c[1 + 1])
      /\ node[c[1]].prev = NULL
  <2>1. 1 \in 1 .. size /\ size # 0
    BY <1>0, <1>2
  <2> QED  BY <1>0, <1>1, <2>1 DEF Linked
<1>5. f = (IF size = 1 THEN NULL ELSE c[2]) /\ f \in Pointers /\ (size # 1 => 2 \in 1 .. size)
  <2>1. 1 + 1 = 2 /\ (size # 1 => 2 \in 1 .. size)
    BY <1>0, <1>2
  <2> QED  BY <1>0, <1>2, <1>3, <1>c, <2>1
<1>6. node' \in [Pointers -> Node]
  BY <1>0, <1>4, <1>5, NodeFields
<1>7. ASSUME NEW i \in 1 .. size, i # 1
      PROVE  /\ node'[c[i]].value = node[c[i]].value
             /\ node'[c[i]].next = node[c[i]].next
             /\ node'[c[i]].prev = IF i = 2 THEN NULL ELSE node[c[i]].prev
  <2>1. size # 1
    BY <1>7
  <2>2. c[i] = f <=> i = 2
    BY <1>5, <1>c, <2>1
  <2>3. node[c[i]] \in Node
    BY <1>0, <1>c
  <2> QED  BY <1>0, <1>4, <1>c, <2>2, <2>3 DEF Node
<1>8. CutLinks(c, size, first, last, node, first', last', node', 1)
  <2>1. 1 < size \/ size = 1
    BY <1>0, <1>2
  <2>2. \A i \in 1 .. size : i # 1 - 1 /\ (i = 1 + 1 <=> i = 2)
    OBVIOUS
  <2> QED  BY <1>2, <1>7, <1>c, <2>1, <2>2 DEF CutLinks
<1>9. ListInv' /\ Contents' = CutAt(Contents, size, 1)
  BY <1>1, <1>2, <1>6, <1>8, <1>c, CutStep
<1>10. 0 \in 0 .. size - 1 /\ 0 + 1 = 1
  BY <1>0, <1>2
<1> QED  BY <1>2, <1>9, <1>10, RemoveStep

LEMMA ListDelLaterStep ==
    ASSUME TailDeleted = FALSE, ListInv, NEW index \in Nat, ListDelLater(index)
    PROVE  Implements
<1>0. /\ TypeOK /\ size \in Nat /\ used \subseteq Nodes /\ node \in [Pointers -> Node]
      /\ NULL \in Pointers /\ Nodes \subseteq Pointers /\ NULL \notin Nodes
  BY ListTyped, Bounds DEF Pointers
<1>1. PICK c : Linked(c, size, first, last, node, used)
  BY DEF ListInv
<1> DEFINE p == index + 1
           gone == NodeAt[index]
           prev == node[gone].prev
           next == node[gone].next
           linked == [node EXCEPT ![prev].next = next]
<1>2. /\ index \in 1 .. size - 1 /\ index # size - 1
      /\ used' = used \ {gone} /\ size' = size - 1
      /\ first' = first /\ last' = last /\ ordered' = ordered
      /\ node' = IF next = NULL THEN linked ELSE [linked EXCEPT ![next].prev = prev]
  BY DEF ListDelLater
<1>3. /\ p \in 1 .. size /\ p - 1 \in 1 .. size /\ p + 1 \in 1 .. size /\ p - 1 # p + 1
      /\ p < size /\ p # 1 /\ p # size /\ p - 1 # p /\ p + 1 # p /\ index \in 0 .. size - 1
  BY <1>0, <1>2
<1>4. gone = c[p]
  BY <1>0, <1>1, <1>3, NodeAtSpec
<1>c. /\ \A i \in 1 .. size : c[i] \in Pointers /\ c[i] # NULL
      /\ \A i, j \in 1 .. size : c[i] = c[j] => i = j
      /\ \A i \in 1 .. size : node[c[i]].next = IF i = size THEN NULL ELSE c[i + 1]
      /\ \A i \in 1 .. size : node[c[i]].prev = IF i = 1 THEN NULL ELSE c[i - 1]
  BY <1>0, <1>1 DEF Linked
<1> HIDE DEF p, gone
<1>5. prev = c[p - 1] /\ next = c[p + 1]
  BY <1>3, <1>4, <1>c
<1>6. prev \in Pointers /\ next \in Pointers /\ next # NULL
  BY <1>3, <1>5, <1>c
<1>n. node[c[p]].next = next /\ node[c[p]].prev = prev
  BY <1>4
<1> HIDE DEF prev, next
<1>7. linked \in [Pointers -> Node]
  BY <1>0, <1>6, NodeFields
<1>8. node' = [linked EXCEPT ![next].prev = prev]
  BY <1>2, <1>6
<1>9. ASSUME NEW i \in 1 .. size
      PROVE  /\ linked[c[i]].value = node[c[i]].value
             /\ linked[c[i]].next = IF i = p - 1 THEN next ELSE node[c[i]].next
             /\ linked[c[i]].prev = node[c[i]].prev
  <2>1. c[i] = prev <=> i = p - 1
    BY <1>3, <1>5, <1>c
  <2>2. node[c[i]] \in Node
    BY <1>0, <1>c
  <2> QED  BY <1>0, <1>c, <2>1, <2>2 DEF Node
<1> HIDE DEF linked
<1>10. node' \in [Pointers -> Node]
  BY <1>6, <1>7, <1>8, NodeFields
<1>11. ASSUME NEW i \in 1 .. size
       PROVE  /\ node'[c[i]].value = node[c[i]].value
              /\ node'[c[i]].next = IF i = p - 1 THEN next ELSE node[c[i]].next
              /\ node'[c[i]].prev = IF i = p + 1 THEN prev ELSE node[c[i]].prev
  <2>1. c[i] = next <=> i = p + 1
    BY <1>3, <1>5, <1>c
  <2>2. linked[c[i]] \in Node
    BY <1>7, <1>c
  <2>3. /\ node'[c[i]].value = linked[c[i]].value
        /\ node'[c[i]].next = linked[c[i]].next
        /\ node'[c[i]].prev = IF i = p + 1 THEN prev ELSE linked[c[i]].prev
    BY <1>7, <1>8, <1>c, <2>1, <2>2 DEF Node
  <2> QED  BY <1>9, <2>3
<1>12. CutLinks(c, size, first, last, node, first', last', node', p)
  BY <1>2, <1>3, <1>11, <1>n DEF CutLinks
<1>13. ListInv' /\ Contents' = CutAt(Contents, size, p)
  BY <1>1, <1>2, <1>3, <1>4, <1>10, <1>12, CutStep
<1>14. Contents' = CutAt(Contents, size, index + 1)
  BY <1>13 DEF p
<1> QED  BY <1>2, <1>3, <1>13, <1>14, RemoveStep

LEMMA ListSetStep ==
    ASSUME ListInv, NEW index \in Nat, NEW value \in Values \cup {NULL}, ListSet(index, value)
    PROVE  Implements
<1>0. /\ TypeOK /\ size \in Nat /\ used \subseteq Nodes /\ node \in [Pointers -> Node]
      /\ Nodes \subseteq Pointers /\ Cardinality(used) = size
  BY ListTyped DEF Pointers
<1>1. PICK c : Linked(c, size, first, last, node, used)
  BY DEF ListInv
<1> DEFINE p == index + 1
<1>2. /\ ~ordered /\ index < size /\ node' = [node EXCEPT ![NodeAt[index]].value = value]
      /\ ordered' = ordered /\ first' = first /\ last' = last /\ size' = size /\ used' = used
  BY DEF ListSet
<1>3. p \in 1 .. size /\ index \in 0 .. size - 1
  BY <1>0, <1>2
<1>4. NodeAt[index] = c[p]
  BY <1>0, <1>1, <1>3, NodeAtSpec
<1>p. p = index + 1
  OBVIOUS
<1> HIDE DEF p
<1>c. /\ \A i \in 1 .. size : c[i] \in Pointers
      /\ \A i, j \in 1 .. size : c[i] = c[j] => i = j
  BY <1>0, <1>1 DEF Linked
<1>5. node' = [node EXCEPT ![c[p]].value = value] /\ c[p] \in Pointers
  BY <1>2, <1>3, <1>4, <1>c
<1>6. node' \in [Pointers -> Node]
  BY <1>0, <1>5, NodeFields
<1>7. ASSUME NEW i \in 1 .. size
      PROVE  /\ node'[c[i]].value = IF i = p THEN value ELSE node[c[i]].value
             /\ node'[c[i]].next = node[c[i]].next
             /\ node'[c[i]].prev = node[c[i]].prev
  <2>1. c[i] = c[p] <=> i = p
    BY <1>3, <1>c
  <2>2. node[c[i]] \in Node
    BY <1>0, <1>c
  <2> QED  BY <1>0, <1>5, <1>c, <2>1, <2>2 DEF Node
<1>8. Linked(c, size', first', last', node', used')
  BY <1>1, <1>2, <1>7 DEF Linked
<1>9. TypeOK'
  BY <1>0, <1>2, <1>6 DEF TypeOK
<1>10. ListInv'
  BY <1>0, <1>2, <1>8, <1>9 DEF ListInv
<1>11. Contents' = [Contents EXCEPT ![p] = value]
  <2>1. Contents' = [i \in 1 .. size |-> node'[c[i]].value]
    BY <1>2, <1>8, <1>9, ContentsNext DEF Vals
  <2>2. Contents = [i \in 1 .. size |-> node[c[i]].value]
    BY <1>0, <1>1, ContentsSpec DEF Vals
  <2>3. [Contents EXCEPT ![p] = value]
          = [i \in 1 .. size |-> IF i = p THEN value ELSE node[c[i]].value]
    BY <2>2
  <2> QED  BY <1>7, <2>1, <2>3
<1>12. Len(Contents) = size
  BY ContentsSeq
<1>13. index < Len(Contents) /\ index \in 0 .. Len(Contents) - 1
  BY <1>2, <1>3, <1>12
<1>14. Sequence!Replace(index, value)
  BY <1>2, <1>11, <1>13, <1>p DEF Sequence!Replace
<1> QED  BY <1>10, <1>13, <1>14 DEF Implements, Sequence!SeqNext

(* A list without nodes. *)
LEMMA EmptyList ==
    ASSUME NEW nd
    PROVE  LET c == [i \in 1 .. 0 |-> NULL]
           IN  \A lst : Linked(c, 0, NULL, lst, nd, {}) /\ Vals(c, 0, nd) = << >>
BY DEF Linked, Vals

LEMMA ListFreeStep ==
    ASSUME ListInv, ListFree
    PROVE  Implements
<1>0. /\ TypeOK /\ size \in 0 .. Cardinality(Nodes) /\ Cardinality(Nodes) \in Nat
      /\ node \in [Pointers -> Node] /\ NULL \in Pointers
  BY Bounds DEF ListInv, TypeOK, Pointers
<1>1. PICK c : Linked(c, size, first, last, node, used)
  BY DEF ListInv
<1>2. /\ used' = used \ {NodeAt[i] : i \in 0 .. Cardinality(Nodes)}
      /\ first' = NULL /\ last' = NULL /\ size' = 0 /\ ordered' \in BOOLEAN /\ node' = node
  BY DEF ListFree
<1>3. used' = {}
  <2>1. ASSUME NEW n \in used PROVE \E i \in 0 .. Cardinality(Nodes) : n = NodeAt[i]
    <3>1. PICK i \in 1 .. size : n = c[i]
      BY <1>1 DEF Linked
    <3>2. i - 1 \in 0 .. size - 1 /\ (i - 1) + 1 = i /\ i - 1 \in 0 .. Cardinality(Nodes)
      BY <1>0
    <3> QED  BY <1>0, <1>1, <3>1, <3>2, NodeAtSpec
  <2> QED  BY <1>2, <2>1
<1>4. TypeOK'
  <2>1. 0 \in 0 .. Cardinality(Nodes)
    BY <1>0
  <2> QED  BY <1>0, <1>2, <1>3, <2>1 DEF TypeOK
<1> DEFINE e == [i \in 1 .. 0 |-> NULL]
<1>5. Linked(e, size', first', last', node', used') /\ Vals(e, size', node') = << >>
  <2>1. Linked(e, 0, NULL, NULL, node', {}) /\ Vals(e, 0, node') = << >>
    BY EmptyList
  <2> HIDE DEF e
  <2> QED  BY <1>2, <1>3, <2>1
<1> HIDE DEF e
<1>6. Cardinality(used') = size'
  BY <1>2, <1>3, FS_EmptySet
<1>7. ListInv'
  BY <1>3, <1>4, <1>5, <1>6 DEF ListInv
<1>8. Contents' = << >>
  BY <1>4, <1>5, ContentsNext
<1>9. Sequence!Renew
  BY <1>2, <1>8 DEF Sequence!Renew
<1> QED  BY <1>7, <1>9 DEF Implements, Sequence!SeqNext

(* It holds at first, and every step keeps it and implements the sequence. *)
LEMMA ListInvInit ==
    ASSUME Init
    PROVE  ListInv /\ Sequence!SeqInit
<1>0. Cardinality(Nodes) \in Nat
  BY Bounds
<1>1. TypeOK
  <2>1. Zeroes \in Node
    BY DEF Zeroes, Node, Pointers
  <2>2. 0 \in 0 .. Cardinality(Nodes)
    BY <1>0
  <2> QED  BY <2>1, <2>2 DEF Init, TypeOK, Pointers
<1> DEFINE e == [i \in 1 .. 0 |-> NULL]
<1>2. Linked(e, size, first, last, node, used) /\ Vals(e, size, node) = << >>
  <2>1. Linked(e, 0, NULL, NULL, node, {}) /\ Vals(e, 0, node) = << >>
    BY EmptyList
  <2> HIDE DEF e
  <2> QED  BY <2>1 DEF Init
<1> HIDE DEF e
<1>3. ListInv
  BY <1>1, <1>2, FS_EmptySet DEF ListInv, Init
<1>4. Contents = << >>
  BY <1>1, <1>2, ContentsSpec
<1> QED  BY <1>3, <1>4 DEF Init, Sequence!SeqInit

LEMMA ListStep ==
    ASSUME TailDeleted = FALSE, ListInv, [Next]_vars
    PROVE  ListInv' /\ [Sequence!SeqNext]_<<ordered, Contents>>
<1>1. CASE Next
  <2>1. Cardinality(Nodes) \in Nat
    BY Bounds
  <2>2. \A index \in 0 .. Cardinality(Nodes) - 1 : index \in Nat
    BY <2>1
  <2>3. Implements
    <3>1. ASSUME NEW item \in Values,
                 ListAdd(item) \/ OlistAddFirst(item) \/ OlistAddLast(item) \/ OlistAddBefore(item)
          PROVE  Implements
      BY <3>1, ListAddStep, OlistAddFirstStep, OlistAddLastStep, OlistAddBeforeStep
    <3>2. CASE ListDelFirst
      BY <3>2, ListDelFirstStep
    <3>3. ASSUME NEW index \in 0 .. Cardinality(Nodes) - 1, ListDelLater(index)
          PROVE  Implements
      BY <2>2, <3>3, ListDelLaterStep
    <3>4. ASSUME NEW index \in 0 .. Cardinality(Nodes) - 1,
                 NEW value \in Values \cup {NULL}, ListSet(index, value)
          PROVE  Implements
      BY <2>2, <3>4, ListSetStep
    <3>5. CASE ListFree
      BY <3>5, ListFreeStep
    <3> QED  BY <1>1, <3>1, <3>2, <3>3, <3>4, <3>5 DEF Next
  <2> QED  BY <2>3 DEF Implements
<1>2. CASE UNCHANGED vars
  <2>1. ListInv'
    BY <1>2 DEF vars, ListInv, TypeOK
  <2>2. Contents' = Contents /\ ordered' = ordered
    BY <1>2 DEF vars, Contents, NodeAt
  <2> QED  BY <2>1, <2>2
<1> QED  BY <1>1, <1>2

(* What nodes and pointers do, from list_new on, is what the operations of *)
(* a sequence do: list_add appends, olist_add inserts where the item       *)
(* belongs, list_del removes, list_set replaces, and list_free starts      *)
(* afresh, however the calls are mixed.                                    *)
THEOREM ListImplementsSequence ==
    ASSUME TailDeleted = FALSE
    PROVE  Spec => ImplementsSequence
<1>1. Init => ListInv /\ Sequence!SeqInit
  BY ListInvInit
<1>2. ListInv /\ [Next]_vars => ListInv' /\ [Sequence!SeqNext]_<<ordered, Contents>>
  BY ListStep
<1> QED  BY <1>1, <1>2, PTL DEF Spec, ImplementsSequence, Sequence!SeqSpec

-----------------------------------------------------------------------------
(* What the links of a list make of list_get.                              *)
LEMMA SmallModulo ==
    ASSUME NEW a \in Nat, NEW b \in Nat, a < b
    PROVE  a % b = a
OBVIOUS

LEMMA ListGetSpec ==
    ASSUME ListInv, NEW index \in 0 .. Wrap - 2
    PROVE  ListGet(index) = IF index < size THEN Contents[index + 1] ELSE NULL
<1>0. /\ TypeOK /\ size \in Nat /\ size < Wrap - 1 /\ Wrap \in Nat
  <2>1. size \in Nat /\ size <= Cardinality(Nodes) /\ Cardinality(Nodes) \in Nat
    BY ListTyped, Bounds DEF TypeOK
  <2> QED  BY <2>1, ListAssumption, ListTyped
<1>1. PICK c : Linked(c, size, first, last, node, used)
  BY DEF ListInv
<1>2. (index + 1) % Wrap = index + 1
  <2>1. index + 1 \in Nat /\ index + 1 < Wrap
    BY <1>0
  <2> QED  BY <1>0, <2>1, SmallModulo
<1>3. CASE ~(index < size)
  <2>1. index + 1 > size
    BY <1>0, <1>3
  <2> QED  BY <1>2, <1>3, <2>1 DEF ListGet
<1>4. CASE index < size
  <2>1. ~(index + 1 > size) /\ index \in 0 .. size - 1 /\ index + 1 \in 1 .. size
        /\ (size - 1) - index \in 0 .. size - 1 /\ size - ((size - 1) - index) = index + 1
    BY <1>0, <1>4
  <2>2. Contents[index + 1] = node[c[index + 1]].value
    BY <1>0, <1>1, <2>1, ContentsSpec DEF Vals
  <2>3. NodeAt[index] = c[index + 1]
    BY <1>0, <1>1, <2>1, NodeAtSpec
  <2>4. NodeFromEnd[(size - 1) - index] = c[index + 1]
    BY <1>0, <1>1, <2>1, NodeAtSpec
  <2>5. ListGet(index) = node[NodeAt[index]].value
        \/ ListGet(index) = node[NodeFromEnd[(size - 1) - index]].value
    BY <1>2, <1>4, <2>1 DEF ListGet
  <2> QED  BY <1>4, <2>2, <2>3, <2>4, <2>5
<1> QED  BY <1>3, <1>4

(* The loop of FOREACH ends, at the first slot that reads NULL. *)
LEMMA ForeachEnds ==
    ASSUME ListInv
    PROVE  \E n \in 0 .. size :
              /\ FOREACH = [k \in 1 .. n |-> ListGet(k - 1)]
              /\ ListGet(n) = NULL /\ \A k \in 0 .. n - 1 : ListGet(k) # NULL
<1>0. size \in 0 .. Wrap - 2 /\ Wrap \in Nat
  <2>1. size \in Nat /\ size <= Cardinality(Nodes) /\ Cardinality(Nodes) \in Nat
    BY ListTyped, Bounds DEF TypeOK
  <2> QED  BY <2>1, ListAssumption
<1>1. ListGet(size) = NULL
  BY <1>0, ListGetSpec
<1> DEFINE Stop == {n \in 0 .. Wrap - 2 : ListGet(n) = NULL}
           End(n) == ListGet(n) = NULL /\ \A k \in 0 .. n - 1 : ListGet(k) # NULL
           end == CHOOSE n \in 0 .. Wrap - 2 : End(n)
<1>2. PICK n \in Stop : \A k \in Stop : n <= k
  <2>1. Stop \subseteq Nat /\ Stop # {}
    BY <1>0, <1>1
  <2> HIDE DEF Stop
  <2> QED  BY <2>1, LeastNat
<1>3. n \in 0 .. Wrap - 2 /\ End(n)
  <2> SUFFICES ASSUME NEW k \in 0 .. n - 1 PROVE ListGet(k) # NULL
    BY <1>2
  <2>1. k \in 0 .. Wrap - 2 /\ ~(n <= k)
    BY <1>0, <1>2
  <2> QED  BY <1>2, <2>1
<1> HIDE DEF End
<1>4. end \in 0 .. Wrap - 2 /\ End(end)
  BY <1>3
<1>5. FOREACH = [k \in 1 .. end |-> ListGet(k - 1)]
  BY DEF FOREACH, End
<1> HIDE DEF end
<1>6. end <= size
  <2> SUFFICES ASSUME end > size PROVE FALSE
    BY <1>0, <1>4
  <2>1. size \in 0 .. end - 1
    BY <1>0, <1>4
  <2> QED  BY <1>1, <1>4, <2>1 DEF End
<1>7. end \in 0 .. size
  BY <1>0, <1>4, <1>6
<1> QED  BY <1>4, <1>5, <1>7 DEF End

LEMMA ForeachReads ==
    ASSUME ListInv
    PROVE  LET n == Len(FOREACH)
           IN  /\ FOREACH = SubSeq(Contents, 1, n)
               /\ n < size => Contents[n + 1] = NULL
               /\ \A k \in 1 .. n : FOREACH[k] # NULL
<1>0. size \in 0 .. Wrap - 2 /\ Wrap \in Nat
  <2>1. size \in Nat /\ size <= Cardinality(Nodes) /\ Cardinality(Nodes) \in Nat
    BY ListTyped, Bounds DEF TypeOK
  <2> QED  BY <2>1, ListAssumption
<1> DEFINE S == Values \cup {NULL}
           g == FOREACH
<1>1. PICK n \in 0 .. size :
         /\ g = [k \in 1 .. n |-> ListGet(k - 1)]
         /\ ListGet(n) = NULL /\ \A k \in 0 .. n - 1 : ListGet(k) # NULL
  BY ForeachEnds
<1> HIDE DEF g
<1>2. \A k \in 0 .. size : ListGet(k) = IF k < size THEN Contents[k + 1] ELSE NULL
  <2>1. \A k \in 0 .. size : k \in 0 .. Wrap - 2
    BY <1>0
  <2> QED  BY <2>1, ListGetSpec
<1>3. \A k \in 1 .. n : g[k] = Contents[k] /\ g[k] # NULL
  <2> SUFFICES ASSUME NEW k \in 1 .. n PROVE g[k] = Contents[k] /\ g[k] # NULL
    OBVIOUS
  <2>1. k - 1 \in 0 .. size /\ k - 1 \in 0 .. n - 1 /\ k - 1 < size /\ (k - 1) + 1 = k
    BY <1>0
  <2>2. g[k] = ListGet(k - 1)
    BY <1>1
  <2> QED  BY <1>1, <1>2, <2>1, <2>2
<1>4. Contents \in Seq(S) /\ Len(Contents) = size
  BY ContentsSeq
<1>5. g = SubSeq(Contents, 1, n) /\ Len(g) = n
  <2> DEFINE s == Contents
             r == SubSeq(s, 1, n)
  <2>1. s \in Seq(S) /\ Len(s) = size
    BY <1>4
  <2> HIDE DEF s, S
  <2>2. r \in Seq(S) /\ Len(r) = n /\ \A k \in 1 .. n : r[k] = s[k]
    BY <1>0, <2>1
  <2> HIDE DEF r
  <2>3. DOMAIN r = 1 .. n /\ r = [k \in DOMAIN r |-> r[k]]
    BY <2>2
  <2>4. DOMAIN g = 1 .. n /\ g = [k \in DOMAIN g |-> g[k]]
    BY <1>1
  <2>5. \A k \in 1 .. n : g[k] = r[k]
    BY <1>3, <2>2 DEF s
  <2>6. g = r
    BY <2>3, <2>4, <2>5
  <2> QED  BY <2>2, <2>6 DEF r, s
<1>6. n < size => Contents[n + 1] = NULL
  BY <1>0, <1>1, <1>2
<1> QED  BY <1>3, <1>5, <1>6 DEF g

LEMMA ListInvWellLinked ==
    ASSUME ListInv
    PROVE  WellLinked
<1>0. TypeOK /\ size \in Nat /\ NULL \notin Nodes
  BY ListTyped, Bounds
<1>1. PICK c : Linked(c, size, first, last, node, used)
  BY DEF ListInv
<1>2. /\ NodeAt[size] = NULL
      /\ \A i \in 0 .. size - 1 : NodeAt[i] = c[i + 1]
  BY <1>0, <1>1, NodeAtSpec
<1>3. \A i \in 0 .. size - 1 : i + 1 \in 1 .. size /\ (i + 1) - 1 = i /\ (i + 1 = 1 <=> i = 0)
  BY <1>0
<1>4. \A i \in 1 .. size : i - 1 \in 0 .. size - 1 /\ (i - 1) + 1 = i
  BY <1>0
<1>5. used = {NodeAt[i] : i \in 0 .. size - 1}
  <2>1. \A x : x \in used <=> \E i \in 1 .. size : x = c[i]
    BY <1>1 DEF Linked
  <2>2. \A x : x \in used <=> \E i \in 0 .. size - 1 : x = NodeAt[i]
    BY <1>2, <1>3, <1>4, <2>1
  <2> QED  BY <2>2
<1>6. ASSUME NEW i \in 0 .. size - 1
      PROVE  node[NodeAt[i]].prev = IF i = 0 THEN NULL ELSE NodeAt[i - 1]
  <2>1. node[c[i + 1]].prev = IF i + 1 = 1 THEN NULL ELSE c[(i + 1) - 1]
    BY <1>1, <1>3 DEF Linked
  <2>2. node[NodeAt[i]].prev = IF i = 0 THEN NULL ELSE c[i]
    BY <1>2, <1>3, <2>1
  <2>3. CASE i # 0
    <3>1. i - 1 \in 0 .. size - 1 /\ (i - 1) + 1 = i
      BY <1>0, <2>3
    <3> QED  BY <1>2, <2>2, <2>3, <3>1
  <2> QED  BY <2>2, <2>3
<1>7. ASSUME size > 0 PROVE last = NodeAt[size - 1]
  <2>1. size - 1 \in 0 .. size - 1 /\ (size - 1) + 1 = size
    BY <1>0, <1>7
  <2>2. last = c[size]
    BY <1>1, <1>7 DEF Linked
  <2> QED  BY <1>2, <2>1, <2>2
<1>8. ReadsAgree
  BY ListGetSpec, ForeachReads DEF ReadsAgree
<1> QED  BY <1>0, <1>2, <1>5, <1>6, <1>7, <1>8 DEF WellLinked

(* At every moment, "next" from the first node visits exactly the nodes in *)
(* use and ends in NULL, "prev" is its inverse and "last" its end; and     *)
(* list_get, from whichever end it walks, and FOREACH read the items in    *)
(* their order.  Of the indices list_get takes, only 2^32 - 1, whose       *)
(* successor wraps to 0, is left out.                                      *)
THEOREM WellLinkedAlways ==
    ASSUME TailDeleted = FALSE
    PROVE  Spec => []WellLinked
<1>1. Init => ListInv
  BY ListInvInit
<1>2. ListInv /\ [Next]_vars => ListInv'
  BY ListStep
<1>3. ListInv => WellLinked
  BY ListInvWellLinked
<1> QED  BY <1>1, <1>2, <1>3, PTL DEF Spec
=============================================================================
