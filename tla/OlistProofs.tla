---------------------------- MODULE OlistProofs ----------------------------
(***************************************************************************)
(* What the list operations return, for lists of every length.             *)
(***************************************************************************)
EXTENDS Olist, WellFoundedInduction, TLAPS

(* A nonempty set of naturals has a least element. *)
LEMMA LeastNat ==
    ASSUME NEW T, T \subseteq Nat, T # {}
    PROVE  \E x \in T : \A y \in T : x <= y
<1> DEFINE R == {ss \in Nat \X Nat : ss[1] < ss[2]}
<1>1. IsWellFoundedOn(R, Nat)
  BY NatLessThanWellFounded DEF OpToRel
<1>2. \E x \in T : \A y \in T : ~(<<y, x>> \in R)
  <2> HIDE DEF R
  <2> QED  BY <1>1, WFMin
<1>3. \A x, y \in Nat : <<y, x>> \in R <=> y < x
  OBVIOUS
<1> HIDE DEF R
<1>4. PICK x \in T : \A y \in T : ~(<<y, x>> \in R)
  BY <1>2
<1>5. ASSUME NEW y \in T PROVE x <= y
  <2>1. x \in Nat /\ y \in Nat /\ ~(y < x)
    BY <1>3, <1>4
  <2> QED  BY <2>1
<1> QED  BY <1>5

(* The walk of olist_add stops, at the first item greater than the new one. *)
LEMMA OlistPosSpec ==
    ASSUME NEW S, NEW s \in Seq(S), NEW item \in S, NEW key \in [S -> Int]
    PROVE  LET k == OlistPos(s, item, key)
           IN  /\ k \in 1 .. Len(s) + 1
               /\ \A j \in 1 .. k - 1 : key[s[j]] <= key[item]
               /\ k <= Len(s) => key[s[k]] > key[item]
<1> DEFINE Stops == {j \in 1 .. Len(s) + 1 : j <= Len(s) => key[s[j]] > key[item]}
<1>1. PICK k \in Stops : \A j \in Stops : k <= j
  <2>1. Len(s) + 1 \in Stops
    OBVIOUS
  <2>2. Stops \subseteq Nat
    OBVIOUS
  <2> HIDE DEF Stops
  <2> QED  BY <2>1, <2>2, LeastNat
<1>2. \A j \in 1 .. k - 1 : key[s[j]] <= key[item]
  <2> SUFFICES ASSUME NEW j \in 1 .. k - 1 PROVE key[s[j]] <= key[item]
    OBVIOUS
  <2>1. j \in 1 .. Len(s) /\ j \notin Stops
    BY <1>1
  <2>2. key[s[j]] \in Int /\ key[item] \in Int
    BY <2>1
  <2> QED  BY <2>1, <2>2
<1> QED  BY <1>1, <1>2 DEF OlistPos

(* The list t is s with the item at place k and the rest moved up. *)
AddedAt(t, s, item, k) ==
    /\ Len(t) = Len(s) + 1
    /\ k \in 1 .. Len(t)
    /\ t[k] = item
    /\ \A i \in 1 .. k - 1 : i \in 1 .. Len(s) /\ t[i] = s[i]
    /\ \A i \in k + 1 .. Len(t) : i - 1 \in 1 .. Len(s) /\ t[i] = s[i - 1]

(* olist_add puts the item at that place and moves the rest up. *)
LEMMA OlistAddShape ==
    ASSUME NEW S, NEW s \in Seq(S), NEW item \in S, NEW key \in [S -> Int]
    PROVE  /\ OlistAdd(s, item, key) \in Seq(S)
           /\ AddedAt(OlistAdd(s, item, key), s, item, OlistPos(s, item, key))
<1> DEFINE k == OlistPos(s, item, key)
           e(i) == IF i < k THEN s[i] ELSE IF i = k THEN item ELSE s[i - 1]
           t == [i \in 1 .. Len(s) + 1 |-> e(i)]
<1>1. k \in 1 .. Len(s) + 1
  BY OlistPosSpec
<1>2. OlistAdd(s, item, key) = t
  BY DEF OlistAdd
<1> HIDE DEF k
<1>3. \A i \in 1 .. Len(s) + 1 : e(i) \in S
  BY <1>1
<1>4. t \in Seq(S) /\ Len(t) = Len(s) + 1
  BY <1>3
<1>5. AddedAt(t, s, item, k)
  BY <1>1, <1>4 DEF AddedAt
<1> QED  BY <1>2, <1>4, <1>5 DEF k

(* olist_add adds the item and loses none. *)
LEMMA OlistAddItems ==
    ASSUME NEW S, NEW s \in Seq(S), NEW item \in S, NEW key \in [S -> Int]
    PROVE  Items(OlistAdd(s, item, key)) = Items(s) \cup {item}
<1> DEFINE k == OlistPos(s, item, key)
           t == OlistAdd(s, item, key)
<1>0. AddedAt(t, s, item, k)
  BY OlistAddShape
<1> HIDE DEF k, t
<1>1. /\ Len(t) = Len(s) + 1
      /\ k \in 1 .. Len(t)
      /\ t[k] = item
      /\ \A i \in 1 .. k - 1 : i \in 1 .. Len(s) /\ t[i] = s[i]
      /\ \A i \in k + 1 .. Len(t) : i - 1 \in 1 .. Len(s) /\ t[i] = s[i - 1]
  BY <1>0 DEF AddedAt
<1>2. ASSUME NEW i \in 1 .. Len(t) PROVE t[i] \in Items(s) \cup {item}
  <2>1. CASE i < k
    BY <1>1, <2>1 DEF Items
  <2>2. CASE i = k
    BY <1>1, <2>2
  <2>3. CASE i > k
    <3>1. i - 1 \in 1 .. Len(s) /\ t[i] = s[i - 1]
      BY <1>1, <2>3
    <3> QED  BY <3>1 DEF Items
  <2> QED  BY <1>1, <2>1, <2>2, <2>3
<1>3. ASSUME NEW i \in 1 .. Len(s) PROVE s[i] \in Items(t)
  <2>1. CASE i < k
    BY <1>1, <2>1 DEF Items
  <2>2. CASE i >= k
    <3>1. i + 1 \in k + 1 .. Len(t) /\ i + 1 \in 1 .. Len(t) /\ (i + 1) - 1 = i
      BY <1>1, <2>2
    <3>2. t[i + 1] = s[i]
      BY <1>1, <3>1
    <3> QED  BY <3>1, <3>2 DEF Items
  <2> QED  BY <1>1, <2>1, <2>2
<1> QED  BY <1>1, <1>2, <1>3 DEF Items, t

(* A new item does not make duplicates. *)
LEMMA OlistAddNoDuplicates ==
    ASSUME NEW S, NEW s \in Seq(S), NEW item \in S, NEW key \in [S -> Int],
           NoDuplicates(s), item \notin Items(s)
    PROVE  NoDuplicates(OlistAdd(s, item, key))
<1> DEFINE k == OlistPos(s, item, key)
           t == OlistAdd(s, item, key)
<1>0. AddedAt(t, s, item, k)
  BY OlistAddShape
<1> HIDE DEF k, t
<1>1. /\ Len(t) = Len(s) + 1
      /\ k \in 1 .. Len(t)
      /\ t[k] = item
      /\ \A i \in 1 .. k - 1 : i \in 1 .. Len(s) /\ t[i] = s[i]
      /\ \A i \in k + 1 .. Len(t) : i - 1 \in 1 .. Len(s) /\ t[i] = s[i - 1]
  BY <1>0 DEF AddedAt
<1> SUFFICES ASSUME NEW i \in 1 .. Len(t), NEW j \in 1 .. Len(t), t[i] = t[j]
             PROVE  i = j
  BY DEF NoDuplicates, t
<1>2. ASSUME NEW m \in 1 .. Len(t), m # k PROVE t[m] \in Items(s)
  <2>1. CASE m < k
    BY <1>1, <2>1 DEF Items
  <2>2. CASE m > k
    <3>1. m - 1 \in 1 .. Len(s) /\ t[m] = s[m - 1]
      BY <1>1, <2>2
    <3> QED  BY <3>1 DEF Items
  <2> QED  BY <1>1, <1>2, <2>1, <2>2
<1>3. CASE i = k \/ j = k
  BY <1>1, <1>2, <1>3
<1>4. CASE i # k /\ j # k
  <2> DEFINE old(m) == IF m < k THEN m ELSE m - 1
  <2>1. \A m \in 1 .. Len(t) : m # k => old(m) \in 1 .. Len(s) /\ t[m] = s[old(m)]
    BY <1>1
  <2>2. old(i) = old(j)
    <3> HIDE DEF old
    <3> QED  BY <1>4, <2>1 DEF NoDuplicates
  <2> QED  BY <1>1, <1>4, <2>2
<1> QED  BY <1>3, <1>4

(* An ordered list stays ordered. *)
LEMMA OlistAddOrdered ==
    ASSUME NEW S, NEW s \in Seq(S), NEW item \in S, NEW key \in [S -> Int],
           Ordered(s, key)
    PROVE  Ordered(OlistAdd(s, item, key), key)
<1> DEFINE k == OlistPos(s, item, key)
           t == OlistAdd(s, item, key)
<1>0. AddedAt(t, s, item, k)
  BY OlistAddShape
<1> HIDE DEF k, t
<1>1. /\ Len(t) = Len(s) + 1
      /\ k \in 1 .. Len(t)
      /\ t[k] = item
      /\ \A i \in 1 .. k - 1 : i \in 1 .. Len(s) /\ t[i] = s[i]
      /\ \A i \in k + 1 .. Len(t) : i - 1 \in 1 .. Len(s) /\ t[i] = s[i - 1]
  BY <1>0 DEF AddedAt
<1>2. /\ \A j \in 1 .. k - 1 : key[s[j]] <= key[item]
      /\ k <= Len(s) => key[s[k]] > key[item]
  BY OlistPosSpec DEF k
<1>3. key[item] \in Int /\ \A m \in 1 .. Len(s) : key[s[m]] \in Int
  OBVIOUS
<1> SUFFICES ASSUME NEW i \in 1 .. Len(t), NEW j \in 1 .. Len(t), i < j
             PROVE  key[t[i]] <= key[t[j]]
  BY DEF Ordered, t
<1>s. \A a, b \in 1 .. Len(s) : a < b => key[s[a]] <= key[s[b]]
  BY DEF Ordered
<1>4. CASE j < k
  <2>1. i \in 1 .. Len(s) /\ j \in 1 .. Len(s) /\ t[i] = s[i] /\ t[j] = s[j]
    BY <1>1, <1>4
  <2> QED  BY <1>s, <2>1
<1>5. CASE j = k
  BY <1>1, <1>2, <1>5
<1>low. \A m \in 1 .. Len(t) : m < k => m \in 1 .. Len(s) /\ t[m] = s[m]
  BY <1>1
<1>high. ASSUME NEW m \in 1 .. Len(t), k < m
         PROVE  m - 1 \in 1 .. Len(s) /\ t[m] = s[m - 1]
  <2>1. k \in Int /\ m \in k + 1 .. Len(t)
    BY <1>1, <1>high
  <2> QED  BY <1>1, <2>1
<1>6. CASE i = k
  <2>1. j - 1 \in 1 .. Len(s) /\ t[j] = s[j - 1]
    BY <1>high, <1>6
  <2>2. k \in 1 .. Len(s) /\ (k = j - 1 \/ k < j - 1)
    BY <1>1, <1>6, <2>1
  <2>3. key[s[k]] <= key[s[j - 1]]
    <3>1. CASE k = j - 1
      <4>1. key[s[k]] \in Int
        BY <1>3, <2>2
      <4> QED  BY <3>1, <4>1
    <3>2. CASE k < j - 1
      BY <1>s, <2>1, <2>2, <3>2
    <3> QED  BY <2>2, <3>1, <3>2
  <2>4. key[item] <= key[s[k]]
    BY <1>2, <1>3, <2>2
  <2>5. t[i] = item
    BY <1>1, <1>6
  <2> QED  BY <1>3, <2>1, <2>2, <2>3, <2>4, <2>5
<1>7. CASE i < k /\ k < j
  <2>1. i \in 1 .. Len(s) /\ t[i] = s[i] /\ j - 1 \in 1 .. Len(s) /\ t[j] = s[j - 1]
    BY <1>low, <1>high, <1>7
  <2>2. i < j - 1 \/ i = j - 1
    BY <1>1, <1>7
  <2> QED  BY <1>3, <1>s, <2>1, <2>2
<1>8. CASE k < i
  <2>1. k < j
    BY <1>1, <1>8
  <2>2. i - 1 \in 1 .. Len(s) /\ t[i] = s[i - 1] /\ j - 1 \in 1 .. Len(s) /\ t[j] = s[j - 1]
    BY <1>high, <1>8, <2>1
  <2>3. i - 1 < j - 1
    OBVIOUS
  <2> QED  BY <1>s, <2>2, <2>3
<1> QED  BY <1>1, <1>4, <1>5, <1>6, <1>7, <1>8

(* Taking the first item. *)
LEMMA TailItems ==
    ASSUME NEW S, NEW s \in Seq(S), s # <<>>
    PROVE  /\ Head(s) \in S
           /\ Head(s) \in Items(s)
           /\ Tail(s) \in Seq(S)
           /\ Len(Tail(s)) = Len(s) - 1
           /\ \A i \in 1 .. Len(Tail(s)) : i + 1 \in 1 .. Len(s) /\ Tail(s)[i] = s[i + 1]
           /\ Items(s) = {Head(s)} \cup Items(Tail(s))
<1>1. /\ Head(s) = s[1] /\ 1 \in 1 .. Len(s) /\ Tail(s) \in Seq(S)
      /\ Len(Tail(s)) = Len(s) - 1
      /\ \A i \in 1 .. Len(Tail(s)) : i + 1 \in 1 .. Len(s) /\ Tail(s)[i] = s[i + 1]
  OBVIOUS
<1>2. ASSUME NEW i \in 1 .. Len(s), i # 1
      PROVE  i - 1 \in 1 .. Len(Tail(s)) /\ Tail(s)[i - 1] = s[i]
  BY <1>1, <1>2
<1>3. Items(s) \subseteq {Head(s)} \cup Items(Tail(s))
  BY <1>1, <1>2 DEF Items
<1>4. {Head(s)} \cup Items(Tail(s)) \subseteq Items(s)
  BY <1>1 DEF Items
<1> QED  BY <1>1, <1>3, <1>4

(* What is left when the head is taken off does not hold it. *)
LEMMA TailNoDuplicates ==
    ASSUME NEW S, NEW s \in Seq(S), s # <<>>, NoDuplicates(s)
    PROVE  NoDuplicates(Tail(s)) /\ Head(s) \notin Items(Tail(s))
<1>1. Head(s) = s[1] /\ 1 \in 1 .. Len(s)
  OBVIOUS
<1> QED  BY <1>1, TailItems DEF NoDuplicates, Items

(* What is left is ordered, and the head was a smallest item. *)
LEMMA TailOrdered ==
    ASSUME NEW S, NEW s \in Seq(S), s # <<>>, NEW key \in [S -> Int], Ordered(s, key)
    PROVE  /\ Ordered(Tail(s), key)
           /\ \A x \in Items(s) : key[Head(s)] <= key[x]
<1>1. Head(s) = s[1] /\ 1 \in 1 .. Len(s) /\ key[s[1]] \in Int
  OBVIOUS
<1>2. Ordered(Tail(s), key)
  BY TailItems DEF Ordered
<1>3. \A i \in 1 .. Len(s) : key[s[1]] <= key[s[i]]
  BY <1>1 DEF Ordered
<1> QED  BY <1>1, <1>2, <1>3 DEF Items

(* Appending an item. *)
LEMMA AppendItems ==
    ASSUME NEW S, NEW s \in Seq(S), NEW item \in S
    PROVE  /\ Append(s, item) \in Seq(S)
           /\ Append(s, item) # <<>>
           /\ Items(Append(s, item)) = Items(s) \cup {item}
           /\ NoDuplicates(s) /\ item \notin Items(s) => NoDuplicates(Append(s, item))
<1>1. /\ Append(s, item) \in Seq(S)
      /\ Len(Append(s, item)) = Len(s) + 1
      /\ Append(s, item)[Len(s) + 1] = item
      /\ \A i \in 1 .. Len(s) : Append(s, item)[i] = s[i]
  OBVIOUS
<1> HIDE DEF Items
<1>2. Items(Append(s, item)) = Items(s) \cup {item}
  BY <1>1 DEF Items
<1> QED  BY <1>1, <1>2 DEF Items, NoDuplicates

(* Among its equals, a new item is the last. *)
LEMMA OlistAddBehindEquals ==
    ASSUME NEW S, NEW s \in Seq(S), NEW item \in S, NEW key \in [S -> Int],
           Ordered(s, key), item \notin Items(s),
           NEW a \in Items(s), NEW b, key[a] = key[b],
           Ahead(OlistAdd(s, item, key), b, a)
    PROVE  Ahead(s, b, a)
<1> DEFINE k == OlistPos(s, item, key)
           t == OlistAdd(s, item, key)
<1>0. AddedAt(t, s, item, k)
  BY OlistAddShape
<1>2. k <= Len(s) => key[s[k]] > key[item]
  BY OlistPosSpec
<1>3. PICK i \in 1 .. Len(t), j \in 1 .. Len(t) : i < j /\ t[i] = b /\ t[j] = a
  BY DEF Ahead
<1> HIDE DEF k, t
<1>1. /\ Len(t) = Len(s) + 1
      /\ k \in 1 .. Len(t)
      /\ t[k] = item
      /\ \A m \in 1 .. k - 1 : m \in 1 .. Len(s) /\ t[m] = s[m]
      /\ \A m \in k + 1 .. Len(t) : m - 1 \in 1 .. Len(s) /\ t[m] = s[m - 1]
  BY <1>0 DEF AddedAt
<1>4. j # k
  BY <1>1, <1>3
<1>5. i # k
  <2> SUFFICES ASSUME i = k PROVE FALSE
    OBVIOUS
  <2>1. j - 1 \in 1 .. Len(s) /\ a = s[j - 1] /\ b = item /\ k \in 1 .. Len(s) /\ k <= j - 1
    <3>1. j \in k + 1 .. Len(t)
      BY <1>1, <1>3
    <3>2. j - 1 \in 1 .. Len(s) /\ t[j] = s[j - 1]
      BY <1>1, <3>1
    <3> QED  BY <1>1, <1>3, <3>1, <3>2
  <2>2. key[s[k]] \in Int /\ key[s[j - 1]] \in Int /\ key[item] \in Int
    BY <2>1
  <2>3. key[s[k]] <= key[s[j - 1]]
    <3>1. k = j - 1 \/ k < j - 1
      BY <2>1
    <3> QED  BY <2>1, <2>2, <3>1 DEF Ordered
  <2> QED  BY <1>2, <2>1, <2>2, <2>3
<1>6. CASE j < k
  <2>1. i \in 1 .. k - 1 /\ j \in 1 .. k - 1
    BY <1>1, <1>3, <1>6
  <2> QED  BY <1>1, <1>3, <2>1 DEF Ahead
<1>7. CASE i < k /\ k < j
  <2>1. i \in 1 .. k - 1 /\ j \in k + 1 .. Len(t) /\ i < j - 1
    BY <1>1, <1>3, <1>7
  <2> QED  BY <1>1, <1>3, <2>1 DEF Ahead
<1>8. CASE k < i
  <2>1. i \in k + 1 .. Len(t) /\ j \in k + 1 .. Len(t) /\ i - 1 < j - 1
    BY <1>1, <1>3, <1>8, SMTT(30)
  <2>2. i - 1 \in 1 .. Len(s) /\ j - 1 \in 1 .. Len(s) /\ s[i - 1] = b /\ s[j - 1] = a
    BY <1>1, <1>3, <2>1
  <2> QED  BY <2>1, <2>2 DEF Ahead
<1> QED  BY <1>1, <1>3, <1>4, <1>5, <1>6, <1>7, <1>8

(* Taking the first item leaves the order of the rest. *)
LEMMA TailAhead ==
    ASSUME NEW S, NEW s \in Seq(S), s # <<>>, NEW a, NEW b, Ahead(Tail(s), b, a)
    PROVE  Ahead(s, b, a)
<1>1. PICK i \in 1 .. Len(Tail(s)), j \in 1 .. Len(Tail(s)) :
         i < j /\ Tail(s)[i] = b /\ Tail(s)[j] = a
  BY DEF Ahead
<1>2. /\ i + 1 \in 1 .. Len(s) /\ s[i + 1] = b
      /\ j + 1 \in 1 .. Len(s) /\ s[j + 1] = a
      /\ i + 1 < j + 1
  BY <1>1, TailItems
<1> QED  BY <1>2 DEF Ahead
=============================================================================
