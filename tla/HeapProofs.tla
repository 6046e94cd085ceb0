----------------------------- MODULE HeapProofs -----------------------------
(***************************************************************************)
(* The heap's blocks, its index and what its callers hold, for heaps and   *)
(* requests of every size.                                                 *)
(***************************************************************************)
EXTENDS Heap, OlistProofs

-----------------------------------------------------------------------------
(* What a layout of the heap is, of headers h and footers f up to end e.   *)

Headers == [hole : BOOLEAN, size : Nat]

(* Blocks from START to e, one behind the other. *)
Laid(h, e) ==
    /\ h \in [DOMAIN h -> Headers]
    /\ START \in DOMAIN h
    /\ e \in Nat
    /\ \A a \in DOMAIN h :
          /\ a \in Nat /\ START <= a /\ a < e
          /\ h[a].size >= HDR + FTR
          /\ End(h, a) \in DOMAIN h \cup {e}
          /\ \A b \in DOMAIN h : b > a => b >= End(h, a)

(* A footer at the end of each block, that leads to its header. *)
Footed(h, f) ==
    /\ DOMAIN f = {End(h, a) - FTR : a \in DOMAIN h}
    /\ \A a \in DOMAIN h : f[End(h, a) - FTR] = a

HolesOf(h) == {a \in DOMAIN h : h[a].hole}

(* What callers hold, o, are the blocks that are not holes. *)
Held(h, o) ==
    /\ o \in [DOMAIN o -> Nat]
    /\ DOMAIN o \subseteq Nat
    /\ DOMAIN h \ HolesOf(h) = {p - HDR : p \in DOMAIN o}
    /\ \A p \in DOMAIN o : p + o[p] <= End(h, p - HDR) - FTR

(* The index s holds some of the items of S, once each, smallest first. *)
Indexes(s, S, h) ==
    /\ s \in Seq(S)
    /\ Len(s) <= MAX_SIZE
    /\ NoDuplicates(s)
    /\ Ordered(s, BySize(h))

(* Two holes meet only on a page boundary, or in front of block x. *)
Merged(h, x) ==
    \A a \in HolesOf(h) : End(h, a) \in HolesOf(h) => End(h, a) % PAGE = 0 \/ End(h, a) = x

(* What heap_alloc must not meet: a hole it takes for an aligned request   *)
(* of which the part before the aligned block is too small for a block.    *)
(* There it misplaces a footer (heap.c:222).                               *)
NoSmallPiece ==
    \A a \in Items(index) : MustAlign(a) /\ Fits(a) => NextPage(a) - HDR - a > HDR + FTR

(* The heap is in order up to e: headers h, footers f, index s, held o.    *)
InOrder(h, f, s, o, e) ==
    /\ Laid(h, e)
    /\ Footed(h, f)
    /\ f = [x \in DOMAIN f |-> f[x]]
    /\ Held(h, o)
    /\ Indexes(s, HolesOf(h), h)
    /\ Merged(h, e)

(* What every step keeps.  The heap ends on a page boundary, so that a     *)
(* hole can only be left unmerged there, and has addresses for the pages   *)
(* it may still grow into.                                                 *)
HInv ==
    /\ TypeOK
    /\ InOrder(hdr, ftr, index, owned, heap_end)
    /\ heap_end % PAGE = 0
    /\ heap_end + (free_pages + mapped) * PAGE <= LastEnd
    /\ heap_err # "corrupted"

-----------------------------------------------------------------------------
(* What Update and Forget make is a function. *)
LEMMA UpdateType ==
    ASSUME NEW f, NEW a, NEW v, NEW T, \A x \in DOMAIN f : x # a => f[x] \in T, v \in T
    PROVE  Update(f, a, v) \in [DOMAIN f \cup {a} -> T]
BY DEF Update

LEMMA ForgetType ==
    ASSUME NEW f, NEW S, NEW T, \A x \in DOMAIN f \ S : f[x] \in T
    PROVE  Forget(f, S) \in [DOMAIN f \ S -> T]
BY DEF Forget

(* The blocks of a heap that is laid out. *)
LEMMA LaidSpec ==
    ASSUME NEW h, NEW e, Laid(h, e), NEW a \in DOMAIN h
    PROVE  /\ a \in Nat /\ START <= a /\ a < e /\ e \in Nat /\ START \in Nat
           /\ h[a] \in Headers /\ h[a].size \in Nat /\ h[a].hole \in BOOLEAN
           /\ h[a].size >= 5
           /\ End(h, a) = a + h[a].size /\ End(h, a) \in Nat
           /\ End(h, a) >= a + 5 /\ End(h, a) <= e
           /\ End(h, a) # e => End(h, a) \in DOMAIN h
           /\ \A b \in DOMAIN h : b > a => b >= End(h, a)
<1>1. h[a] \in Headers
  BY DEF Laid
<1>2. h[a].size \in Nat /\ h[a].hole \in BOOLEAN
  BY <1>1 DEF Headers
<1>3. /\ a \in Nat /\ START <= a /\ a < e /\ e \in Nat
      /\ h[a].size >= 5
      /\ End(h, a) \in DOMAIN h \cup {e}
      /\ \A b \in DOMAIN h : b > a => b >= End(h, a)
  BY DEF Laid, HDR, FTR
<1>4. \A b \in DOMAIN h : b < e /\ b \in Nat
  BY DEF Laid
<1>5. End(h, a) = a + h[a].size
  BY DEF End
<1> QED  BY <1>1, <1>2, <1>3, <1>4, <1>5, HeapAssumption

(* Different blocks end at different places. *)
LEMMA EndsDiffer ==
    ASSUME NEW h, NEW e, Laid(h, e), NEW a \in DOMAIN h, NEW b \in DOMAIN h,
           End(h, a) = End(h, b)
    PROVE  a = b
<1>1. a \in Nat /\ b \in Nat
  BY LaidSpec
<1>2. ASSUME a < b PROVE FALSE
  <2>1. b >= End(h, a) /\ End(h, b) >= b + 5 /\ End(h, a) \in Nat
    BY <1>1, <1>2, LaidSpec
  <2> QED  BY <1>1, <2>1
<1>3. ASSUME b < a PROVE FALSE
  <2>1. a >= End(h, b) /\ End(h, a) >= a + 5 /\ End(h, b) \in Nat
    BY <1>1, <1>3, LaidSpec
  <2> QED  BY <1>1, <2>1
<1> QED  BY <1>1, <1>2, <1>3

(* In front of every block but the first there is a block. *)
LEMMA BlockBefore ==
    ASSUME NEW h, NEW e, Laid(h, e), NEW a \in DOMAIN h, a # START
    PROVE  \E b \in DOMAIN h : b < a /\ End(h, b) = a
<1> DEFINE D == {a - b : b \in {b \in DOMAIN h : b < a}}
<1>1. START \in DOMAIN h /\ START < a /\ a \in Nat /\ START \in Nat
  <2>1. START \in DOMAIN h
    BY DEF Laid
  <2> QED  BY <2>1, LaidSpec
<1>2. D \subseteq Nat /\ D # {}
  <2>1. \A b \in DOMAIN h : b \in Nat
    BY LaidSpec
  <2>2. a - START \in D
    BY <1>1
  <2> QED  BY <1>1, <2>1, <2>2
<1>3. PICK d \in D : \A x \in D : d <= x
  <2> HIDE DEF D
  <2> QED  BY <1>2, LeastNat
<1>4. PICK b \in DOMAIN h : b < a /\ d = a - b
  BY <1>3
<1>5. \A c \in DOMAIN h : c < a => c <= b
  <2> SUFFICES ASSUME NEW c \in DOMAIN h, c < a PROVE c <= b
    OBVIOUS
  <2>1. c \in Nat /\ b \in Nat
    BY LaidSpec
  <2>2. d <= a - c
    BY <1>3
  <2> QED  BY <1>1, <1>4, <2>1, <2>2
<1>6. b \in Nat /\ End(h, b) \in Nat /\ End(h, b) > b /\ a >= End(h, b) /\ a < e /\ e \in Nat
  <2>1. b \in Nat /\ End(h, b) \in Nat /\ End(h, b) >= b + 5 /\ (a > b => a >= End(h, b))
    BY LaidSpec
  <2>2. a < e /\ e \in Nat
    BY LaidSpec
  <2> QED  BY <1>1, <1>4, <2>1, <2>2
<1>7. End(h, b) \in DOMAIN h
  BY <1>1, <1>6, LaidSpec
<1>8. End(h, b) = a
  BY <1>1, <1>5, <1>6, <1>7
<1> QED  BY <1>4, <1>8

(* Each footer is at the end of the block it leads to. *)
LEMMA FooterOf ==
    ASSUME NEW h, NEW f, NEW e, Laid(h, e), Footed(h, f), NEW a \in DOMAIN h
    PROVE  /\ End(h, a) - FTR \in DOMAIN f /\ f[End(h, a) - FTR] = a
           /\ \A x \in DOMAIN f : x = End(h, f[x]) - FTR /\ f[x] \in DOMAIN h
BY DEF Footed

(* The footer in front of a block leads to the block before it. *)
LEMMA FooterBefore ==
    ASSUME NEW h, NEW f, NEW e, Laid(h, e), Footed(h, f), NEW a \in DOMAIN h, a # START
    PROVE  /\ a - FTR \in DOMAIN f
           /\ f[a - FTR] \in DOMAIN h /\ f[a - FTR] < a /\ End(h, f[a - FTR]) = a
<1>1. PICK b \in DOMAIN h : b < a /\ End(h, b) = a
  BY BlockBefore
<1> QED  BY <1>1 DEF Footed

-----------------------------------------------------------------------------
(* How the layout changes: a block cut in two, blocks joined, a block      *)
(* behind the last, a block given away or taken back.                      *)

(* h2, f2 are h, f with block a cut at m. *)
Cut(h, f, h2, f2, a, m) ==
    /\ h2 \in [DOMAIN h \cup {m} -> Headers]
    /\ h2[a].size = m - a
    /\ h2[m].size = End(h, a) - m
    /\ \A b \in DOMAIN h : b # a => h2[b] = h[b]
    /\ DOMAIN f2 = DOMAIN f \cup {m - FTR}
    /\ f2[m - FTR] = a
    /\ f2[End(h, a) - FTR] = m
    /\ \A x \in DOMAIN f : x # End(h, a) - FTR => f2[x] = f[x]

(* Two blocks follow each other where there was one, if each has room for  *)
(* its header and footer.                                                  *)
LEMMA CutLaid ==
    ASSUME NEW h, NEW f, NEW h2, NEW f2, NEW e, NEW a \in DOMAIN h, NEW m \in Nat,
           Laid(h, e), Footed(h, f), Cut(h, f, h2, f2, a, m),
           m >= a + 5, m + 5 <= End(h, a)
    PROVE  /\ Laid(h2, e) /\ Footed(h2, f2)
           /\ m \notin DOMAIN h /\ DOMAIN h2 = DOMAIN h \cup {m}
           /\ End(h2, a) = m /\ End(h2, m) = End(h, a)
           /\ \A b \in DOMAIN h : b # a => End(h2, b) = End(h, b) /\ h2[b] = h[b]
<1>a. /\ a \in Nat /\ a < e /\ e \in Nat /\ START \in Nat /\ START <= a
      /\ End(h, a) \in Nat /\ End(h, a) <= e
      /\ \A b \in DOMAIN h : b > a => b >= End(h, a)
  BY LaidSpec
<1>1. m \notin DOMAIN h /\ m # a
  BY <1>a
<1>2. DOMAIN h2 = DOMAIN h \cup {m} /\ h2 \in [DOMAIN h2 -> Headers]
  BY DEF Cut
<1>3. End(h2, a) = m /\ End(h2, m) = End(h, a)
  BY <1>a DEF Cut, End
<1>4. \A b \in DOMAIN h : b # a => End(h2, b) = End(h, b) /\ h2[b] = h[b]
  BY DEF Cut, End
<1>5. Laid(h2, e)
  <2>1. START \in DOMAIN h2 /\ e \in Nat
    BY <1>2, <1>a DEF Laid
  <2>2. ASSUME NEW b \in DOMAIN h2
        PROVE  /\ b \in Nat /\ START <= b /\ b < e
               /\ h2[b].size >= HDR + FTR
               /\ End(h2, b) \in DOMAIN h2 \cup {e}
               /\ \A c \in DOMAIN h2 : c > b => c >= End(h2, b)
    <3>1. CASE b = a
      <4>1. h2[a].size = m - a
        BY DEF Cut
      <4>2. \A c \in DOMAIN h2 : c > a => c >= m
        <5> SUFFICES ASSUME NEW c \in DOMAIN h2, c > a, c # m PROVE c >= m
          BY <1>a
        <5>1. c \in DOMAIN h /\ c \in Nat /\ c >= End(h, a)
          BY <1>a, <1>2, LaidSpec
        <5> QED  BY <1>a, <5>1
      <4> QED  BY <1>a, <1>2, <1>3, <3>1, <4>1, <4>2 DEF HDR, FTR
    <3>2. CASE b = m
      <4>1. h2[m].size = End(h, a) - m
        BY DEF Cut
      <4>2. End(h, a) \in DOMAIN h \cup {e}
        BY DEF Laid
      <4>3. \A c \in DOMAIN h2 : c > m => c >= End(h, a)
        <5> SUFFICES ASSUME NEW c \in DOMAIN h2, c > m PROVE c >= End(h, a)
          OBVIOUS
        <5>1. c \in DOMAIN h
          BY <1>2, <1>a
        <5>2. c \in Nat
          BY <5>1, LaidSpec
        <5> QED  BY <1>a, <5>1, <5>2
      <4> QED  BY <1>a, <1>2, <1>3, <3>2, <4>1, <4>2, <4>3 DEF HDR, FTR
    <3>3. CASE b # a /\ b # m
      <4>1. b \in DOMAIN h /\ End(h2, b) = End(h, b) /\ h2[b] = h[b]
        BY <1>2, <1>4, <3>3
      <4>2. /\ b \in Nat /\ START <= b /\ b < e /\ h[b].size >= 5 /\ End(h, b) \in Nat
            /\ \A c \in DOMAIN h : c > b => c >= End(h, b)
        BY <4>1, LaidSpec
      <4>3. End(h, b) \in DOMAIN h \cup {e}
        BY <4>1 DEF Laid
      <4>4. m > b => m >= End(h, b)
        <5>1. b < a \/ b > a
          BY <1>a, <3>3, <4>2
        <5>2. CASE b < a
          BY <1>a, <4>2, <5>2
        <5>3. CASE b > a
          BY <1>a, <4>1, <4>2, <5>3
        <5> QED  BY <5>1, <5>2, <5>3
      <4> QED  BY <1>2, <4>1, <4>2, <4>3, <4>4 DEF HDR, FTR
    <3> QED  BY <3>1, <3>2, <3>3
  <2> QED  BY <1>2, <2>1, <2>2 DEF Laid
<1>6. Footed(h2, f2)
  <2>1. DOMAIN f2 = DOMAIN f \cup {m - FTR} /\ DOMAIN f = {End(h, b) - FTR : b \in DOMAIN h}
    BY DEF Cut, Footed
  <2>2. {End(h2, b) - FTR : b \in DOMAIN h2} = {End(h, b) - FTR : b \in DOMAIN h} \cup {m - FTR}
    BY <1>1, <1>2, <1>3, <1>4
  <2>3. ASSUME NEW b \in DOMAIN h2 PROVE f2[End(h2, b) - FTR] = b
    <3>1. CASE b = a \/ b = m
      BY <1>3, <3>1 DEF Cut
    <3>2. CASE b # a /\ b # m
      <4>1. b \in DOMAIN h /\ End(h2, b) = End(h, b)
        BY <1>2, <1>4, <3>2
      <4>2. End(h, b) # End(h, a) /\ End(h, b) \in Nat
        BY <3>2, <4>1, EndsDiffer, LaidSpec
      <4>3. End(h, b) - FTR # End(h, a) - FTR
        BY <1>a, <4>2 DEF FTR
      <4>4. End(h, b) - FTR \in DOMAIN f /\ f[End(h, b) - FTR] = b
        BY <4>1, FooterOf
      <4> QED  BY <4>1, <4>3, <4>4 DEF Cut
    <3> QED  BY <3>1, <3>2
  <2> QED  BY <2>1, <2>2, <2>3 DEF Footed
<1> QED  BY <1>1, <1>2, <1>3, <1>4, <1>5, <1>6

(* h2, f2 are h, f with the blocks from first up to end made one. *)
Joined(h, f, h2, f2, first, end) ==
    LET gone == {b \in DOMAIN h : first < b /\ b < end}
    IN  /\ h2 \in [DOMAIN h \ gone -> Headers]
        /\ h2[first].size = end - first
        /\ \A b \in DOMAIN h \ gone : b # first => h2[b] = h[b]
        /\ DOMAIN f2 = (DOMAIN f \cup {end - FTR}) \ {b - FTR : b \in gone}
        /\ f2[end - FTR] = first
        /\ \A x \in DOMAIN f2 : x # end - FTR => f2[x] = f[x]

(* Joined blocks follow the others, and are followed by them. *)
LEMMA JoinedLaid ==
    ASSUME NEW h, NEW f, NEW h2, NEW f2, NEW e, NEW first, NEW end,
           first \in DOMAIN h, end \in DOMAIN h \cup {e}, first < end,
           Laid(h, e), Footed(h, f), Joined(h, f, h2, f2, first, end)
    PROVE  /\ Laid(h2, e) /\ Footed(h2, f2)
           /\ \A b : b \in DOMAIN h2 <=> b \in DOMAIN h /\ ~(first < b /\ b < end)
           /\ End(h2, first) = end
           /\ \A b \in DOMAIN h2 : b # first => End(h2, b) = End(h, b) /\ h2[b] = h[b]
<1> DEFINE gone == {b \in DOMAIN h : first < b /\ b < end}
<1>a. /\ first \in Nat /\ end \in Nat /\ e \in Nat /\ START \in Nat /\ START <= first
      /\ end <= e /\ first < e
  BY LaidSpec
<1>b. /\ DOMAIN h2 = DOMAIN h \ gone /\ h2 \in [DOMAIN h2 -> Headers]
      /\ h2[first].size = end - first
      /\ \A b \in DOMAIN h \ gone : b # first => h2[b] = h[b]
      /\ DOMAIN f2 = (DOMAIN f \cup {end - FTR}) \ {b - FTR : b \in gone}
      /\ f2[end - FTR] = first
      /\ \A x \in DOMAIN f2 : x # end - FTR => f2[x] = f[x]
  BY DEF Joined
<1>1. DOMAIN h2 = {b \in DOMAIN h : ~(first < b /\ b < end)}
  BY <1>b
<1>2. first \in DOMAIN h2 /\ End(h2, first) = end
  BY <1>a, <1>b, <1>1 DEF End
<1>3. \A b \in DOMAIN h2 : b # first => End(h2, b) = End(h, b) /\ h2[b] = h[b]
  BY <1>b DEF End
<1>inside. ASSUME NEW b \in DOMAIN h, b \in gone \cup {first}
           PROVE  End(h, b) = end \/ End(h, b) \in gone
  <2>1. /\ b \in Nat /\ first <= b /\ b < end /\ End(h, b) \in Nat /\ End(h, b) > b
        /\ End(h, b) <= e /\ (End(h, b) # e => End(h, b) \in DOMAIN h)
        /\ (end > b /\ end \in DOMAIN h => end >= End(h, b))
    <3>1. first <= b /\ b < end /\ b \in Nat
      BY <1>a, <1>inside, LaidSpec
    <3>2. End(h, b) \in Nat /\ End(h, b) >= b + 5
      BY LaidSpec
    <3>3. End(h, b) <= e /\ (End(h, b) # e => End(h, b) \in DOMAIN h)
      BY LaidSpec
    <3>4. end > b /\ end \in DOMAIN h => end >= End(h, b)
      BY LaidSpec
    <3> QED  BY <3>1, <3>2, <3>3, <3>4
  <2>2. End(h, b) <= end
    BY <1>a, <2>1
  <2> QED  BY <1>a, <2>1, <2>2
<1>outside. ASSUME NEW b \in DOMAIN h, b \notin gone, b # first
            PROVE  End(h, b) \notin gone /\ End(h, b) # end
  <2>1. b \in Nat /\ End(h, b) \in Nat /\ End(h, b) >= b + 5
    BY LaidSpec
  <2>2. CASE b < first
    <3>1. End(h, b) <= first
      BY <2>2, LaidSpec
    <3> QED  BY <1>a, <2>1, <3>1
  <2>3. CASE b >= end
    BY <1>a, <2>1, <2>3
  <2> QED  BY <1>a, <1>outside, <2>1, <2>2, <2>3
<1>4. Laid(h2, e)
  <2>1. START \in DOMAIN h2 /\ e \in Nat
    <3>1. START \in DOMAIN h
      BY DEF Laid
    <3> QED  BY <1>1, <1>a, <3>1
  <2>2. ASSUME NEW b \in DOMAIN h2
        PROVE  /\ b \in Nat /\ START <= b /\ b < e
               /\ h2[b].size >= HDR + FTR
               /\ End(h2, b) \in DOMAIN h2 \cup {e}
               /\ \A c \in DOMAIN h2 : c > b => c >= End(h2, b)
    <3>0. b \in DOMAIN h /\ b \notin gone
      BY <1>b
    <3>1. /\ b \in Nat /\ START <= b /\ b < e /\ h[b].size >= 5
          /\ \A c \in DOMAIN h : c > b => c >= End(h, b)
      BY <3>0, LaidSpec
    <3>2. CASE b = first
      <4>1. end \in DOMAIN h2 \cup {e}
        BY <1>1, <1>a
      <4>2. \A c \in DOMAIN h2 : c > first => c >= end
        <5> SUFFICES ASSUME NEW c \in DOMAIN h2, c > first PROVE c >= end
          OBVIOUS
        <5>1. c \in Nat /\ ~(c < end)
          BY <1>1, LaidSpec
        <5> QED  BY <1>a, <5>1
      <4>3. end >= first + 5
        <5>1. end \in DOMAIN h => end >= End(h, first)
          BY LaidSpec
        <5>2. End(h, first) >= first + 5 /\ End(h, first) <= e /\ End(h, first) \in Nat
          BY LaidSpec
        <5> QED  BY <1>a, <5>1, <5>2
      <4> QED  BY <1>a, <1>b, <1>2, <3>1, <3>2, <4>1, <4>2, <4>3 DEF HDR, FTR
    <3>3. CASE b # first
      <4>1. End(h2, b) = End(h, b) /\ h2[b] = h[b]
        BY <1>3, <3>3
      <4>2. End(h, b) \in DOMAIN h \cup {e} /\ End(h, b) \notin gone
        BY <1>outside, <3>0, <3>3 DEF Laid
      <4> QED  BY <1>b, <3>1, <4>1, <4>2 DEF HDR, FTR
    <3> QED  BY <3>2, <3>3
  <2> QED  BY <1>b, <2>1, <2>2 DEF Laid
<1>5. Footed(h2, f2)
  <2>1. ASSUME NEW b \in DOMAIN h PROVE End(h, b) \in Nat /\ b \in Nat
    BY LaidSpec
  <2>2. DOMAIN f2 = {End(h2, b) - FTR : b \in DOMAIN h2}
    <3>1. ASSUME NEW x \in DOMAIN f2 PROVE \E b \in DOMAIN h2 : x = End(h2, b) - FTR
      <4>1. CASE x = end - FTR
        BY <1>2, <4>1
      <4>2. CASE x # end - FTR
        <5>1. PICK b \in DOMAIN h : x = End(h, b) - FTR
          BY <1>b, <4>2 DEF Footed
        <5>2. End(h, b) # end /\ End(h, b) \notin gone
          BY <1>b, <4>2, <5>1
        <5>3. b \in DOMAIN h2 /\ b # first
          BY <1>b, <1>inside, <5>2
        <5> QED  BY <1>3, <5>1, <5>3
      <4> QED  BY <4>1, <4>2
    <3>2. ASSUME NEW b \in DOMAIN h2 PROVE End(h2, b) - FTR \in DOMAIN f2
      <4>0. b \in DOMAIN h /\ b \notin gone
        BY <1>b
      <4>1. CASE b = first
        <5>1. \A c \in gone : c - FTR # end - FTR
          BY <1>a, <2>1 DEF FTR
        <5> QED  BY <1>b, <1>2, <4>1, <5>1
      <4>2. CASE b # first
        <5>1. End(h2, b) = End(h, b) /\ End(h, b) \notin gone
          BY <1>3, <1>outside, <4>0, <4>2
        <5>2. End(h, b) - FTR \in DOMAIN f
          BY <4>0, FooterOf
        <5>3. \A c \in gone : c - FTR # End(h, b) - FTR
          BY <2>1, <4>0, <5>1 DEF FTR
        <5> QED  BY <1>b, <5>1, <5>2, <5>3
      <4> QED  BY <4>1, <4>2
    <3> QED  BY <3>1, <3>2
  <2>3. ASSUME NEW b \in DOMAIN h2 PROVE f2[End(h2, b) - FTR] = b
    <3>1. CASE b = first
      BY <1>b, <1>2, <3>1
    <3>2. CASE b # first
      <4>1. b \in DOMAIN h /\ b \notin gone /\ End(h2, b) = End(h, b)
        BY <1>b, <1>3, <3>2
      <4>2. End(h, b) # end
        BY <1>outside, <3>2, <4>1
      <4>3. End(h, b) - FTR # end - FTR
        BY <1>a, <2>1, <4>1, <4>2 DEF FTR
      <4>4. f[End(h, b) - FTR] = b
        BY <4>1, FooterOf
      <4>5. End(h2, b) - FTR \in DOMAIN f2
        BY <2>2
      <4> QED  BY <1>b, <4>1, <4>3, <4>4, <4>5
    <3> QED  BY <3>1, <3>2
  <2> QED  BY <2>2, <2>3 DEF Footed
<1> QED  BY <1>1, <1>2, <1>3, <1>4, <1>5

(* h2, f2 are h, f with a hole of size n behind the last block, at e.      *)
Lengthened(h, f, h2, f2, e, n) ==
    /\ h2 \in [DOMAIN h \cup {e} -> Headers]
    /\ h2[e].size = n
    /\ \A b \in DOMAIN h : h2[b] = h[b]
    /\ DOMAIN f2 = DOMAIN f \cup {(e + n) - FTR}
    /\ f2[(e + n) - FTR] = e
    /\ \A x \in DOMAIN f : x # (e + n) - FTR => f2[x] = f[x]

(* The new block follows the last. *)
LEMMA LengthenedLaid ==
    ASSUME NEW h, NEW f, NEW h2, NEW f2, NEW e, NEW n \in Nat, n >= 5,
           Laid(h, e), Footed(h, f), Lengthened(h, f, h2, f2, e, n)
    PROVE  /\ Laid(h2, e + n) /\ Footed(h2, f2)
           /\ e \notin DOMAIN h
           /\ End(h2, e) = e + n
           /\ \A b \in DOMAIN h : End(h2, b) = End(h, b) /\ h2[b] = h[b]
<1>a. /\ START \in DOMAIN h /\ e \in Nat /\ START \in Nat /\ START < e
  <2>1. START \in DOMAIN h
    BY DEF Laid
  <2> QED  BY <2>1, LaidSpec
<1>b. DOMAIN h2 = DOMAIN h \cup {e} /\ h2 \in [DOMAIN h2 -> Headers]
  BY DEF Lengthened
<1>1. e \notin DOMAIN h
  BY LaidSpec
<1>2. End(h2, e) = e + n
  BY DEF Lengthened, End
<1>3. \A b \in DOMAIN h : End(h2, b) = End(h, b) /\ h2[b] = h[b]
  BY DEF Lengthened, End
<1>4. ASSUME NEW b \in DOMAIN h
      PROVE  b \in Nat /\ START <= b /\ b < e /\ End(h, b) \in Nat /\ End(h, b) <= e
             /\ h[b].size >= 5 /\ \A c \in DOMAIN h : c > b => c >= End(h, b)
  BY LaidSpec
<1>5. Laid(h2, e + n)
  <2>1. ASSUME NEW b \in DOMAIN h2
        PROVE  /\ b \in Nat /\ START <= b /\ b < e + n
               /\ h2[b].size >= HDR + FTR
               /\ End(h2, b) \in DOMAIN h2 \cup {e + n}
               /\ \A c \in DOMAIN h2 : c > b => c >= End(h2, b)
    <3>1. CASE b = e
      <4>1. h2[e].size = n
        BY DEF Lengthened
      <4>2. \A c \in DOMAIN h2 : ~(c > e)
        BY <1>a, <1>b, <1>4
      <4> QED  BY <1>a, <1>2, <3>1, <4>1, <4>2 DEF HDR, FTR
    <3>2. CASE b # e
      <4>1. b \in DOMAIN h /\ End(h2, b) = End(h, b) /\ h2[b] = h[b]
        BY <1>b, <1>3, <3>2
      <4>2. End(h, b) \in DOMAIN h \cup {e}
        BY <4>1 DEF Laid
      <4> QED  BY <1>a, <1>b, <1>4, <4>1, <4>2 DEF HDR, FTR
    <3> QED  BY <3>1, <3>2
  <2> QED  BY <1>a, <1>b, <2>1 DEF Laid
<1>6. Footed(h2, f2)
  <2>1. DOMAIN f2 = {End(h2, b) - FTR : b \in DOMAIN h2}
    <3>1. {End(h2, b) - FTR : b \in DOMAIN h2} = {End(h, b) - FTR : b \in DOMAIN h} \cup {(e + n) - FTR}
      BY <1>b, <1>2, <1>3
    <3> QED  BY <3>1 DEF Footed, Lengthened
  <2>2. ASSUME NEW b \in DOMAIN h2 PROVE f2[End(h2, b) - FTR] = b
    <3>1. CASE b = e
      BY <1>2, <3>1 DEF Lengthened
    <3>2. CASE b # e
      <4>1. b \in DOMAIN h /\ End(h2, b) = End(h, b)
        BY <1>b, <1>3, <3>2
      <4>2. End(h, b) - FTR # (e + n) - FTR
        BY <1>a, <1>4, <4>1 DEF FTR
      <4>3. End(h, b) - FTR \in DOMAIN f /\ f[End(h, b) - FTR] = b
        BY <4>1, FooterOf
      <4> QED  BY <4>1, <4>2, <4>3 DEF Lengthened
    <3> QED  BY <3>1, <3>2
  <2> QED  BY <2>1, <2>2 DEF Footed
<1> QED  BY <1>1, <1>2, <1>3, <1>5, <1>6

(* Which blocks are holes does not matter to the layout. *)
LEMMA MarkedLaid ==
    ASSUME NEW h, NEW f, NEW h2, NEW e, Laid(h, e), Footed(h, f),
           h2 \in [DOMAIN h -> Headers],
           \A b \in DOMAIN h : h2[b].size = h[b].size
    PROVE  /\ Laid(h2, e) /\ Footed(h2, f)
           /\ \A b \in DOMAIN h : End(h2, b) = End(h, b)
<1>1. DOMAIN h2 = DOMAIN h /\ \A b \in DOMAIN h : End(h2, b) = End(h, b)
  BY DEF End
<1>2. Laid(h2, e)
  BY <1>1 DEF Laid
<1>3. Footed(h2, f)
  BY <1>1 DEF Footed
<1> QED  BY <1>1, <1>2, <1>3

-----------------------------------------------------------------------------
(* The ordered array.                                                      *)

(* oarray_del_idx: the item at place i is taken out. *)
LEMMA RemoveAtSpec ==
    ASSUME NEW S, NEW s \in Seq(S), NEW i \in 1 .. Len(s)
    PROVE  /\ RemoveAt(s, i) \in Seq(S)
           /\ Len(RemoveAt(s, i)) = Len(s) - 1
           /\ \A j \in 1 .. Len(s) - 1 : RemoveAt(s, i)[j] = IF j < i THEN s[j] ELSE s[j + 1]
<1> DEFINE l == SubSeq(s, 1, i - 1)
           r == SubSeq(s, i + 1, Len(s))
<1>1. l \in Seq(S) /\ Len(l) = i - 1 /\ \A j \in 1 .. i - 1 : l[j] = s[j]
  OBVIOUS
<1>2. r \in Seq(S) /\ Len(r) = Len(s) - i /\ \A j \in 1 .. Len(s) - i : r[j] = s[i + j]
  OBVIOUS
<1> HIDE DEF l, r
<1>3. l \o r \in Seq(S) /\ Len(l \o r) = Len(s) - 1
  <2>1. l \o r \in Seq(S) /\ Len(l \o r) = Len(l) + Len(r)
    <3>1. l \in Seq(S) /\ r \in Seq(S)
      BY <1>1, <1>2
    <3> QED  BY <3>1
  <2>2. Len(s) \in Nat /\ i \in Nat
    OBVIOUS
  <2> QED  BY <1>1, <1>2, <2>1, <2>2
<1>4. \A j \in 1 .. Len(s) - 1 : (l \o r)[j] = IF j < i THEN s[j] ELSE s[j + 1]
  <2> SUFFICES ASSUME NEW j \in 1 .. Len(s) - 1
               PROVE  (l \o r)[j] = IF j < i THEN s[j] ELSE s[j + 1]
    OBVIOUS
  <2>1. (l \o r)[j] = IF j <= Len(l) THEN l[j] ELSE r[j - Len(l)]
    BY <1>1, <1>2
  <2>2. CASE j < i
    BY <1>1, <2>1, <2>2
  <2>3. CASE ~(j < i)
    <3>1. j - (i - 1) \in 1 .. Len(s) - i /\ i + (j - (i - 1)) = j + 1
      BY <2>3
    <3> QED  BY <1>1, <1>2, <2>1, <2>3, <3>1
  <2> QED  BY <2>2, <2>3
<1>5. RemoveAt(s, i) = l \o r
  BY DEF RemoveAt, l, r
<1> QED  BY <1>3, <1>4, <1>5

(* Where a place of the shorter array was in the longer. *)
LEMMA RemoveAtPlace ==
    ASSUME NEW S, NEW s \in Seq(S), NEW i \in 1 .. Len(s), NEW j \in 1 .. Len(RemoveAt(s, i))
    PROVE  \E k \in 1 .. Len(s) :
              k # i /\ k = (IF j < i THEN j ELSE j + 1) /\ RemoveAt(s, i)[j] = s[k]
<1>1. j \in 1 .. Len(s) - 1
  BY RemoveAtSpec
<1>2. CASE j < i
  <2>1. j \in 1 .. Len(s) /\ j # i /\ RemoveAt(s, i)[j] = s[j]
    BY <1>1, <1>2, RemoveAtSpec
  <2> QED  BY <1>2, <2>1
<1>3. CASE ~(j < i)
  <2>1. j + 1 \in 1 .. Len(s) /\ j + 1 # i /\ RemoveAt(s, i)[j] = s[j + 1]
    BY <1>1, <1>3, RemoveAtSpec
  <2> QED  BY <1>3, <2>1
<1> QED  BY <1>2, <1>3

(* That item is gone, the others stay, in their order. *)
LEMMA RemoveAtSound ==
    ASSUME NEW S, NEW s \in Seq(S), NEW i \in 1 .. Len(s), NoDuplicates(s)
    PROVE  /\ NoDuplicates(RemoveAt(s, i))
           /\ Items(RemoveAt(s, i)) \subseteq Items(s) \ {s[i]}
           /\ \A key : Ordered(s, key) => Ordered(RemoveAt(s, i), key)
<1> DEFINE t == RemoveAt(s, i)
           old(j) == IF j < i THEN j ELSE j + 1
<1>1. \A j \in 1 .. Len(t) : old(j) \in 1 .. Len(s) /\ old(j) # i /\ t[j] = s[old(j)]
  BY RemoveAtPlace
<1>2. \A j, k \in 1 .. Len(t) : (j < k => old(j) < old(k)) /\ (old(j) = old(k) => j = k)
  <2>1. Len(t) \in Nat
    BY RemoveAtSpec
  <2> QED  BY <2>1
<1> HIDE DEF t, old
<1>3. NoDuplicates(t)
  BY <1>1, <1>2 DEF NoDuplicates
<1>4. Items(t) \subseteq Items(s) \ {s[i]}
  BY <1>1 DEF NoDuplicates, Items
<1>5. ASSUME NEW key, Ordered(s, key) PROVE Ordered(t, key)
  BY <1>1, <1>2, <1>5 DEF Ordered
<1> QED  BY <1>3, <1>4, <1>5 DEF t

(* Taking a value out of the array. *)
LEMMA OarrayDelValueSound ==
    ASSUME NEW S, NEW s \in Seq(S), NEW a, NoDuplicates(s)
    PROVE  /\ OarrayDelValue(s, a) \in Seq(S)
           /\ Len(OarrayDelValue(s, a)) <= Len(s)
           /\ NoDuplicates(OarrayDelValue(s, a))
           /\ Items(OarrayDelValue(s, a)) \subseteq Items(s) \ {a}
           /\ \A key : Ordered(s, key) => Ordered(OarrayDelValue(s, a), key)
<1> DEFINE found == {i \in 1 .. Len(s) : s[i] = a}
           c == CHOOSE i \in found : \A j \in found : i <= j
<1>1. CASE found = {}
  <2>1. OarrayDelValue(s, a) = s
    BY <1>1 DEF OarrayDelValue
  <2>2. a \notin Items(s)
    BY <1>1 DEF Items
  <2> QED  BY <2>1, <2>2
<1>2. CASE found # {}
  <2>1. found \subseteq Nat
    OBVIOUS
  <2>2. \E i \in found : \A j \in found : i <= j
    <3> HIDE DEF found
    <3> QED  BY <1>2, <2>1, LeastNat
  <2>3. c \in found
    <3> HIDE DEF found
    <3> QED  BY <2>2
  <2>4. c \in 1 .. Len(s) /\ s[c] = a
    BY <2>3
  <2>5. OarrayDelValue(s, a) = RemoveAt(s, c)
    BY <1>2 DEF OarrayDelValue
  <2> HIDE DEF c
  <2>6. RemoveAt(s, c) \in Seq(S) /\ Len(RemoveAt(s, c)) = Len(s) - 1
    BY <2>4, RemoveAtSpec
  <2>7. /\ NoDuplicates(RemoveAt(s, c))
        /\ Items(RemoveAt(s, c)) \subseteq Items(s) \ {s[c]}
        /\ \A key : Ordered(s, key) => Ordered(RemoveAt(s, c), key)
    BY <2>4, RemoveAtSound
  <2> QED  BY <2>4, <2>5, <2>6, <2>7
<1> QED  BY <1>1, <1>2

(* The items of a sequence are what it is a sequence of. *)
LEMMA ItemsType ==
    ASSUME NEW S, NEW s \in Seq(S)
    PROVE  /\ Items(s) \subseteq S
           /\ \A T : Items(s) \subseteq T => s \in Seq(T)
BY DEF Items

(* An index is one of whatever set its items are in, and of any headers in *)
(* which they have the same sizes.                                         *)
LEMMA IndexesAgain ==
    ASSUME NEW S, NEW T, NEW s, NEW h, NEW h2, Indexes(s, S, h),
           Items(s) \subseteq T, Items(s) \subseteq DOMAIN h, Items(s) \subseteq DOMAIN h2,
           \A a \in Items(s) : h2[a].size = h[a].size
    PROVE  Indexes(s, T, h2)
<1>1. s \in Seq(S) /\ Len(s) <= MAX_SIZE /\ NoDuplicates(s) /\ Ordered(s, BySize(h))
  BY DEF Indexes
<1>2. s \in Seq(T)
  BY <1>1, ItemsType
<1>3. \A a \in Items(s) : BySize(h)[a] = BySize(h2)[a]
  BY DEF BySize
<1>4. \A i \in 1 .. Len(s) : s[i] \in Items(s)
  BY DEF Items
<1>5. Ordered(s, BySize(h2))
  BY <1>1, <1>3, <1>4 DEF Ordered
<1> QED  BY <1>1, <1>2, <1>5 DEF Indexes

(* oarray_add: the array stays ordered, and holds nothing new but a. *)
LEMMA OarrayAddSound ==
    ASSUME NEW h, h \in [DOMAIN h -> Headers],
           NEW S, S \subseteq DOMAIN h, NEW s, Indexes(s, S, h),
           NEW a \in S, a \notin Items(s)
    PROVE  /\ Indexes(OarrayAdd(s, a, h), S, h)
           /\ Items(OarrayAdd(s, a, h)) \subseteq Items(s) \cup {a}
<1>1. s \in Seq(S) /\ Len(s) <= MAX_SIZE /\ NoDuplicates(s) /\ Ordered(s, BySize(h))
  BY DEF Indexes
<1>2. CASE Len(s) >= MAX_SIZE
  BY <1>2 DEF OarrayAdd
<1>3. CASE ~(Len(s) >= MAX_SIZE)
  <2> DEFINE key == BySize(h)
             t == OlistAdd(s, a, key)
  <2>1. key \in [DOMAIN h -> Int]
    BY DEF BySize, Headers
  <2>2. s \in Seq(DOMAIN h) /\ a \in DOMAIN h
    BY <1>1, ItemsType
  <2>3. t \in Seq(DOMAIN h) /\ AddedAt(t, s, a, OlistPos(s, a, key))
    <3> HIDE DEF key
    <3> QED  BY <2>1, <2>2, OlistAddShape
  <2>4. Items(t) = Items(s) \cup {a}
    <3> HIDE DEF key
    <3> QED  BY <2>1, <2>2, OlistAddItems
  <2>5. NoDuplicates(t)
    <3> HIDE DEF key
    <3> QED  BY <1>1, <2>1, <2>2, OlistAddNoDuplicates
  <2>6. Ordered(t, key)
    <3>1. Ordered(s, key)
      BY <1>1
    <3> HIDE DEF key
    <3> QED  BY <2>1, <2>2, <3>1, OlistAddOrdered
  <2>7. OarrayAdd(s, a, h) = t
    BY <1>3 DEF OarrayAdd
  <2>8. Len(t) <= MAX_SIZE
    <3>1. Len(t) = Len(s) + 1
      BY <2>3 DEF AddedAt
    <3>2. Len(s) \in Nat /\ MAX_SIZE \in Nat
      BY <1>1, HeapAssumption
    <3> QED  BY <1>3, <3>1, <3>2
  <2> HIDE DEF t
  <2>9. t \in Seq(S)
    <3>1. Items(t) \subseteq S
      BY <1>1, <2>4, ItemsType
    <3> QED  BY <2>3, <3>1, ItemsType
  <2> QED  BY <2>4, <2>5, <2>6, <2>7, <2>8, <2>9 DEF Indexes
<1> QED  BY <1>2, <1>3

(* Taking items out leaves an index. *)
LEMMA IndexesRemoved ==
    ASSUME NEW S, NEW s, NEW h, Indexes(s, S, h)
    PROVE  /\ \A i \in 1 .. Len(s) :
                 /\ s[i] \in S
                 /\ Indexes(RemoveAt(s, i), S, h)
                 /\ Items(RemoveAt(s, i)) \subseteq Items(s) \ {s[i]}
           /\ \A a : /\ Indexes(OarrayDelValue(s, a), S, h)
                     /\ Items(OarrayDelValue(s, a)) \subseteq Items(s) \ {a}
<1>1. s \in Seq(S) /\ Len(s) <= MAX_SIZE /\ NoDuplicates(s) /\ Ordered(s, BySize(h))
  BY DEF Indexes
<1>2. Len(s) \in Nat /\ MAX_SIZE \in Nat
  BY <1>1, HeapAssumption
<1>3. ASSUME NEW i \in 1 .. Len(s)
      PROVE  /\ s[i] \in S
             /\ Indexes(RemoveAt(s, i), S, h)
             /\ Items(RemoveAt(s, i)) \subseteq Items(s) \ {s[i]}
  <2>1. RemoveAt(s, i) \in Seq(S) /\ Len(RemoveAt(s, i)) = Len(s) - 1
    BY <1>1, RemoveAtSpec
  <2>2. /\ NoDuplicates(RemoveAt(s, i))
        /\ Items(RemoveAt(s, i)) \subseteq Items(s) \ {s[i]}
        /\ Ordered(RemoveAt(s, i), BySize(h))
    BY <1>1, RemoveAtSound
  <2>3. Len(RemoveAt(s, i)) <= MAX_SIZE
    BY <1>1, <1>2, <2>1
  <2>4. s[i] \in S
    BY <1>1
  <2> QED  BY <2>1, <2>2, <2>3, <2>4 DEF Indexes
<1>4. ASSUME NEW a
      PROVE  /\ Indexes(OarrayDelValue(s, a), S, h)
             /\ Items(OarrayDelValue(s, a)) \subseteq Items(s) \ {a}
  <2>1. /\ OarrayDelValue(s, a) \in Seq(S)
        /\ Len(OarrayDelValue(s, a)) <= Len(s)
        /\ NoDuplicates(OarrayDelValue(s, a))
        /\ Items(OarrayDelValue(s, a)) \subseteq Items(s) \ {a}
        /\ Ordered(OarrayDelValue(s, a), BySize(h))
    BY <1>1, OarrayDelValueSound
  <2>2. Len(OarrayDelValue(s, a)) <= MAX_SIZE
    BY <1>1, <1>2, <2>1
  <2> QED  BY <2>1, <2>2 DEF Indexes
<1> QED  BY <1>3, <1>4

-----------------------------------------------------------------------------
(* A hole is given to a caller.                                            *)

(* Where a block is held, it is not a hole, and the memory is inside it.   *)
LEMMA HeldSpec ==
    ASSUME NEW h, NEW e, NEW o, Laid(h, e), Held(h, o), NEW p \in DOMAIN o
    PROVE  /\ p \in Nat /\ o[p] \in Nat
           /\ p - HDR \in DOMAIN h /\ p - HDR \notin HolesOf(h)
           /\ p + o[p] <= End(h, p - HDR) - FTR
BY DEF Held

(* Which blocks are held changes by block a only. *)
LEMMA HeldAgain ==
    ASSUME NEW h, NEW h2, NEW e, NEW e2, NEW o, Laid(h, e), Laid(h2, e2), Held(h, o),
           DOMAIN h2 \ HolesOf(h2) = DOMAIN h \ HolesOf(h),
           \A b \in DOMAIN h \ HolesOf(h) : End(h2, b) >= End(h, b)
    PROVE  Held(h2, o)
<1>1. ASSUME NEW p \in DOMAIN o PROVE p + o[p] <= End(h2, p - HDR) - FTR
  <2>1. /\ p \in Nat /\ o[p] \in Nat
        /\ p - HDR \in DOMAIN h /\ p - HDR \notin HolesOf(h)
        /\ p + o[p] <= End(h, p - HDR) - FTR
    BY HeldSpec
  <2>2. End(h2, p - HDR) >= End(h, p - HDR) /\ p - HDR \in DOMAIN h2
    BY <2>1
  <2>3. End(h, p - HDR) \in Nat /\ End(h2, p - HDR) \in Nat
    BY <2>1, <2>2, LaidSpec
  <2> QED  BY <2>1, <2>2, <2>3 DEF FTR
<1> QED  BY <1>1 DEF Held

(* Block a, a hole until now, is held with n words at least. *)
LEMMA HeldMore ==
    ASSUME NEW h, NEW h2, NEW e, NEW e2, NEW o, Laid(h, e), Laid(h2, e2), Held(h, o),
           NEW a \in HolesOf(h), NEW n \in Nat,
           DOMAIN h2 \ HolesOf(h2) = (DOMAIN h \ HolesOf(h)) \cup {a},
           \A b \in DOMAIN h \ HolesOf(h) : End(h2, b) = End(h, b),
           End(h2, a) >= a + n + 5
    PROVE  Held(h2, Update(o, a + HDR, n)) /\ a + HDR \notin DOMAIN o
<1> DEFINE o2 == Update(o, a + HDR, n)
<1>a. a \in DOMAIN h /\ a \in Nat
  BY LaidSpec DEF HolesOf
<1>1. a + HDR \notin DOMAIN o
  <2> SUFFICES ASSUME a + HDR \in DOMAIN o PROVE FALSE
    OBVIOUS
  <2>1. (a + HDR) - HDR \notin HolesOf(h)
    BY HeldSpec
  <2> QED  BY <1>a, <2>1 DEF HDR
<1>2. /\ DOMAIN o2 = DOMAIN o \cup {a + HDR} /\ o2[a + HDR] = n
      /\ \A p \in DOMAIN o : o2[p] = o[p]
  BY <1>1 DEF Update
<1>3. o2 \in [DOMAIN o2 -> Nat] /\ DOMAIN o2 \subseteq Nat
  <2>1. \A p \in DOMAIN o : o[p] \in Nat /\ p \in Nat
    BY HeldSpec
  <2>2. a + HDR \in Nat
    BY <1>a DEF HDR
  <2> QED  BY <1>2, <2>1, <2>2, UpdateType
<1>4. DOMAIN h2 \ HolesOf(h2) = {p - HDR : p \in DOMAIN o2}
  <2>1. DOMAIN h \ HolesOf(h) = {p - HDR : p \in DOMAIN o}
    BY DEF Held
  <2>2. (a + HDR) - HDR = a
    BY <1>a DEF HDR
  <2> HIDE DEF o2
  <2> QED  BY <1>2, <2>1, <2>2
<1>5. ASSUME NEW p \in DOMAIN o2 PROVE p + o2[p] <= End(h2, p - HDR) - FTR
  <2>1. CASE p = a + HDR
    <3>1. a \in DOMAIN h2
      OBVIOUS
    <3>2. p - HDR = a /\ End(h2, a) \in Nat /\ o2[p] = n
      BY <1>a, <1>2, <2>1, <3>1, LaidSpec DEF HDR
    <3> QED  BY <1>a, <2>1, <3>2 DEF HDR, FTR
  <2>2. CASE p # a + HDR
    <3>1. p \in DOMAIN o /\ o2[p] = o[p]
      BY <1>2, <2>2
    <3>2. /\ p - HDR \in DOMAIN h /\ p - HDR \notin HolesOf(h)
          /\ p + o[p] <= End(h, p - HDR) - FTR
      BY <3>1, HeldSpec
    <3> QED  BY <3>1, <3>2
  <2> QED  BY <2>1, <2>2
<1> QED  BY <1>1, <1>3, <1>4, <1>5 DEF Held

(* No block of h at or above e.  Giving hole a, which nothing in the index *)
(* leads to, keeps the heap in order; the holes on both sides of it were   *)
(* merged but for a.                                                       *)
LEMMA GiveSound ==
    ASSUME NEW h, NEW f, NEW s, NEW e, NEW a \in HolesOf(h),
           Laid(h, e), Footed(h, f), Held(h, owned),
           Indexes(s, HolesOf(h) \ {a}, h), Merged(h, a),
           call[1] \in Nat, h[a].size >= SizeHF,
           Give(h, f, s, a)
    PROVE  /\ Laid(hdr', e) /\ Footed(hdr', ftr') /\ Held(hdr', owned')
           /\ Indexes(index', HolesOf(hdr'), hdr') /\ Merged(hdr', e)
           /\ a + HDR \notin DOMAIN owned
           /\ owned' = Update(owned, a + HDR, call[1])
           /\ a \in DOMAIN hdr'
<1>a. /\ a \in DOMAIN h /\ a \in Nat /\ h[a].size \in Nat /\ h[a].hole
      /\ End(h, a) = a + h[a].size /\ End(h, a) \in Nat /\ End(h, a) <= e /\ e \in Nat /\ a < e
      /\ h[a] \in Headers
  BY LaidSpec DEF HolesOf
<1>b. SizeHF \in Nat /\ SizeHF = call[1] + 5 /\ SizeHF >= 5
  BY DEF SizeHF, HDR, FTR
<1>c. h \in [DOMAIN h -> Headers]
  BY DEF Laid
<1>d. owned' = Update(owned, a + HDR, call[1])
  BY DEF Give
<1>e. Items(s) \subseteq HolesOf(h) \ {a}
  BY ItemsType DEF Indexes
<1>f. \A b \in DOMAIN h : h[b].hole \in BOOLEAN
  BY LaidSpec
<1>1. CASE Splits(h, a)
  <2> DEFINE rest == a + SizeHF
             h1 == Update(h, a, Block(FALSE, SizeHF))
             h2 == Update(h1, rest, Block(TRUE, h[a].size - SizeHF))
             f1 == Update(f, rest - FTR, a)
             f2 == Update(f1, End(h, a) - FTR, rest)
  <2>0. hdr' = h2 /\ ftr' = f2 /\ index' = OarrayAdd(s, rest, h2)
    BY <1>1 DEF Give
  <2>1. h[a].size > SizeHF + 5
    BY <1>1, <1>b DEF Splits, HDR, FTR
  <2>2. rest \in Nat /\ rest >= a + 5 /\ rest + 5 <= End(h, a) /\ rest < e
    BY <1>a, <1>b, <2>1
  <2>3. Block(FALSE, SizeHF) \in Headers /\ Block(TRUE, h[a].size - SizeHF) \in Headers
    BY <1>a, <1>b, <2>1 DEF Block, Headers
  <2>4. rest # a /\ a \in DOMAIN h1 /\ h1[a] = Block(FALSE, SizeHF) /\ DOMAIN h1 = DOMAIN h
    BY <1>a, <2>2 DEF Update
  <2>5. /\ DOMAIN h2 = DOMAIN h \cup {rest}
        /\ h2[rest] = Block(TRUE, h[a].size - SizeHF)
        /\ h2[a] = Block(FALSE, SizeHF)
        /\ \A b \in DOMAIN h : b # a /\ b # rest => h2[b] = h[b]
    <3> HIDE DEF rest
    <3> QED  BY <2>4 DEF Update
  <2>6. h2 \in [DOMAIN h \cup {rest} -> Headers]
    <3>1. h1 \in [DOMAIN h \cup {a} -> Headers]
      BY <1>c, <2>3, UpdateType
    <3> HIDE DEF h1, rest
    <3>2. h2 \in [DOMAIN h1 \cup {rest} -> Headers]
      BY <2>3, <2>4, <3>1, UpdateType
    <3> QED  BY <2>4, <3>2
  <2>7. rest \notin DOMAIN h
    <3>1. ASSUME rest \in DOMAIN h PROVE FALSE
      <4>1. rest >= End(h, a)
        BY <1>a, <2>2, <3>1, LaidSpec
      <4> QED  BY <1>a, <2>2, <4>1
    <3> QED  BY <3>1
  <2>8. rest - FTR # End(h, a) - FTR
    BY <1>a, <2>2 DEF FTR
  <2>9. End(h, a) - FTR \in DOMAIN f
    BY <1>a, FooterOf
  <2>10. /\ DOMAIN f2 = DOMAIN f \cup {rest - FTR}
         /\ f2[rest - FTR] = a /\ f2[End(h, a) - FTR] = rest
    <3>1. DOMAIN f1 = DOMAIN f \cup {rest - FTR} /\ f1[rest - FTR] = a
      BY DEF Update
    <3> HIDE DEF rest, f1
    <3> QED  BY <2>8, <2>9, <3>1 DEF Update
  <2>11. \A x \in DOMAIN f : x # End(h, a) - FTR => f2[x] = f[x]
    <3> SUFFICES ASSUME NEW x \in DOMAIN f, x # End(h, a) - FTR PROVE f2[x] = f[x]
      OBVIOUS
    <3>1. x # rest - FTR
      <4>1. PICK b \in DOMAIN h : x = End(h, b) - FTR
        BY DEF Footed
      <4>2. End(h, b) \in Nat /\ End(h, b) # rest
        <5>1. End(h, b) \in DOMAIN h \cup {e}
          BY DEF Laid
        <5> QED  BY <2>2, <2>7, <5>1, LaidSpec
      <4> QED  BY <2>2, <4>1, <4>2 DEF FTR
    <3>2. f1[x] = f[x] /\ x \in DOMAIN f1
      BY <3>1 DEF Update
    <3> HIDE DEF f1
    <3> QED  BY <3>2 DEF Update
  <2> HIDE DEF h1, h2, f1, f2, rest
  <2>12. h2[a].size = SizeHF /\ h2[rest].size = h[a].size - SizeHF /\ ~h2[a].hole /\ h2[rest].hole
    BY <2>5 DEF Block
  <2>13. Cut(h, f, h2, f2, a, rest)
    <3>1. h2[a].size = rest - a /\ h2[rest].size = End(h, a) - rest
      BY <1>a, <1>b, <2>12 DEF rest
    <3> QED  BY <2>5, <2>6, <2>7, <2>10, <2>11, <3>1 DEF Cut
  <2>14. /\ Laid(h2, e) /\ Footed(h2, f2)
         /\ End(h2, a) = rest /\ End(h2, rest) = End(h, a)
         /\ \A b \in DOMAIN h : b # a => End(h2, b) = End(h, b) /\ h2[b] = h[b]
    BY <1>a, <2>2, <2>13, CutLaid, ZenonT(60)
  <2>15. HolesOf(h2) = (HolesOf(h) \ {a}) \cup {rest}
    BY <2>5, <2>7, <2>12 DEF HolesOf
  <2>16. Held(h2, owned') /\ a + HDR \notin DOMAIN owned
    <3>1. DOMAIN h2 \ HolesOf(h2) = (DOMAIN h \ HolesOf(h)) \cup {a}
      BY <1>a, <2>5, <2>7, <2>15 DEF HolesOf
    <3>2. \A b \in DOMAIN h \ HolesOf(h) : End(h2, b) = End(h, b)
      BY <2>14
    <3>3. End(h2, a) >= a + call[1] + 5
      BY <1>a, <1>b, <2>14 DEF rest
    <3> QED  BY <1>d, <2>14, <3>1, <3>2, <3>3, HeldMore
  <2>17. Indexes(OarrayAdd(s, rest, h2), HolesOf(h2), h2)
    <3>1. Indexes(s, HolesOf(h2), h2)
      <4>1. Items(s) \subseteq HolesOf(h2) /\ Items(s) \subseteq DOMAIN h /\ Items(s) \subseteq DOMAIN h2
        BY <1>e, <2>15 DEF HolesOf
      <4>2. \A b \in Items(s) : h2[b].size = h[b].size
        BY <1>e, <2>14 DEF HolesOf
      <4> QED  BY <4>1, <4>2, IndexesAgain
    <3>2. rest \in HolesOf(h2) /\ rest \notin Items(s) /\ HolesOf(h2) \subseteq DOMAIN h2
      BY <1>e, <2>7, <2>15 DEF HolesOf
    <3>3. h2 \in [DOMAIN h2 -> Headers]
      BY <2>5, <2>6
    <3> QED  BY <3>1, <3>2, <3>3, OarrayAddSound
  <2>18. Merged(h2, e)
    <3> SUFFICES ASSUME NEW b \in HolesOf(h2), End(h2, b) \in HolesOf(h2)
                 PROVE  End(h2, b) % PAGE = 0
      BY DEF Merged
    <3>1. CASE b = rest
      <4>1. End(h, a) # rest /\ End(h, a) # a
        BY <1>a, <2>2
      <4>2. End(h, a) \in HolesOf(h)
        BY <2>14, <2>15, <3>1, <4>1
      <4> QED  BY <2>14, <3>1, <4>1, <4>2 DEF Merged
    <3>2. CASE b # rest
      <4>1. b \in HolesOf(h) /\ b # a /\ b \in DOMAIN h
        BY <2>15, <3>2 DEF HolesOf
      <4>2. End(h2, b) = End(h, b) /\ End(h, b) \in DOMAIN h \cup {e}
        BY <2>14, <4>1 DEF Laid
      <4>3. End(h, b) # rest
        BY <2>2, <2>7, <4>2
      <4>4. End(h, b) \in HolesOf(h) /\ End(h, b) # a
        BY <2>15, <4>2, <4>3
      <4> QED  BY <4>1, <4>2, <4>4 DEF Merged
    <3> QED  BY <3>1, <3>2
  <2> QED  BY <1>a, <1>d, <2>0, <2>5, <2>14, <2>16, <2>17, <2>18
<1>2. CASE ~Splits(h, a)
  <2> DEFINE h2 == [h EXCEPT ![a].hole = FALSE]
  <2>0. hdr' = h2 /\ ftr' = f /\ index' = s
    BY <1>2 DEF Give
  <2>1. /\ DOMAIN h2 = DOMAIN h /\ h2 \in [DOMAIN h -> Headers]
        /\ h2[a].size = h[a].size /\ ~h2[a].hole
        /\ \A b \in DOMAIN h : b # a => h2[b] = h[b]
    BY <1>a, <1>c DEF Headers
  <2> HIDE DEF h2
  <2>2. \A b \in DOMAIN h : h2[b].size = h[b].size
    BY <2>1
  <2>3. Laid(h2, e) /\ Footed(h2, f) /\ \A b \in DOMAIN h : End(h2, b) = End(h, b)
    BY <2>1, <2>2, MarkedLaid
  <2>4. HolesOf(h2) = HolesOf(h) \ {a}
    BY <2>1 DEF HolesOf
  <2>5. Held(h2, owned') /\ a + HDR \notin DOMAIN owned
    <3>1. DOMAIN h2 \ HolesOf(h2) = (DOMAIN h \ HolesOf(h)) \cup {a}
      BY <1>a, <2>1, <2>4
    <3>2. \A b \in DOMAIN h \ HolesOf(h) : End(h2, b) = End(h, b)
      BY <2>3
    <3>3. End(h2, a) >= a + call[1] + 5
      BY <1>a, <1>b, <2>3
    <3> QED  BY <1>d, <2>3, <3>1, <3>2, <3>3, HeldMore
  <2>6. Indexes(s, HolesOf(h2), h2)
    <3>1. Items(s) \subseteq DOMAIN h
      BY <1>e DEF HolesOf
    <3> QED  BY <1>e, <2>1, <2>2, <2>4, <3>1, IndexesAgain
  <2>7. Merged(h2, e)
    <3> SUFFICES ASSUME NEW b \in HolesOf(h2), End(h2, b) \in HolesOf(h2)
                 PROVE  End(h2, b) % PAGE = 0
      BY DEF Merged
    <3>1. b \in HolesOf(h) /\ b \in DOMAIN h
      BY <2>4 DEF HolesOf
    <3>2. End(h, b) \in HolesOf(h) /\ End(h, b) # a /\ End(h2, b) = End(h, b)
      BY <2>3, <2>4, <3>1
    <3> QED  BY <3>1, <3>2 DEF Merged
  <2> QED  BY <1>a, <1>d, <2>0, <2>1, <2>3, <2>5, <2>6, <2>7
<1> QED  BY <1>1, <1>2

-----------------------------------------------------------------------------
(* Pages.                                                                  *)

LEMMA DivModPage ==
    ASSUME NEW n \in Nat
    PROVE  /\ n \div PAGE \in Nat /\ n % PAGE \in 0 .. PAGE - 1
           /\ n = (n \div PAGE) * PAGE + (n % PAGE)
<1>1. PAGE \in Nat /\ PAGE > 0
  BY HeapAssumption
<1> QED  BY <1>1

(* Whole pages leave no remainder, and no remainder means whole pages. *)
LEMMA WholePages ==
    ASSUME NEW q \in Nat
    PROVE  q * PAGE \in Nat /\ (q * PAGE) % PAGE = 0
<1> DEFINE n == q * PAGE
           d == n \div PAGE
           m == n % PAGE
<1>0. PAGE \in Nat /\ PAGE > 0
  BY HeapAssumption
<1>1. n \in Nat
  BY <1>0
<1>2. d \in Nat /\ m \in 0 .. PAGE - 1 /\ n = d * PAGE + m
  BY <1>1, DivModPage
<1>3. (q - d) * PAGE = m
  <2> HIDE DEF d, m
  <2>1. (q - d) * PAGE = q * PAGE - d * PAGE
    BY <1>0, <1>2
  <2> QED  BY <1>0, <1>2, <2>1
<1>4. q = d
  <2> HIDE DEF d, m
  <2>1. ASSUME q - d >= 1 PROVE FALSE
    <3>1. (q - d) * PAGE >= PAGE
      BY <1>0, <1>2, <2>1
    <3> QED  BY <1>0, <1>2, <1>3, <3>1
  <2>2. ASSUME q - d <= -1 PROVE FALSE
    <3>1. (q - d) * PAGE <= -PAGE
      BY <1>0, <1>2, <2>2
    <3> QED  BY <1>0, <1>2, <1>3, <3>1
  <2> QED  BY <1>2, <2>1, <2>2
<1>5. m = 0
  <2> HIDE DEF d, m
  <2> QED  BY <1>0, <1>2, <1>3, <1>4
<1> QED  BY <1>1, <1>5

(* Adding whole pages keeps a page boundary one. *)
LEMMA PagesOn ==
    ASSUME NEW n \in Nat, n % PAGE = 0, NEW q \in Nat
    PROVE  (n + q * PAGE) % PAGE = 0
<1> DEFINE d == n \div PAGE
<1>0. PAGE \in Nat /\ PAGE > 0
  BY HeapAssumption
<1>1. d \in Nat /\ n = d * PAGE
  <2>1. d \in Nat /\ n = d * PAGE + (n % PAGE)
    BY DivModPage
  <2> HIDE DEF d
  <2> QED  BY <1>0, <2>1
<1> HIDE DEF d
<1>2. d * PAGE + q * PAGE = (d + q) * PAGE
  BY <1>0, <1>1
<1>3. d + q \in Nat
  BY <1>1
<1>4. ((d + q) * PAGE) % PAGE = 0
  BY <1>3, WholePages
<1> QED  BY <1>1, <1>2, <1>4

(* The page boundary behind the useable space of a block. *)
LEMMA NextPageSpec ==
    ASSUME NEW a \in Nat, a >= START
    PROVE  /\ NextPage(a) \in Nat /\ NextPage(a) % PAGE = 0
           /\ NextPage(a) > a + HDR
           /\ (MustAlign(a) <=> call[2])
<1>0. PAGE \in Nat /\ PAGE > 0 /\ START \in Nat /\ START >= PAGE
  BY HeapAssumption
<1>1. /\ a + HDR + PAGE \in Nat /\ a + HDR \in Nat /\ a + HDR >= PAGE
      /\ a + HDR + PAGE = (a + HDR) + PAGE
  BY <1>0 DEF HDR
<1> DEFINE n == a + HDR + PAGE
           d == n \div PAGE
           c == (a + HDR) \div PAGE
<1>2. d \in Nat /\ n % PAGE \in 0 .. PAGE - 1 /\ n = d * PAGE + (n % PAGE)
  BY <1>1, DivModPage
<1>3. c \in Nat /\ (a + HDR) % PAGE \in 0 .. PAGE - 1 /\ a + HDR = c * PAGE + ((a + HDR) % PAGE)
  BY <1>1, DivModPage
<1>4. NextPage(a) = d * PAGE /\ PageOf(a + HDR) = c * PAGE
  BY DEF NextPage, PageOf
<1>5. d * PAGE \in Nat /\ (d * PAGE) % PAGE = 0
  BY <1>2, WholePages
<1>6. d * PAGE > a + HDR
  <2> DEFINE m == n % PAGE
             w == a + HDR
  <2>1. m \in 0 .. PAGE - 1 /\ n = d * PAGE + m /\ n = w + PAGE /\ w \in Nat
    BY <1>1, <1>2
  <2> HIDE DEF d, m, n, w
  <2>2. d * PAGE > w
    BY <1>0, <1>5, <2>1
  <2> QED  BY <2>2 DEF w
<1>7. c * PAGE # 0
  <2> HIDE DEF c
  <2>1. c # 0
    <3>1. ASSUME c = 0 PROVE FALSE
      <4>1. c * PAGE = 0
        BY <1>0, <3>1
      <4> QED  BY <1>0, <1>1, <1>3, <4>1
    <3> QED  BY <3>1
  <2> QED  BY <1>0, <1>3, <2>1
<1> QED  BY <1>4, <1>5, <1>6, <1>7 DEF MustAlign

(* A heap that is extended is extended by enough for the request. *)
LEMMA NewPagesSpec ==
    ASSUME SizeHF \in Nat
    PROVE  NewPages \in Nat /\ NewPages * PAGE \in Nat /\ NewPages * PAGE >= SizeHF
<1> DEFINE d == SizeHF \div PAGE
           m == SizeHF % PAGE
<1>0. PAGE \in Nat /\ PAGE > 0
  BY HeapAssumption
<1>1. d \in Nat /\ m \in 0 .. PAGE - 1 /\ SizeHF = d * PAGE + m
  BY DivModPage
<1>2. NewPages = d + (IF m = 0 THEN 0 ELSE 1)
  BY DEF NewPages
<1> HIDE DEF d, m
<1>3. CASE m = 0
  <2>1. NewPages = d
    BY <1>1, <1>2, <1>3
  <2>2. d * PAGE \in Nat
    BY <1>1, WholePages
  <2> QED  BY <1>1, <1>3, <2>1, <2>2
<1>4. CASE m # 0
  <2>1. NewPages = d + 1
    BY <1>2, <1>4
  <2>2. (d + 1) * PAGE = d * PAGE + PAGE
    BY <1>0, <1>1
  <2>3. d + 1 \in Nat /\ d * PAGE \in Nat
    BY <1>1, WholePages
  <2> QED  BY <1>0, <1>1, <2>1, <2>2, <2>3
<1> QED  BY <1>3, <1>4

-----------------------------------------------------------------------------
(* The hole is cut at a page boundary before it is given away: the part in *)
(* front of the boundary, if it is large enough to be a block, is a hole   *)
(* in the index, and the heap is in order but for the two holes that meet. *)
LEMMA AlignSound ==
    ASSUME NEW e, NEW i \in 1 .. Len(index), NEW a, a = index[i], NEW new, new = NextPage(a) - HDR,
           Laid(hdr, e), Footed(hdr, ftr), Held(hdr, owned),
           Indexes(index, HolesOf(hdr), hdr), Merged(hdr, e),
           call[1] \in Nat, MustAlign(a), Fits(a), new - a > HDR + FTR
    PROVE  LET h == AlignHdr(a, new)
               f == AlignFtr(a, new)
               s == AlignIndex(RemoveAt(index, i), a, new)
           IN  /\ Laid(h, e) /\ Footed(h, f) /\ Held(h, owned)
               /\ new \in HolesOf(h) /\ new \in Nat /\ h[new].size >= SizeHF
               /\ Indexes(s, HolesOf(h) \ {new}, h) /\ Merged(h, new)
               /\ (new + HDR) % PAGE = 0
<1> DEFINE rest == Block(TRUE, hdr[a].size - (new - a))
           h1 == Update(hdr, a, Block(TRUE, new - a))
           h == Update(h1, new, rest)
           f1 == Update(ftr, End(hdr, a) - FTR, new)
           f == Update(f1, new - FTR, a)
           s0 == RemoveAt(index, i)
           s == OarrayAdd(s0, a, h)
<1>0. AlignHdr(a, new) = h /\ AlignFtr(a, new) = f /\ AlignIndex(s0, a, new) = s
  BY DEF AlignHdr, AlignFtr, AlignIndex
<1>1. a \in HolesOf(hdr) /\ Indexes(s0, HolesOf(hdr), hdr) /\ Items(s0) \subseteq HolesOf(hdr) \ {a}
  <2>1. /\ index[i] \in HolesOf(hdr) /\ Indexes(s0, HolesOf(hdr), hdr)
        /\ Items(s0) \subseteq Items(index) \ {index[i]}
    BY IndexesRemoved
  <2>2. Items(index) \subseteq HolesOf(hdr)
    BY ItemsType DEF Indexes
  <2> QED  BY <2>1, <2>2
<1>a. /\ a \in DOMAIN hdr /\ a \in Nat /\ START <= a /\ hdr[a].size \in Nat /\ hdr[a].hole
      /\ End(hdr, a) = a + hdr[a].size /\ End(hdr, a) \in Nat /\ End(hdr, a) <= e /\ e \in Nat
      /\ a < e
  BY <1>1, LaidSpec DEF HolesOf
<1>b. SizeHF \in Nat /\ SizeHF = call[1] + 5
  BY DEF SizeHF, HDR, FTR
<1>c. /\ NextPage(a) \in Nat /\ NextPage(a) % PAGE = 0 /\ NextPage(a) > a + HDR
      /\ NextPage(a) + call[1] + FTR < End(hdr, a)
  BY <1>a, NextPageSpec DEF Fits
<1>2. /\ new \in Nat /\ new >= a + 5 /\ new + 5 <= End(hdr, a) /\ new + SizeHF < End(hdr, a)
      /\ new < e /\ new + HDR = NextPage(a) /\ new # a
  <2>1. new \in Nat /\ new + 3 = NextPage(a)
    BY <1>a, <1>c, SMTT(30) DEF HDR
  <2>2. new - a > 5
    BY DEF HDR, FTR
  <2>3. new + 3 + call[1] + 2 < End(hdr, a)
    BY <1>c, <2>1 DEF FTR
  <2>4. new + SizeHF < End(hdr, a)
    <3>1. End(hdr, a) \in Nat
      BY <1>a
    <3>2. SizeHF = call[1] + 5 /\ call[1] \in Nat
      BY <1>b
    <3>3. new \in Nat
      BY <2>1
    <3> HIDE DEF rest, h1, h, f1, f, s0, s
    <3> QED  BY <2>3, <3>1, <3>2, <3>3, SMTT(30)
  <2>5. new >= a + 5 /\ new # a
    BY <1>a, <2>1, <2>2
  <2>6. new + 5 <= End(hdr, a) /\ new < e
    <3>1. End(hdr, a) \in Nat /\ e \in Nat /\ End(hdr, a) <= e
      BY <1>a
    <3>2. SizeHF \in Nat /\ SizeHF >= 5
      BY <1>b
    <3>3. new \in Nat
      BY <2>1
    <3> HIDE DEF rest, h1, h, f1, f, s0, s
    <3> QED  BY <2>4, <3>1, <3>2, <3>3
  <2> QED  BY <2>1, <2>4, <2>5, <2>6 DEF HDR
<1>3. Block(TRUE, new - a) \in Headers /\ rest \in Headers
  BY <1>a, <1>2, SMTT(30) DEF Block, Headers
<1>4. h1 \in [DOMAIN hdr -> Headers] /\ h1[a] = Block(TRUE, new - a)
      /\ \A b \in DOMAIN hdr : b # a => h1[b] = hdr[b]
  <2>1. hdr \in [DOMAIN hdr -> Headers]
    BY DEF Laid
  <2>2. h1 \in [DOMAIN hdr \cup {a} -> Headers]
    BY <1>3, <2>1, UpdateType
  <2> QED  BY <1>a, <2>2 DEF Update
<1>5. new \notin DOMAIN hdr
  <2>1. ASSUME new \in DOMAIN hdr PROVE FALSE
    <3>1. new >= End(hdr, a)
      BY <1>a, <1>2, <2>1, LaidSpec
    <3> QED  BY <1>a, <1>2, <3>1
  <2> QED  BY <2>1
<1>6. /\ h \in [DOMAIN hdr \cup {new} -> Headers]
      /\ h[new] = rest /\ h[a] = Block(TRUE, new - a)
      /\ \A b \in DOMAIN hdr : b # a => h[b] = hdr[b]
  <2> HIDE DEF h1, rest
  <2>1. h \in [DOMAIN h1 \cup {new} -> Headers]
    BY <1>3, <1>4, UpdateType
  <2> QED  BY <1>2, <1>4, <1>5, <1>a, <2>1 DEF Update
<1>7. /\ DOMAIN f = DOMAIN ftr \cup {new - FTR}
      /\ f[new - FTR] = a /\ f[End(hdr, a) - FTR] = new
      /\ \A x \in DOMAIN ftr : x # End(hdr, a) - FTR => f[x] = ftr[x]
  <2>1. End(hdr, a) - FTR \in DOMAIN ftr
    BY <1>a, FooterOf
  <2>2. new - FTR # End(hdr, a) - FTR
    BY <1>a, <1>2, SMTT(30) DEF FTR
  <2>3. new - FTR \notin DOMAIN ftr
    <3> SUFFICES ASSUME new - FTR \in DOMAIN ftr PROVE FALSE
      OBVIOUS
    <3>1. PICK b \in DOMAIN hdr : new - FTR = End(hdr, b) - FTR
      BY DEF Footed
    <3>2. End(hdr, b) = new
      <4>1. End(hdr, b) \in Nat
        BY LaidSpec
      <4> QED  BY <1>2, <3>1, <4>1 DEF FTR
    <3>3. End(hdr, b) \in DOMAIN hdr \cup {e}
      BY DEF Laid
    <3> QED  BY <1>2, <1>5, <1>a, <3>2, <3>3
  <2>4. DOMAIN f1 = DOMAIN ftr /\ f1[End(hdr, a) - FTR] = new
        /\ \A x \in DOMAIN ftr : x # End(hdr, a) - FTR => f1[x] = ftr[x]
    BY <2>1 DEF Update
  <2> HIDE DEF f1
  <2> QED  BY <2>1, <2>2, <2>3, <2>4 DEF Update
<1>8. h[new].size = End(hdr, a) - new /\ h[a].size = new - a /\ h[new].hole /\ h[a].hole
  <2>1. h[new] = Block(TRUE, hdr[a].size - (new - a)) /\ h[a] = Block(TRUE, new - a)
    BY <1>6
  <2> HIDE DEF h
  <2>2. /\ h[new].size = hdr[a].size - (new - a) /\ h[a].size = new - a
        /\ h[new].hole /\ h[a].hole
    BY <2>1 DEF Block
  <2> QED  BY <1>a, <1>2, <2>2
<1> HIDE DEF rest, h1, h, f1, f, s0
<1>9. Cut(hdr, ftr, h, f, a, new)
  BY <1>6, <1>7, <1>8 DEF Cut
<1>10. /\ Laid(h, e) /\ Footed(h, f) /\ DOMAIN h = DOMAIN hdr \cup {new}
       /\ End(h, a) = new /\ End(h, new) = End(hdr, a)
       /\ \A b \in DOMAIN hdr : b # a => End(h, b) = End(hdr, b) /\ h[b] = hdr[b]
  <2>1. new \in Nat /\ new >= a + 5 /\ new + 5 <= End(hdr, a) /\ a \in DOMAIN hdr
    BY <1>a, <1>2
  <2>2. new \in Nat
    BY <2>1
  <2>3. a \in DOMAIN hdr
    BY <2>1
  <2>4. new >= a + 5
    BY <2>1
  <2>5. new + 5 <= End(hdr, a)
    BY <2>1
  <2>6. Laid(h, e) /\ Footed(h, f)
    BY <1>9, <2>2, <2>3, <2>4, <2>5, CutLaid
  <2>7. End(h, a) = new /\ End(h, new) = End(hdr, a)
    <3>1. End(h, a) = a + (new - a) /\ End(h, new) = new + (End(hdr, a) - new)
      BY <1>8 DEF End
    <3>2. a \in Nat /\ End(hdr, a) \in Nat
      BY <1>a
    <3> QED  BY <2>2, <3>1, <3>2
  <2>8. ASSUME NEW b \in DOMAIN hdr, b # a PROVE End(h, b) = End(hdr, b) /\ h[b] = hdr[b]
    BY <1>6, <2>8 DEF End
  <2>9. DOMAIN h = DOMAIN hdr \cup {new}
    BY <1>6
  <2> QED  BY <2>6, <2>7, <2>8, <2>9
<1>11. HolesOf(h) = HolesOf(hdr) \cup {new}
  BY <1>8, <1>10, <1>a, <1>5 DEF HolesOf
<1>12. Held(h, owned)
  <2>1. DOMAIN h \ HolesOf(h) = DOMAIN hdr \ HolesOf(hdr)
    BY <1>5, <1>10, <1>11
  <2>2. \A b \in DOMAIN hdr \ HolesOf(hdr) : End(h, b) = End(hdr, b) /\ End(hdr, b) \in Nat
    BY <1>1, <1>10, LaidSpec
  <2>3. \A b \in DOMAIN hdr \ HolesOf(hdr) : End(h, b) >= End(hdr, b)
    BY <2>2
  <2> QED  BY <1>10, <2>1, <2>3, HeldAgain
<1>13. Indexes(s, HolesOf(h) \ {new}, h)
  <2>1. HolesOf(h) \ {new} = HolesOf(hdr) /\ HolesOf(hdr) \subseteq DOMAIN h
    BY <1>5, <1>10, <1>11 DEF HolesOf
  <2>2. Indexes(s0, HolesOf(hdr), h)
    <3>1. Items(s0) \subseteq HolesOf(hdr) /\ Items(s0) \subseteq DOMAIN hdr /\ Items(s0) \subseteq DOMAIN h
      BY <1>1, <2>1 DEF HolesOf
    <3>2. \A b \in Items(s0) : h[b].size = hdr[b].size
      BY <1>1, <1>10 DEF HolesOf
    <3> QED  BY <1>1, <3>1, <3>2, IndexesAgain
  <2>3. h \in [DOMAIN h -> Headers]
    BY <1>6, <1>10
  <2>4. a \in HolesOf(hdr) /\ a \notin Items(s0)
    BY <1>1
  <2>5. Indexes(s, HolesOf(hdr), h)
    BY <2>1, <2>2, <2>3, <2>4, OarrayAddSound
  <2> QED  BY <2>1, <2>5
<1>14. Merged(h, new)
  <2> SUFFICES ASSUME NEW b \in HolesOf(h), End(h, b) \in HolesOf(h), End(h, b) # new
               PROVE  End(h, b) % PAGE = 0
    BY DEF Merged
  <2>1. End(h, b) \in HolesOf(hdr)
    BY <1>11
  <2>2. End(h, b) # e
    BY <2>1, LaidSpec DEF HolesOf
  <2>3. PICK c \in HolesOf(hdr) : End(h, b) = End(hdr, c)
    <3>1. CASE b = new
      BY <1>1, <1>10, <3>1
    <3>2. CASE b # new
      <4>1. b \in HolesOf(hdr) /\ b # a
        BY <1>10, <1>11, <3>2
      <4> QED  BY <1>10, <4>1 DEF HolesOf
    <3> QED  BY <3>1, <3>2
  <2> QED  BY <2>1, <2>2, <2>3 DEF Merged
<1>15. new \in HolesOf(h) /\ h[new].size >= SizeHF
  BY <1>2, <1>8, <1>11, <1>a, <1>b, SMTT(30)
<1>16. (new + HDR) % PAGE = 0
  BY <1>2, <1>c
<1> QED  BY <1>0, <1>2, <1>10, <1>12, <1>13, <1>14, <1>15, <1>16 DEF s, s0

-----------------------------------------------------------------------------
(* A heap in order is well typed. *)
LEMMA InOrderType ==
    ASSUME NEW h, NEW f, NEW s, NEW o, NEW e, InOrder(h, f, s, o, e), e <= LastEnd
    PROVE  /\ DOMAIN h \subseteq START .. LastEnd
           /\ h \in [DOMAIN h -> [hole : BOOLEAN, size : 1 .. LastEnd - START]]
           /\ DOMAIN f \subseteq START .. LastEnd
           /\ f \in [DOMAIN f -> START .. LastEnd]
           /\ s \in Seq(START .. LastEnd)
           /\ Len(s) <= MAX_SIZE
           /\ DOMAIN o \subseteq START .. LastEnd
<1>a. /\ Laid(h, e) /\ Footed(h, f) /\ Held(h, o) /\ Indexes(s, HolesOf(h), h)
      /\ f = [x \in DOMAIN f |-> f[x]]
  BY DEF InOrder
<1>b. START \in Nat /\ LastEnd \in Int /\ PAGE \in Nat
  BY HeapAssumption DEF LastEnd
<1>1. ASSUME NEW a \in DOMAIN h
      PROVE  /\ a \in START .. LastEnd
             /\ h[a] \in [hole : BOOLEAN, size : 1 .. LastEnd - START]
             /\ End(h, a) - FTR \in START .. LastEnd
  <2>1. /\ a \in Nat /\ START <= a /\ a < e /\ e \in Nat
        /\ h[a] \in Headers /\ h[a].size \in Nat /\ h[a].size >= 5
        /\ End(h, a) = a + h[a].size /\ End(h, a) <= e
    BY <1>a, LaidSpec
  <2>2. h[a].size \in 1 .. LastEnd - START
    BY <1>b, <2>1
  <2>3. End(h, a) - FTR \in START .. LastEnd
    BY <1>b, <2>1 DEF FTR
  <2>4. a \in START .. LastEnd
    BY <1>b, <2>1
  <2> QED  BY <2>1, <2>2, <2>3, <2>4 DEF Headers
<1>2. h \in [DOMAIN h -> [hole : BOOLEAN, size : 1 .. LastEnd - START]]
  <2>1. h \in [DOMAIN h -> Headers]
    BY <1>a DEF Laid
  <2> QED  BY <1>1, <2>1
<1>3. ASSUME NEW x \in DOMAIN f PROVE x \in START .. LastEnd /\ f[x] \in START .. LastEnd
  <2>1. x = End(h, f[x]) - FTR /\ f[x] \in DOMAIN h
    <3>1. START \in DOMAIN h
      BY <1>a DEF Laid
    <3> QED  BY <1>a, <3>1, FooterOf
  <2> QED  BY <1>1, <2>1
<1>4. f \in [DOMAIN f -> START .. LastEnd]
  BY <1>a, <1>3
<1>5. s \in Seq(START .. LastEnd) /\ Len(s) <= MAX_SIZE
  <2>1. s \in Seq(HolesOf(h)) /\ Len(s) <= MAX_SIZE
    BY <1>a DEF Indexes
  <2>2. Items(s) \subseteq START .. LastEnd
    <3>1. Items(s) \subseteq HolesOf(h)
      BY <2>1, ItemsType
    <3> QED  BY <1>1, <3>1 DEF HolesOf
  <2> QED  BY <2>1, <2>2, ItemsType
<1>6. ASSUME NEW p \in DOMAIN o PROVE p \in START .. LastEnd
  <2>1. /\ p \in Nat /\ o[p] \in Nat
        /\ p - HDR \in DOMAIN h /\ p + o[p] <= End(h, p - HDR) - FTR
    BY <1>a, HeldSpec
  <2>2. p - HDR \in START .. LastEnd /\ End(h, p - HDR) - FTR \in START .. LastEnd
    BY <1>1, <2>1
  <2> QED  BY <1>b, <2>1, <2>2 DEF HDR
<1> QED  BY <1>1, <1>2, <1>3, <1>4, <1>5, <1>6

(* Where heap->end is. *)
LEMMA EndSpec ==
    ASSUME HInv
    PROVE  /\ heap_end \in Nat /\ heap_end >= FirstEnd /\ heap_end <= LastEnd
           /\ free_pages \in Nat /\ mapped \in Nat
           /\ START \in Nat /\ LastEnd \in Nat /\ PAGE \in Nat /\ PAGE > 0 /\ FirstEnd \in Nat
<1>1. /\ START \in Nat /\ PAGE \in Nat /\ PAGE > 0 /\ FirstEnd \in Nat /\ FreePages \in Nat
  BY HeapAssumption
<1>2. LastEnd \in Nat
  BY <1>1 DEF LastEnd
<1>3. heap_end \in FirstEnd .. LastEnd /\ free_pages \in 0 .. FreePages /\ mapped \in 0 .. FreePages
  BY DEF HInv, TypeOK
<1> QED  BY <1>1, <1>2, <1>3

(* The request being served. *)
LEMMA CallSpec ==
    ASSUME HInv, call # Idle
    PROVE  /\ call \in Requests /\ call[1] \in Nat /\ call[1] > 0 /\ call[2] \in BOOLEAN
           /\ SizeHF \in Nat /\ SizeHF >= 5
<1>1. call \in Requests
  BY DEF HInv, TypeOK
<1>2. call \in (Nat \ {0}) \X BOOLEAN
  BY <1>1, HeapAssumption
<1> QED  BY <1>1, <1>2 DEF SizeHF, HDR, FTR

(* Memory is granted: the largest step of all.  A hole is found, perhaps   *)
(* cut at a page boundary, and given away; the rest becomes a hole.        *)
Granted(p, r) ==
    /\ p \in START .. LastEnd /\ p \notin DOMAIN owned
    /\ r \in Requests
    /\ r[2] => p % PAGE = 0
    /\ owned' = Update(owned, p, r[1])

LEMMA AllocFoundInv ==
    ASSUME HInv, NoSmallPiece, AllocFound
    PROVE  HInv' /\ \E p : Granted(p, call)
<1>0. /\ call # Idle /\ call' = Idle
      /\ heap_end' = heap_end /\ free_pages' = free_pages /\ mapped' = mapped /\ heap_err' = heap_err
  BY DEF AllocFound
<1>a. call \in Requests /\ call[1] \in Nat /\ call[1] > 0 /\ SizeHF \in Nat
  BY <1>0, CallSpec
<1>b. /\ Laid(hdr, heap_end) /\ Footed(hdr, ftr) /\ Held(hdr, owned)
      /\ Indexes(index, HolesOf(hdr), hdr) /\ Merged(hdr, heap_end)
      /\ ftr = [x \in DOMAIN ftr |-> ftr[x]]
  BY DEF HInv, InOrder
<1>1. PICK i \in 1 .. Len(index) :
         LET a == index[i]
             new == NextPage(a) - HDR
             rest == RemoveAt(index, i)
         IN  /\ Fits(a)
             /\ IF MustAlign(a)
                THEN Give(AlignHdr(a, new), AlignFtr(a, new), AlignIndex(rest, a, new), new)
                ELSE Give(hdr, ftr, rest, a)
  BY DEF AllocFound
<1> DEFINE a == index[i]
           new == NextPage(a) - HDR
           rest == RemoveAt(index, i)
<1>2. /\ a \in HolesOf(hdr) /\ a \in Items(index) /\ Indexes(rest, HolesOf(hdr), hdr)
      /\ Items(rest) \subseteq Items(index) \ {a} /\ Items(index) \subseteq HolesOf(hdr)
  <2>1. Items(index) \subseteq HolesOf(hdr)
    BY <1>b, ItemsType DEF Indexes
  <2>2. a \in Items(index)
    BY DEF Items
  <2> QED  BY <1>b, <2>1, <2>2, IndexesRemoved
<1>3. a \in DOMAIN hdr /\ a \in Nat /\ a >= START
  BY <1>2, <1>b, LaidSpec DEF HolesOf
<1>4. \E b : /\ InOrder(hdr', ftr', index', owned', heap_end)
             /\ b \in Nat /\ b \in DOMAIN hdr' /\ b + HDR \notin DOMAIN owned
             /\ owned' = Update(owned, b + HDR, call[1])
             /\ call[2] => (b + HDR) % PAGE = 0
  <2>1. CASE MustAlign(a)
    <3> DEFINE h == AlignHdr(a, new)
               f == AlignFtr(a, new)
               s == AlignIndex(rest, a, new)
    <3>1. Give(h, f, s, new) /\ Fits(a)
      BY <1>1, <2>1
    <3>2. new - a > HDR + FTR
      BY <1>2, <2>1, <3>1 DEF NoSmallPiece
    <3>3. /\ Laid(h, heap_end) /\ Footed(h, f) /\ Held(h, owned)
          /\ new \in HolesOf(h) /\ new \in Nat /\ h[new].size >= SizeHF
          /\ Indexes(s, HolesOf(h) \ {new}, h) /\ Merged(h, new)
          /\ (new + HDR) % PAGE = 0
      <4> HIDE DEF new
      <4>1. new = NextPage(a) - HDR
        BY DEF new
      <4> QED  BY <1>a, <1>b, <2>1, <3>1, <3>2, <4>1, AlignSound
    <3>4. f = [x \in DOMAIN f |-> f[x]]
      BY DEF AlignFtr, Update, Forget
    <3> HIDE DEF h, f, s, new
    <3>5. /\ Laid(hdr', heap_end) /\ Footed(hdr', ftr') /\ Held(hdr', owned')
          /\ Indexes(index', HolesOf(hdr'), hdr') /\ Merged(hdr', heap_end)
          /\ new + HDR \notin DOMAIN owned
          /\ owned' = Update(owned, new + HDR, call[1])
          /\ new \in DOMAIN hdr'
      BY <1>a, <3>1, <3>3, GiveSound
    <3>6. ftr' = [x \in DOMAIN ftr' |-> ftr'[x]]
      BY <3>1, <3>4 DEF Give, Update
    <3> QED  BY <3>3, <3>5, <3>6 DEF InOrder
  <2>2. CASE ~MustAlign(a)
    <3>1. Give(hdr, ftr, rest, a) /\ Fits(a)
      BY <1>1, <2>2
    <3>2. hdr[a].size >= SizeHF
      BY <3>1 DEF Fits
    <3>3. Merged(hdr, a)
      <4> SUFFICES ASSUME NEW b \in HolesOf(hdr), End(hdr, b) \in HolesOf(hdr)
                   PROVE  End(hdr, b) % PAGE = 0
        BY DEF Merged
      <4>1. End(hdr, b) # heap_end
        BY <1>b, LaidSpec DEF HolesOf
      <4> QED  BY <1>b, <4>1 DEF Merged
    <3>4. Indexes(rest, HolesOf(hdr) \ {a}, hdr)
      <4>1. Items(rest) \subseteq HolesOf(hdr) \ {a} /\ Items(rest) \subseteq DOMAIN hdr
        BY <1>2 DEF HolesOf
      <4> QED  BY <1>2, <4>1, IndexesAgain
    <3> HIDE DEF a, rest
    <3>5. /\ Laid(hdr', heap_end) /\ Footed(hdr', ftr') /\ Held(hdr', owned')
          /\ Indexes(index', HolesOf(hdr'), hdr') /\ Merged(hdr', heap_end)
          /\ a + HDR \notin DOMAIN owned
          /\ owned' = Update(owned, a + HDR, call[1])
          /\ a \in DOMAIN hdr'
      BY <1>2, <1>a, <1>b, <3>1, <3>2, <3>3, <3>4, GiveSound
    <3>6. ftr' = [x \in DOMAIN ftr' |-> ftr'[x]]
      BY <1>b, <3>1 DEF Give, Update
    <3>7. ~call[2]
      BY <1>3, <2>2, NextPageSpec
    <3> QED  BY <1>3, <3>5, <3>6, <3>7 DEF InOrder
  <2> QED  BY <2>1, <2>2
<1>5. PICK b : /\ InOrder(hdr', ftr', index', owned', heap_end)
               /\ b \in Nat /\ b \in DOMAIN hdr' /\ b + HDR \notin DOMAIN owned
               /\ owned' = Update(owned, b + HDR, call[1])
               /\ call[2] => (b + HDR) % PAGE = 0
  BY <1>4
<1>6. /\ DOMAIN hdr' \subseteq START .. LastEnd
      /\ hdr' \in [DOMAIN hdr' -> [hole : BOOLEAN, size : 1 .. LastEnd - START]]
      /\ DOMAIN ftr' \subseteq START .. LastEnd
      /\ ftr' \in [DOMAIN ftr' -> START .. LastEnd]
      /\ index' \in Seq(START .. LastEnd)
      /\ Len(index') <= MAX_SIZE
      /\ DOMAIN owned' \subseteq START .. LastEnd
  BY <1>5, EndSpec, InOrderType
<1>7. TypeOK'
  BY <1>0, <1>6 DEF HInv, TypeOK
<1>8. HInv'
  BY <1>0, <1>5, <1>7 DEF HInv
<1>9. b + HDR \in START .. LastEnd
  BY <1>5, <1>6 DEF Update
<1> QED  BY <1>5, <1>8, <1>9, <1>a DEF Granted

(* Initially there is one block. *)
LEMMA HInvInit == Init => HInv
<1> SUFFICES ASSUME Init PROVE HInv
  OBVIOUS
<1>a. /\ PAGE \in Nat /\ PAGE > 0 /\ START \in Nat /\ FirstEnd \in Nat /\ FirstEnd % PAGE = 0
      /\ START + 5 < FirstEnd /\ FreePages \in Nat /\ MAX_SIZE \in Nat /\ MAX_SIZE > 0
  <2>1. START + HDR + FTR < FirstEnd
    BY HeapAssumption
  <2> QED  BY <2>1, HeapAssumption DEF HDR, FTR
<1>b. /\ hdr = [a \in {START} |-> Block(TRUE, FirstEnd - START)]
      /\ ftr = [a \in {FirstEnd - FTR} |-> START]
      /\ index = <<START>>
      /\ heap_end = FirstEnd
      /\ free_pages = FreePages /\ mapped = 0
      /\ owned = [p \in {} |-> 0]
      /\ call = Idle /\ heap_err = "none"
  BY DEF Init
<1>1. /\ DOMAIN hdr = {START} /\ hdr[START].hole /\ hdr[START].size = FirstEnd - START
      /\ hdr \in [DOMAIN hdr -> Headers]
  BY <1>a, <1>b DEF Block, Headers
<1>2. End(hdr, START) = FirstEnd
  BY <1>a, <1>1 DEF End
<1>3. Laid(hdr, FirstEnd)
  BY <1>a, <1>1, <1>2 DEF Laid, HDR, FTR
<1>4. Footed(hdr, ftr)
  BY <1>1, <1>2, <1>b DEF Footed
<1>5. HolesOf(hdr) = {START}
  BY <1>1 DEF HolesOf
<1>6. Held(hdr, owned)
  <2>1. DOMAIN owned = {} /\ owned \in [DOMAIN owned -> Nat]
    BY <1>b
  <2> QED  BY <1>1, <1>5, <2>1 DEF Held
<1>7. Indexes(index, HolesOf(hdr), hdr)
  <2>1. index \in Seq({START}) /\ Len(index) = 1
    BY <1>b
  <2>2. NoDuplicates(index) /\ Ordered(index, BySize(hdr))
    BY <2>1 DEF NoDuplicates, Ordered
  <2> QED  BY <1>5, <1>a, <2>1, <2>2 DEF Indexes
<1>8. Merged(hdr, FirstEnd)
  BY <1>2, <1>5 DEF Merged
<1>9. ftr = [x \in DOMAIN ftr |-> ftr[x]]
  BY <1>b
<1>10. InOrder(hdr, ftr, index, owned, heap_end)
  BY <1>3, <1>4, <1>6, <1>7, <1>8, <1>9, <1>b DEF InOrder
<1>11. heap_end + (free_pages + mapped) * PAGE <= LastEnd /\ FirstEnd <= LastEnd /\ LastEnd \in Nat
  <2>1. free_pages + mapped = FreePages
    BY <1>a, <1>b
  <2>2. FreePages * PAGE \in Nat
    BY <1>a
  <2> QED  BY <1>a, <1>b, <2>1, <2>2 DEF LastEnd
<1>12. TypeOK
  <2>1. heap_end <= LastEnd
    BY <1>11, <1>b
  <2>2. /\ DOMAIN hdr \subseteq START .. LastEnd
        /\ hdr \in [DOMAIN hdr -> [hole : BOOLEAN, size : 1 .. LastEnd - START]]
        /\ DOMAIN ftr \subseteq START .. LastEnd
        /\ ftr \in [DOMAIN ftr -> START .. LastEnd]
        /\ index \in Seq(START .. LastEnd)
        /\ Len(index) <= MAX_SIZE
        /\ DOMAIN owned \subseteq START .. LastEnd
    BY <1>10, <2>1, InOrderType
  <2>3. heap_end \in FirstEnd .. LastEnd
    BY <1>11, <1>a, <1>b
  <2>4. free_pages \in 0 .. FreePages /\ mapped \in 0 .. FreePages
    BY <1>a, <1>b
  <2>5. call \in Requests \cup {Idle} /\ heap_err \in {"none", "memory", "index", "corrupted"}
    BY <1>b
  <2> QED  BY <2>2, <2>3, <2>4, <2>5 DEF TypeOK
<1> QED  BY <1>10, <1>11, <1>12, <1>a, <1>b DEF HInv

(* The heap grows: a hole behind the last block, which starts on a page    *)
(* boundary.                                                               *)
LEMMA ExtendInv == ASSUME HInv, Extend PROVE HInv'
<1> DEFINE size == NewPages * PAGE
           h == Update(hdr, heap_end, Block(TRUE, size))
           f == Update(ftr, (heap_end + size) - FTR, heap_end)
           s == OarrayAdd(index, heap_end, h)
<1>a. /\ heap_end \in Nat /\ heap_end >= FirstEnd /\ heap_end <= LastEnd
      /\ free_pages \in Nat /\ mapped \in Nat
      /\ START \in Nat /\ LastEnd \in Nat /\ PAGE \in Nat /\ PAGE > 0 /\ FirstEnd \in Nat
  BY EndSpec
<1>b. call # Idle /\ mapped = 0 /\ free_pages >= NewPages
  BY DEF Extend, NoneFits, CanMap
<1>c. NewPages \in Nat /\ size \in Nat /\ size >= 5
  <2>1. SizeHF \in Nat /\ SizeHF >= 5
    BY <1>b, CallSpec
  <2>2. NewPages \in Nat /\ size \in Nat /\ size >= SizeHF
    BY <2>1, NewPagesSpec
  <2> QED  BY <2>1, <2>2
<1>d. /\ hdr' = h /\ index' = s /\ heap_end' = heap_end + size
      /\ free_pages' = free_pages - NewPages
      /\ mapped' = mapped /\ owned' = owned /\ call' = call /\ heap_err' = heap_err
  BY DEF Extend
<1>e. ftr' = f
  <2>1. heap_end + size - FTR = (heap_end + size) - FTR
    BY <1>a, <1>c DEF FTR
  <2> HIDE DEF size
  <2>2. ftr' = Update(ftr, heap_end + size - FTR, heap_end)
    BY DEF Extend, size
  <2> QED  BY <2>1, <2>2
<1>f. /\ Laid(hdr, heap_end) /\ Footed(hdr, ftr) /\ Held(hdr, owned)
      /\ Indexes(index, HolesOf(hdr), hdr) /\ Merged(hdr, heap_end)
      /\ heap_end % PAGE = 0
  BY DEF HInv, InOrder
<1>g. heap_end + size <= LastEnd /\ heap_end' + (free_pages' + mapped') * PAGE <= LastEnd
  <2>1. heap_end + (free_pages + mapped) * PAGE <= LastEnd
    BY DEF HInv
  <2>2. free_pages + mapped = (free_pages - NewPages) + NewPages /\ free_pages' + mapped' = free_pages - NewPages
    BY <1>a, <1>b, <1>c, <1>d
  <2>3. free_pages - NewPages \in Nat
    BY <1>a, <1>b, <1>c
  <2> DEFINE left == free_pages - NewPages
  <2>4. (free_pages + mapped) * PAGE = left * PAGE + NewPages * PAGE /\ left * PAGE \in Nat
    <3> HIDE DEF left
    <3>1. (left + NewPages) * PAGE = left * PAGE + NewPages * PAGE
      BY <1>a, <1>c, <2>3 DEF left
    <3>2. left * PAGE \in Nat
      BY <1>a, <2>3 DEF left
    <3>3. free_pages + mapped = left + NewPages
      BY <2>2 DEF left
    <3> QED  BY <3>1, <3>2, <3>3
  <2>5. heap_end' + (free_pages' + mapped') * PAGE = (heap_end + size) + left * PAGE
    BY <1>d, <2>2
  <2> HIDE DEF left, size
  <2>6. (free_pages + mapped) * PAGE = left * PAGE + size
    BY <2>4 DEF size
  <2> QED  BY <1>a, <1>c, <2>1, <2>4, <2>5, <2>6
<1>h. heap_end' % PAGE = 0
  BY <1>a, <1>c, <1>d, <1>f, PagesOn
<1>i. Block(TRUE, size) \in Headers /\ Block(TRUE, size).size = size /\ Block(TRUE, size).hole
  BY <1>c DEF Block, Headers
<1> HIDE DEF size
<1>1. heap_end \notin DOMAIN hdr /\ \A b \in DOMAIN hdr : End(hdr, b) <= heap_end /\ End(hdr, b) \in Nat
  BY <1>a, <1>f, LaidSpec
<1>2. /\ h \in [DOMAIN hdr \cup {heap_end} -> Headers]
      /\ h[heap_end] = Block(TRUE, size)
      /\ \A b \in DOMAIN hdr : h[b] = hdr[b]
  <2>1. hdr \in [DOMAIN hdr -> Headers]
    BY <1>f DEF Laid
  <2>2. h \in [DOMAIN hdr \cup {heap_end} -> Headers]
    BY <1>i, <2>1, UpdateType
  <2> QED  BY <1>1, <2>2 DEF Update
<1>3. Lengthened(hdr, ftr, h, f, heap_end, size)
  <2>1. h[heap_end].size = size
    BY <1>2, <1>i
  <2>2. /\ DOMAIN f = DOMAIN ftr \cup {(heap_end + size) - FTR}
        /\ f[(heap_end + size) - FTR] = heap_end
        /\ \A x \in DOMAIN ftr : x # (heap_end + size) - FTR => f[x] = ftr[x]
    BY DEF Update
  <2> HIDE DEF h, f
  <2> QED  BY <1>2, <2>1, <2>2 DEF Lengthened
<1>4. f = [x \in DOMAIN f |-> f[x]]
  BY DEF Update
<1> HIDE DEF h, f
<1>5. /\ Laid(h, heap_end + size) /\ Footed(h, f)
      /\ End(h, heap_end) = heap_end + size
      /\ \A b \in DOMAIN hdr : End(h, b) = End(hdr, b) /\ h[b] = hdr[b]
  BY <1>c, <1>f, <1>3, LengthenedLaid
<1>6. HolesOf(h) = HolesOf(hdr) \cup {heap_end} /\ DOMAIN h = DOMAIN hdr \cup {heap_end}
  BY <1>2, <1>i DEF HolesOf
<1>7. Held(h, owned)
  <2>1. DOMAIN h \ HolesOf(h) = DOMAIN hdr \ HolesOf(hdr)
    BY <1>1, <1>6
  <2>2. \A b \in DOMAIN hdr \ HolesOf(hdr) : End(h, b) >= End(hdr, b)
    BY <1>1, <1>5
  <2> QED  BY <1>5, <1>f, <2>1, <2>2, HeldAgain
<1>8. Indexes(s, HolesOf(h), h)
  <2>1. Items(index) \subseteq HolesOf(hdr)
    BY <1>f, ItemsType DEF Indexes
  <2>2. Indexes(index, HolesOf(h), h)
    <3>1. Items(index) \subseteq HolesOf(h) /\ Items(index) \subseteq DOMAIN hdr /\ Items(index) \subseteq DOMAIN h
      BY <1>6, <2>1 DEF HolesOf
    <3>2. \A b \in Items(index) : h[b].size = hdr[b].size
      BY <1>5, <3>1
    <3> QED  BY <1>f, <3>1, <3>2, IndexesAgain
  <2>3. heap_end \in HolesOf(h) /\ heap_end \notin Items(index) /\ HolesOf(h) \subseteq DOMAIN h
    BY <1>1, <1>6, <2>1 DEF HolesOf
  <2>4. h \in [DOMAIN h -> Headers]
    BY <1>5 DEF Laid
  <2> QED  BY <2>2, <2>3, <2>4, OarrayAddSound
<1>9. Merged(h, heap_end + size)
  <2> SUFFICES ASSUME NEW b \in HolesOf(h), End(h, b) \in HolesOf(h)
               PROVE  End(h, b) % PAGE = 0
    BY DEF Merged
  <2>1. b # heap_end
    BY <1>5, <1>6, <1>a, <1>c, LaidSpec DEF HolesOf
  <2>2. b \in HolesOf(hdr) /\ End(h, b) = End(hdr, b)
    BY <1>5, <1>6, <2>1 DEF HolesOf
  <2>3. CASE End(hdr, b) = heap_end
    BY <1>f, <2>2, <2>3
  <2>4. CASE End(hdr, b) # heap_end
    BY <1>6, <1>f, <2>2, <2>4 DEF Merged
  <2> QED  BY <2>3, <2>4
<1>10. InOrder(hdr', ftr', index', owned', heap_end')
  BY <1>4, <1>5, <1>7, <1>8, <1>9, <1>d, <1>e DEF InOrder
<1>11. /\ DOMAIN hdr' \subseteq START .. LastEnd
       /\ hdr' \in [DOMAIN hdr' -> [hole : BOOLEAN, size : 1 .. LastEnd - START]]
       /\ DOMAIN ftr' \subseteq START .. LastEnd
       /\ ftr' \in [DOMAIN ftr' -> START .. LastEnd]
       /\ index' \in Seq(START .. LastEnd)
       /\ Len(index') <= MAX_SIZE
  BY <1>10, <1>d, <1>g, InOrderType
<1>12. heap_end' \in FirstEnd .. LastEnd /\ free_pages' \in 0 .. FreePages
  <2>1. free_pages \in 0 .. FreePages /\ FreePages \in Nat
    BY HeapAssumption DEF HInv, TypeOK
  <2> QED  BY <1>a, <1>b, <1>c, <1>d, <1>g, <2>1
<1>13. TypeOK'
  BY <1>11, <1>12, <1>d DEF HInv, TypeOK
<1> QED  BY <1>10, <1>13, <1>d, <1>g, <1>h DEF HInv

(* What has room for some pages has room for fewer. *)
LEMMA FewerPages ==
    ASSUME NEW x \in Nat, NEW y \in Nat, x <= y, NEW n \in Nat, NEW last \in Nat,
           n + y * PAGE <= last
    PROVE  n + x * PAGE <= last
<1>1. PAGE \in Nat
  BY HeapAssumption
<1>2. y * PAGE = x * PAGE + (y - x) * PAGE /\ (y - x) * PAGE \in Nat /\ x * PAGE \in Nat
  BY <1>1
<1> QED  BY <1>2

(* The heap cannot grow.  Pages may be lost; the blocks stay. *)
LEMMA ExtendFailsInv ==
    ASSUME HInv, ExtendIndexFull \/ ExtendNoMemory
    PROVE  HInv'
<1>a. /\ heap_end \in Nat /\ free_pages \in Nat /\ mapped \in Nat
      /\ PAGE \in Nat /\ PAGE > 0 /\ LastEnd \in Nat
  BY EndSpec
<1>b. /\ free_pages \in 0 .. FreePages /\ mapped \in 0 .. FreePages /\ FreePages \in Nat
  BY HeapAssumption DEF HInv, TypeOK
<1>c. /\ hdr' = hdr /\ ftr' = ftr /\ index' = index /\ heap_end' = heap_end /\ owned' = owned
      /\ call' = Idle /\ heap_err' \in {"index", "memory"}
  BY DEF ExtendIndexFull, ExtendNoMemory, blocks
<1>1. /\ free_pages' \in 0 .. FreePages /\ mapped' \in 0 .. FreePages
      /\ free_pages' + mapped' <= free_pages + mapped
  <2>1. CASE ExtendIndexFull
    <3>1. SizeHF \in Nat
      BY <2>1, CallSpec DEF ExtendIndexFull, NoneFits
    <3>2. NewPages \in Nat
      BY <3>1, NewPagesSpec
    <3> QED  BY <1>b, <2>1, <3>2 DEF ExtendIndexFull, CanMap
  <2>2. CASE ExtendNoMemory
    <3>1. CASE mapped = 0
      <4>1. mapped' = free_pages /\ free_pages' = 0
        BY <2>2, <3>1 DEF ExtendNoMemory
      <4> QED  BY <1>b, <3>1, <4>1
    <3>2. CASE mapped # 0
      <4>1. mapped' = mapped /\ free_pages' = (IF free_pages = 0 THEN 0 ELSE free_pages - 1)
        BY <2>2, <3>2 DEF ExtendNoMemory
      <4> QED  BY <1>b, <4>1
    <3> QED  BY <3>1, <3>2
  <2> QED  BY <2>1, <2>2
<1>2. heap_end' + (free_pages' + mapped') * PAGE <= LastEnd
  <2>1. free_pages' \in Nat /\ mapped' \in Nat
    BY <1>b, <1>1
  <2>2. heap_end + (free_pages + mapped) * PAGE <= LastEnd
    BY DEF HInv
  <2>3. free_pages' + mapped' \in Nat /\ free_pages + mapped \in Nat
    <3>1. PICK u \in Nat, v \in Nat : free_pages' = u /\ mapped' = v
      BY <2>1
    <3>2. u + v \in Nat
      OBVIOUS
    <3>3. free_pages + mapped \in Nat
      BY <1>a
    <3> QED  BY <3>1, <3>2, <3>3
  <2> QED  BY <1>1, <1>a, <1>c, <2>2, <2>3, FewerPages
<1>3. TypeOK'
  BY <1>1, <1>c DEF HInv, TypeOK
<1> QED  BY <1>2, <1>3, <1>c DEF HInv

-----------------------------------------------------------------------------
(* Memory is returned.                                                     *)

(* The block a caller gives back, and what heap_free reads around it. *)
LEMMA MagicIsRight ==
    ASSUME HInv, NEW p \in DOMAIN owned
    PROVE  /\ MagicRight(p - HDR)
           /\ p - HDR \in DOMAIN hdr /\ p - HDR \notin HolesOf(hdr)
<1> DEFINE a == p - HDR
           next == End(hdr, a)
<1>a. Laid(hdr, heap_end) /\ Footed(hdr, ftr) /\ Held(hdr, owned)
  BY DEF HInv, InOrder
<1>1. a \in DOMAIN hdr /\ a \notin HolesOf(hdr)
  BY <1>a, HeldSpec
<1> HIDE DEF a
<1>2. next - FTR \in DOMAIN ftr
  BY <1>1, <1>a, FooterOf
<1>3. a > START => a - FTR \in DOMAIN ftr /\ ftr[a - FTR] \in DOMAIN hdr
  <2> SUFFICES ASSUME a > START PROVE a - FTR \in DOMAIN ftr /\ ftr[a - FTR] \in DOMAIN hdr
    OBVIOUS
  <2>1. a # START /\ a \in Nat /\ START \in Nat
    BY <1>1, <1>a, LaidSpec
  <2> QED  BY <1>1, <1>a, <2>1, FooterBefore
<1>4. next < heap_end => next \in DOMAIN hdr /\ End(hdr, next) - FTR \in DOMAIN ftr
  <2> SUFFICES ASSUME next < heap_end PROVE next \in DOMAIN hdr /\ End(hdr, next) - FTR \in DOMAIN ftr
    OBVIOUS
  <2>1. next # heap_end
    BY <1>1, <1>a, LaidSpec
  <2>2. next \in DOMAIN hdr
    BY <1>1, <1>a, <2>1, LaidSpec
  <2> HIDE DEF next
  <2> QED  BY <1>a, <2>2, FooterOf
<1> QED  BY <1>1, <1>2, <1>3, <1>4 DEF MagicRight, a

(* The blocks around a: those in front of and behind it, when holes, are   *)
(* what a is merged with, and nothing else is.                             *)
FreeFirst(a) == IF MergesPrev(a) THEN Prev(a) ELSE a
FreeEnd(a) == IF MergesNext(a) THEN End(hdr, End(hdr, a)) ELSE End(hdr, a)
FreeGone(a) == (IF MergesPrev(a) THEN {a} ELSE {}) \cup (IF MergesNext(a) THEN {End(hdr, a)} ELSE {})

LEMMA FreeAround ==
    ASSUME HInv, NEW a \in DOMAIN hdr, a \notin HolesOf(hdr)
    PROVE  /\ FreeFirst(a) \in DOMAIN hdr /\ FreeEnd(a) \in DOMAIN hdr \cup {heap_end}
           /\ FreeFirst(a) < FreeEnd(a)
           /\ FreeGone(a) = {b \in DOMAIN hdr : FreeFirst(a) < b /\ b < FreeEnd(a)}
           /\ FreeGone(a) \ {a} \subseteq HolesOf(hdr)
           /\ FreeFirst(a) # a => FreeFirst(a) \in HolesOf(hdr)
           /\ a \in FreeGone(a) \cup {FreeFirst(a)}
           /\ FreeFirst(a) \notin FreeGone(a)
           /\ \A b \in HolesOf(hdr) : End(hdr, b) = FreeFirst(a) => FreeFirst(a) % PAGE = 0
           /\ FreeEnd(a) \in HolesOf(hdr) => FreeEnd(a) % PAGE = 0
<1> DEFINE next == End(hdr, a)
           first == FreeFirst(a)
           end == FreeEnd(a)
           gone == FreeGone(a)
<1>a. Laid(hdr, heap_end) /\ Footed(hdr, ftr) /\ Merged(hdr, heap_end) /\ heap_end % PAGE = 0
  BY DEF HInv, InOrder
<1>b. /\ a \in Nat /\ START <= a /\ START \in Nat /\ next \in Nat /\ next >= a + 5
      /\ next <= heap_end /\ heap_end \in Nat
      /\ (next # heap_end => next \in DOMAIN hdr)
      /\ \A b \in DOMAIN hdr : b > a => b >= next
  BY <1>a, LaidSpec
<1>c. \A b \in DOMAIN hdr : b \in Nat /\ b < heap_end /\ hdr[b].hole \in BOOLEAN
  BY <1>a, LaidSpec
<1>prev. ASSUME MergesPrev(a)
         PROVE  /\ first \in HolesOf(hdr) /\ first \in DOMAIN hdr /\ first < a /\ End(hdr, first) = a
                /\ \A b \in DOMAIN hdr : b > first => b >= a
  <2>1. a > START /\ hdr[Prev(a)].hole /\ first = Prev(a)
    BY <1>prev DEF MergesPrev, FreeFirst
  <2>2. a # START
    BY <1>b, <2>1
  <2>3. first \in DOMAIN hdr /\ first < a /\ End(hdr, first) = a
    BY <1>a, <2>1, <2>2, FooterBefore DEF Prev
  <2> HIDE DEF first
  <2>4. \A b \in DOMAIN hdr : b > first => b >= End(hdr, first)
    BY <1>a, <2>3, LaidSpec
  <2> QED  BY <2>1, <2>3, <2>4 DEF HolesOf
<1>next. ASSUME MergesNext(a)
         PROVE  /\ next \in HolesOf(hdr) /\ next \in DOMAIN hdr /\ end = End(hdr, next)
                /\ end > next /\ end \in Nat /\ end \in DOMAIN hdr \cup {heap_end}
                /\ \A b \in DOMAIN hdr : b > next => b >= end
  <2>1. next < heap_end /\ hdr[next].hole /\ end = End(hdr, next)
    BY <1>next DEF MergesNext, FreeEnd
  <2>2. next \in DOMAIN hdr
    BY <1>b, <2>1
  <2> HIDE DEF next, end
  <2>3. /\ End(hdr, next) >= next + 5 /\ End(hdr, next) \in Nat /\ next \in Nat
        /\ (End(hdr, next) # heap_end => End(hdr, next) \in DOMAIN hdr)
        /\ \A b \in DOMAIN hdr : b > next => b >= End(hdr, next)
    BY <1>a, <2>2, LaidSpec
  <2> QED  BY <2>1, <2>2, <2>3 DEF HolesOf
<1>np. ~MergesPrev(a) => first = a /\ gone = (IF MergesNext(a) THEN {next} ELSE {})
  BY DEF FreeFirst, FreeGone
<1>nn. ~MergesNext(a) => end = next /\ gone = (IF MergesPrev(a) THEN {a} ELSE {})
  BY DEF FreeEnd, FreeGone
<1>g. gone = (IF MergesPrev(a) THEN {a} ELSE {}) \cup (IF MergesNext(a) THEN {next} ELSE {})
  BY DEF FreeGone
<1> HIDE DEF first, end, gone, next
<1>1. /\ first \in DOMAIN hdr /\ first <= a /\ first \in Nat
      /\ (first # a => first \in HolesOf(hdr) /\ MergesPrev(a))
  <2>1. CASE MergesPrev(a)
    BY <1>b, <1>c, <1>prev, <2>1
  <2>2. CASE ~MergesPrev(a)
    BY <1>b, <1>np, <2>2
  <2> QED  BY <2>1, <2>2
<1>2. /\ end \in DOMAIN hdr \cup {heap_end} /\ next <= end /\ end \in Nat
      /\ (end # next => MergesNext(a))
  <2>1. CASE MergesNext(a)
    BY <1>b, <1>next, <2>1
  <2>2. CASE ~MergesNext(a)
    BY <1>b, <1>nn, <2>2
  <2> QED  BY <2>1, <2>2
<1>3. first < end
  BY <1>b, <1>1, <1>2
<1>4. gone = {b \in DOMAIN hdr : first < b /\ b < end}
  <2>1. ASSUME NEW b \in gone PROVE b \in DOMAIN hdr /\ first < b /\ b < end
    <3>1. CASE MergesPrev(a) /\ b = a
      BY <1>b, <1>prev, <1>2, <3>1
    <3>2. CASE MergesNext(a) /\ b = next
      BY <1>b, <1>next, <1>1, <3>2
    <3> QED  BY <1>g, <2>1, <3>1, <3>2
  <2>2. ASSUME NEW b \in DOMAIN hdr, first < b, b < end PROVE b \in gone
    <3>0. b \in Nat
      BY <1>c
    <3>1. CASE b < a
      <4>1. MergesPrev(a)
        BY <1>1, <2>2, <3>1, <1>b, <3>0
      <4> QED  BY <1>prev, <2>2, <3>1, <4>1, <1>b, <3>0
    <3>2. CASE b = a
      <4>1. MergesPrev(a)
        BY <1>np, <2>2, <3>2, <1>b
      <4> QED  BY <1>g, <3>2, <4>1
    <3>3. CASE b > a
      <4>1. b >= next
        BY <1>b, <3>3
      <4>2. MergesNext(a)
        BY <1>nn, <2>2, <4>1, <1>b, <3>0
      <4>3. b = next
        BY <1>next, <2>2, <4>1, <4>2, <1>b, <3>0
      <4> QED  BY <1>g, <4>2, <4>3
    <3> QED  BY <1>b, <3>0, <3>1, <3>2, <3>3
  <2> QED  BY <2>1, <2>2
<1>5. gone \ {a} \subseteq HolesOf(hdr)
  BY <1>g, <1>next
<1>6. a \in gone \cup {first}
  BY <1>g, <1>np
<1>7. first \notin gone
  BY <1>1, <1>4
<1>8. ASSUME NEW b \in HolesOf(hdr), End(hdr, b) = first PROVE first % PAGE = 0
  <2>0. b \in DOMAIN hdr
    BY DEF HolesOf
  <2>1. CASE MergesPrev(a)
    <3>1. first \in HolesOf(hdr) /\ first # heap_end
      BY <1>c, <1>prev, <2>1
    <3> QED  BY <1>8, <1>a, <3>1 DEF Merged
  <2>2. CASE ~MergesPrev(a)
    <3>1. first = a
      BY <1>np, <2>2
    <3>2. a # START
      <4>1. b < End(hdr, b) /\ START <= b /\ b \in Nat /\ End(hdr, b) \in Nat
        <5>1. b \in Nat /\ START <= b /\ End(hdr, b) \in Nat /\ End(hdr, b) >= b + 5
          BY <1>a, <2>0, LaidSpec
        <5> QED  BY <5>1
      <4> QED  BY <1>8, <1>b, <3>1, <4>1
    <3>3. ftr[a - FTR] \in DOMAIN hdr /\ End(hdr, ftr[a - FTR]) = a
      BY <1>a, <3>2, FooterBefore
    <3>4. ftr[a - FTR] = b
      BY <1>8, <1>a, <2>0, <3>1, <3>3, EndsDiffer
    <3>5. hdr[Prev(a)].hole
      BY <3>4 DEF HolesOf, Prev
    <3>6. a > START
      BY <1>b, <3>2
    <3> QED  BY <2>2, <3>5, <3>6 DEF MergesPrev
  <2> QED  BY <2>1, <2>2
<1>9. ASSUME end \in HolesOf(hdr) PROVE end % PAGE = 0
  <2>0. end \in DOMAIN hdr /\ hdr[end].hole /\ end < heap_end
    BY <1>9, <1>c DEF HolesOf
  <2>1. CASE MergesNext(a)
    <3>1. next \in HolesOf(hdr) /\ End(hdr, next) = end /\ end # heap_end
      BY <1>c, <1>next, <2>0, <2>1
    <3> QED  BY <1>9, <1>a, <3>1 DEF Merged
  <2>2. CASE ~MergesNext(a)
    <3>1. end = next
      BY <1>nn, <2>2
    <3>2. MergesNext(a)
      BY <2>0, <3>1 DEF MergesNext, next
    <3> QED  BY <2>2, <3>2
  <2> QED  BY <2>1, <2>2
<1> QED  BY <1>1, <1>2, <1>3, <1>4, <1>5, <1>6, <1>7, <1>8, <1>9 DEF first, end, gone

(* Block p - HDR, held until now, is a hole; what else is held stays. *)
LEMMA HeldLess ==
    ASSUME NEW h, NEW h2, NEW e, NEW o, Laid(h, e), Held(h, o), NEW p \in DOMAIN o,
           DOMAIN h2 \ HolesOf(h2) = (DOMAIN h \ HolesOf(h)) \ {p - HDR},
           \A b \in DOMAIN h2 \ HolesOf(h2) : End(h2, b) = End(h, b)
    PROVE  Held(h2, Forget(o, {p}))
<1> DEFINE o2 == Forget(o, {p})
<1>1. DOMAIN o2 = DOMAIN o \ {p} /\ \A q \in DOMAIN o2 : o2[q] = o[q]
  BY DEF Forget
<1>2. ASSUME NEW q \in DOMAIN o
      PROVE  /\ q \in Nat /\ o[q] \in Nat /\ (q # p => q - HDR # p - HDR)
             /\ q - HDR \in DOMAIN h \ HolesOf(h)
             /\ q + o[q] <= End(h, q - HDR) - FTR
  <2>1. q \in Nat /\ p \in Nat
    BY HeldSpec
  <2> QED  BY <2>1, HeldSpec DEF HDR
<1>3. o2 \in [DOMAIN o2 -> Nat] /\ DOMAIN o2 \subseteq Nat
  <2>1. \A q \in DOMAIN o \ {p} : o[q] \in Nat /\ q \in Nat
    BY <1>2
  <2>2. o2 \in [DOMAIN o \ {p} -> Nat]
    BY <2>1, ForgetType
  <2> HIDE DEF o2
  <2> QED  BY <1>1, <2>1, <2>2
<1> HIDE DEF o2
<1>4. DOMAIN h2 \ HolesOf(h2) = {q - HDR : q \in DOMAIN o2}
  <2>1. DOMAIN h \ HolesOf(h) = {q - HDR : q \in DOMAIN o}
    BY DEF Held
  <2>2. {q - HDR : q \in DOMAIN o} \ {p - HDR} = {q - HDR : q \in DOMAIN o2}
    BY <1>1, <1>2
  <2> QED  BY <2>1, <2>2
<1>5. ASSUME NEW q \in DOMAIN o2 PROVE q + o2[q] <= End(h2, q - HDR) - FTR
  <2>1. q \in DOMAIN o /\ o2[q] = o[q] /\ q # p
    BY <1>1
  <2>2. End(h2, q - HDR) = End(h, q - HDR)
    BY <1>2, <2>1
  <2> QED  BY <1>2, <2>1, <2>2
<1> QED  BY <1>3, <1>4, <1>5 DEF Held, o2

(* The block becomes a hole, joined with the holes around it. *)
LEMMA FreeJoins ==
    ASSUME HInv, NEW a \in DOMAIN hdr, a \notin HolesOf(hdr), FreeBlock(a)
    PROVE  /\ Joined(hdr, ftr, hdr', ftr', FreeFirst(a), FreeEnd(a))
           /\ hdr'[FreeFirst(a)].hole
           /\ ftr' = [x \in DOMAIN ftr' |-> ftr'[x]]
<1> DEFINE first == FreeFirst(a)
           end == FreeEnd(a)
           gone == FreeGone(a)
           h == Update(hdr, first, Block(TRUE, end - first))
           f == Update(ftr, end - FTR, first)
<1>a. /\ first \in DOMAIN hdr /\ end \in DOMAIN hdr \cup {heap_end} /\ first < end
      /\ gone = {b \in DOMAIN hdr : first < b /\ b < end} /\ first \notin gone
  BY FreeAround
<1>b. hdr' = Forget(h, gone) /\ ftr' = Forget(f, {g - FTR : g \in gone})
  BY DEF FreeBlock, FreeFirst, FreeEnd, FreeGone
<1>c. Laid(hdr, heap_end)
  BY DEF HInv, InOrder
<1>d. \A b \in DOMAIN hdr : b \in Nat
  BY <1>c, LaidSpec
<1>e. first \in Nat /\ end \in Nat
  <2>1. heap_end \in Nat
    BY EndSpec
  <2> QED  BY <1>a, <1>d, <2>1
<1> HIDE DEF first, end, gone
<1>1. Block(TRUE, end - first) \in Headers
  BY <1>a, <1>e DEF Block, Headers
<1>2. h \in [DOMAIN hdr -> Headers] /\ h[first] = Block(TRUE, end - first)
      /\ \A b \in DOMAIN hdr : b # first => h[b] = hdr[b]
  <2>1. hdr \in [DOMAIN hdr -> Headers]
    BY <1>c DEF Laid
  <2>2. h \in [DOMAIN hdr \cup {first} -> Headers]
    BY <1>1, <2>1, UpdateType
  <2>3. DOMAIN hdr \cup {first} = DOMAIN hdr
    BY <1>a
  <2> QED  BY <1>a, <2>2, <2>3 DEF Update
<1> HIDE DEF h
<1>3. /\ hdr' \in [DOMAIN hdr \ gone -> Headers]
      /\ \A b \in DOMAIN hdr \ gone : hdr'[b] = h[b]
  <2>1. Forget(h, gone) \in [DOMAIN h \ gone -> Headers]
    BY <1>2, ForgetType
  <2> QED  BY <1>2, <1>b, <2>1 DEF Forget
<1>4. hdr'[first].size = end - first /\ hdr'[first].hole
  BY <1>2, <1>3, <1>a DEF Block
<1>5. end - FTR \notin {g - FTR : g \in gone}
  <2> SUFFICES ASSUME NEW g \in gone, end - FTR = g - FTR PROVE FALSE
    OBVIOUS
  <2>1. g \in Nat /\ g < end
    BY <1>a, <1>d
  <2> QED  BY <1>e, <2>1 DEF FTR
<1>6. /\ DOMAIN ftr' = (DOMAIN ftr \cup {end - FTR}) \ {g - FTR : g \in gone}
      /\ \A x \in DOMAIN ftr' : ftr'[x] = IF x = end - FTR THEN first ELSE ftr[x]
      /\ ftr' = [x \in DOMAIN ftr' |-> ftr'[x]]
  BY <1>b DEF Forget, Update
<1>7. ftr'[end - FTR] = first
  BY <1>5, <1>6
<1>8. Joined(hdr, ftr, hdr', ftr', first, end)
  BY <1>2, <1>3, <1>4, <1>6, <1>7, <1>a DEF Joined
<1> QED  BY <1>4, <1>6, <1>8 DEF first, end

(* What heap_free does to the index, of which only the holes a is merged   *)
(* with change.                                                            *)
LEMMA FreeIndexes ==
    ASSUME HInv, NEW a \in DOMAIN hdr, a \notin HolesOf(hdr), FreeBlock(a),
           hdr' \in [DOMAIN hdr' -> Headers],
           HolesOf(hdr') = (HolesOf(hdr) \ FreeGone(a)) \cup {FreeFirst(a)},
           \A b \in DOMAIN hdr' : b # FreeFirst(a) => hdr'[b] = hdr[b]
    PROVE  Indexes(index', HolesOf(hdr'), hdr')
<1> DEFINE next == End(hdr, a)
           first == FreeFirst(a)
           gone == FreeGone(a)
           gone1 == IF MergesPrev(a) THEN OarrayDelValue(index, Prev(a)) ELSE index
           left == IF MergesNext(a) THEN OarrayDelValue(gone1, next) ELSE gone1
<1>a. Indexes(index, HolesOf(hdr), hdr)
  BY DEF HInv, InOrder
<1>b. index' = OarrayAdd(left, first, hdr')
  BY DEF FreeBlock, FreeFirst
<1>1. /\ Indexes(gone1, HolesOf(hdr), hdr)
      /\ MergesPrev(a) => Prev(a) \notin Items(gone1)
  <2>1. CASE MergesPrev(a)
    <3>1. gone1 = OarrayDelValue(index, Prev(a))
      BY <2>1
    <3> HIDE DEF gone1
    <3> QED  BY <1>a, <3>1, IndexesRemoved
  <2>2. CASE ~MergesPrev(a)
    BY <1>a, <2>2
  <2> QED  BY <2>1, <2>2
<1> HIDE DEF gone1
<1>2. /\ Indexes(left, HolesOf(hdr), hdr)
      /\ MergesPrev(a) => Prev(a) \notin Items(left)
      /\ MergesNext(a) => next \notin Items(left)
  <2>1. CASE MergesNext(a)
    <3>1. left = OarrayDelValue(gone1, next)
      BY <2>1
    <3> HIDE DEF left, next
    <3>2. /\ Indexes(OarrayDelValue(gone1, next), HolesOf(hdr), hdr)
          /\ Items(OarrayDelValue(gone1, next)) \subseteq Items(gone1) \ {next}
      BY <1>1, IndexesRemoved
    <3> QED  BY <1>1, <3>1, <3>2
  <2>2. CASE ~MergesNext(a)
    BY <1>1, <2>2
  <2> QED  BY <2>1, <2>2
<1> HIDE DEF left
<1>3. Items(left) \subseteq HolesOf(hdr)
  BY <1>2, ItemsType DEF Indexes
<1>4. a \notin Items(left)
  BY <1>3
<1>5. /\ gone = (IF MergesPrev(a) THEN {a} ELSE {}) \cup (IF MergesNext(a) THEN {next} ELSE {})
      /\ first = (IF MergesPrev(a) THEN Prev(a) ELSE a)
  BY DEF FreeGone, FreeFirst
<1> HIDE DEF first, gone, next
<1>6. \A b \in Items(left) : b \notin gone /\ b # first
  BY <1>2, <1>4, <1>5
<1>7. Items(left) \subseteq HolesOf(hdr') /\ first \in HolesOf(hdr') /\ first \notin Items(left)
  BY <1>3, <1>6 DEF first, gone
<1>8. HolesOf(hdr) \subseteq DOMAIN hdr /\ HolesOf(hdr') \subseteq DOMAIN hdr'
  BY DEF HolesOf
<1>9. \A b \in Items(left) : hdr'[b].size = hdr[b].size
  <2> SUFFICES ASSUME NEW b \in Items(left) PROVE hdr'[b] = hdr[b]
    OBVIOUS
  <2>1. b \in DOMAIN hdr' /\ b # first
    BY <1>6, <1>7, <1>8
  <2> QED  BY <2>1 DEF first
<1>10. Indexes(left, HolesOf(hdr'), hdr')
  <2>1. Items(left) \subseteq DOMAIN hdr /\ Items(left) \subseteq DOMAIN hdr'
    BY <1>3, <1>7, <1>8
  <2> QED  BY <1>2, <1>7, <1>9, <2>1, IndexesAgain
<1> QED  BY <1>b, <1>7, <1>8, <1>10, OarrayAddSound

LEMMA FreeInv == ASSUME HInv, NEW p, Free(p) PROVE HInv'
<1> DEFINE a == p - HDR
           first == FreeFirst(a)
           end == FreeEnd(a)
           gone == FreeGone(a)
<1>a. /\ p \in DOMAIN owned /\ owned' = Forget(owned, {p})
      /\ heap_end' = heap_end /\ free_pages' = free_pages /\ mapped' = mapped /\ call' = call
  BY DEF Free
<1>b. a \in DOMAIN hdr /\ a \notin HolesOf(hdr) /\ MagicRight(a)
  BY <1>a, MagicIsRight
<1>c. FreeBlock(a)
  BY <1>b DEF Free
<1>d. /\ Laid(hdr, heap_end) /\ Footed(hdr, ftr) /\ Held(hdr, owned) /\ Merged(hdr, heap_end)
  BY DEF HInv, InOrder
<1>e. heap_end \in Nat /\ heap_end <= LastEnd
  BY EndSpec
<1> HIDE DEF a
<1>f. /\ first \in DOMAIN hdr /\ end \in DOMAIN hdr \cup {heap_end} /\ first < end
      /\ gone = {b \in DOMAIN hdr : first < b /\ b < end} /\ first \notin gone
      /\ gone \ {a} \subseteq HolesOf(hdr)
      /\ (first # a => first \in HolesOf(hdr))
      /\ a \in gone \cup {first}
      /\ \A b \in HolesOf(hdr) : End(hdr, b) = first => first % PAGE = 0
      /\ (end \in HolesOf(hdr) => end % PAGE = 0)
  BY <1>b, FreeAround
<1>g. /\ Joined(hdr, ftr, hdr', ftr', first, end) /\ hdr'[first].hole
      /\ ftr' = [x \in DOMAIN ftr' |-> ftr'[x]]
  BY <1>b, <1>c, FreeJoins
<1> HIDE DEF first, end, gone
<1>1. /\ Laid(hdr', heap_end) /\ Footed(hdr', ftr')
      /\ DOMAIN hdr' = DOMAIN hdr \ gone
      /\ End(hdr', first) = end
      /\ \A b \in DOMAIN hdr' : b # first => End(hdr', b) = End(hdr, b) /\ hdr'[b] = hdr[b]
  <2>1. /\ Laid(hdr', heap_end) /\ Footed(hdr', ftr')
        /\ \A b : b \in DOMAIN hdr' <=> b \in DOMAIN hdr /\ ~(first < b /\ b < end)
        /\ End(hdr', first) = end
        /\ \A b \in DOMAIN hdr' : b # first => End(hdr', b) = End(hdr, b) /\ hdr'[b] = hdr[b]
    <3>1. /\ Laid(hdr, heap_end) /\ Footed(hdr, ftr)
          /\ first \in DOMAIN hdr /\ end \in DOMAIN hdr \cup {heap_end} /\ first < end
          /\ Joined(hdr, ftr, hdr', ftr', first, end)
      BY <1>d, <1>f, <1>g
    <3> QED  BY <3>1, JoinedLaid
  <2>2. DOMAIN hdr' = DOMAIN hdr \ gone
    BY <1>f, <2>1
  <2> QED  BY <2>1, <2>2
<1>2. HolesOf(hdr') = (HolesOf(hdr) \ gone) \cup {first}
  BY <1>1, <1>f, <1>g DEF HolesOf
<1>3. DOMAIN hdr' \ HolesOf(hdr') = (DOMAIN hdr \ HolesOf(hdr)) \ {a}
  BY <1>1, <1>2, <1>b, <1>f
<1>4. Held(hdr', owned')
  <2>1. \A b \in DOMAIN hdr' \ HolesOf(hdr') : End(hdr', b) = End(hdr, b)
    BY <1>1, <1>2
  <2>2. DOMAIN hdr' \ HolesOf(hdr') = (DOMAIN hdr \ HolesOf(hdr)) \ {p - HDR}
    BY <1>3 DEF a
  <2>3. Held(hdr', Forget(owned, {p}))
    BY <1>a, <1>d, <2>1, <2>2, HeldLess
  <2> QED  BY <1>a, <2>3
<1>5. Indexes(index', HolesOf(hdr'), hdr')
  <2>1. hdr' \in [DOMAIN hdr' -> Headers]
    BY <1>1 DEF Laid
  <2>2. HolesOf(hdr') = (HolesOf(hdr) \ FreeGone(a)) \cup {FreeFirst(a)}
    BY <1>2 DEF first, gone
  <2>3. \A b \in DOMAIN hdr' : b # FreeFirst(a) => hdr'[b] = hdr[b]
    BY <1>1 DEF first
  <2> QED  BY <1>b, <1>c, <2>1, <2>2, <2>3, FreeIndexes
<1>6. Merged(hdr', heap_end)
  <2> SUFFICES ASSUME NEW b \in HolesOf(hdr'), End(hdr', b) \in HolesOf(hdr')
               PROVE  End(hdr', b) % PAGE = 0 \/ End(hdr', b) = heap_end
    BY DEF Merged
  <2>1. CASE b = first
    <3>1. end \in HolesOf(hdr') /\ end # first /\ End(hdr', b) = end
      <4>1. first \in Nat
        BY <1>d, <1>f, LaidSpec
      <4> QED  BY <1>1, <1>f, <2>1, <4>1
    <3>2. end \in HolesOf(hdr)
      BY <1>2, <3>1
    <3> QED  BY <1>f, <3>1, <3>2
  <2>2. CASE b # first
    <3>1. b \in HolesOf(hdr) /\ End(hdr', b) = End(hdr, b)
      BY <1>1, <1>2, <2>2 DEF HolesOf
    <3>2. CASE End(hdr, b) = first
      BY <1>f, <3>1, <3>2
    <3>3. CASE End(hdr, b) # first
      <4>1. End(hdr, b) \in HolesOf(hdr)
        BY <1>2, <3>1, <3>3
      <4> QED  BY <1>d, <3>1, <4>1 DEF Merged
    <3> QED  BY <3>2, <3>3
  <2> QED  BY <2>1, <2>2
<1>7. InOrder(hdr', ftr', index', owned', heap_end')
  BY <1>1, <1>4, <1>5, <1>6, <1>a, <1>g DEF InOrder
<1>8. /\ DOMAIN hdr' \subseteq START .. LastEnd
      /\ hdr' \in [DOMAIN hdr' -> [hole : BOOLEAN, size : 1 .. LastEnd - START]]
      /\ DOMAIN ftr' \subseteq START .. LastEnd
      /\ ftr' \in [DOMAIN ftr' -> START .. LastEnd]
      /\ index' \in Seq(START .. LastEnd)
      /\ Len(index') <= MAX_SIZE
      /\ DOMAIN owned' \subseteq START .. LastEnd
  <2>1. heap_end' <= LastEnd
    BY <1>a, <1>e
  <2> QED  BY <1>7, <2>1, InOrderType
<1>9. heap_err' \in {"none", "memory", "index", "corrupted"} /\ heap_err' # "corrupted"
  <2>1. heap_err' \in {"index", heap_err}
    BY <1>c DEF FreeBlock
  <2>2. heap_err \in {"none", "memory", "index", "corrupted"} /\ heap_err # "corrupted"
    BY DEF HInv, TypeOK
  <2> QED  BY <2>1, <2>2
<1>10. TypeOK'
  <2>1. TypeOK
    BY DEF HInv
  <2> QED  BY <1>8, <1>9, <1>a, <2>1 DEF TypeOK
<1> QED  BY <1>7, <1>9, <1>10, <1>a DEF HInv

(* A caller asks for memory. *)
LEMMA RequestInv == ASSUME HInv, NEW r \in Requests, Request(r) PROVE HInv'
<1>1. /\ hdr' = hdr /\ ftr' = ftr /\ index' = index /\ heap_end' = heap_end
      /\ free_pages' = free_pages /\ mapped' = mapped /\ owned' = owned /\ heap_err' = heap_err
      /\ call' = r
  BY DEF Request, blocks
<1>2. TypeOK'
  BY <1>1 DEF HInv, TypeOK
<1> QED  BY <1>1, <1>2 DEF HInv

LEMMA HInvStep ==
    ASSUME HInv, NoSmallPiece, [Next]_vars
    PROVE  HInv'
<1>1. CASE \E r \in Requests : Request(r)
  BY <1>1, RequestInv
<1>2. CASE AllocFound
  BY <1>2, AllocFoundInv
<1>3. CASE Extend
  BY <1>3, ExtendInv
<1>4. CASE ExtendIndexFull \/ ExtendNoMemory
  BY <1>4, ExtendFailsInv
<1>5. CASE \E p \in START .. LastEnd : Free(p)
  BY <1>5, FreeInv
<1>6. CASE UNCHANGED vars
  <2>1. /\ hdr' = hdr /\ ftr' = ftr /\ index' = index /\ heap_end' = heap_end
        /\ free_pages' = free_pages /\ mapped' = mapped /\ owned' = owned /\ heap_err' = heap_err
        /\ call' = call
    BY <1>6 DEF vars, blocks
  <2>2. TypeOK'
    BY <2>1 DEF HInv, TypeOK
  <2> QED  BY <2>1, <2>2 DEF HInv
<1> QED  BY <1>1, <1>2, <1>3, <1>4, <1>5, <1>6 DEF Next

-----------------------------------------------------------------------------
(* What the order of the heap is for. *)
LEMMA HInvTiled == ASSUME HInv PROVE Tiled
<1>1. TypeOK /\ Laid(hdr, heap_end) /\ Footed(hdr, ftr)
  BY DEF HInv, InOrder
<1> QED  BY <1>1 DEF Tiled, Laid, Footed

LEMMA HInvOwnedIntact == ASSUME HInv PROVE OwnedIntact
<1>1. Held(hdr, owned)
  BY DEF HInv, InOrder
<1> QED  BY <1>1 DEF OwnedIntact, Held, Holes, HolesOf

LEMMA HInvIndexSound == ASSUME HInv PROVE IndexSound
<1>1. Indexes(index, HolesOf(hdr), hdr)
  BY DEF HInv, InOrder
<1>2. Items(index) \subseteq HolesOf(hdr)
  BY <1>1, ItemsType DEF Indexes
<1> QED  BY <1>1, <1>2 DEF IndexSound, Indexes, Holes, HolesOf

LEMMA HInvHolesMerged == ASSUME HInv PROVE HolesMerged
<1>1. Merged(hdr, heap_end) /\ Laid(hdr, heap_end)
  BY DEF HInv, InOrder
<1> SUFFICES ASSUME NEW a \in Holes, End(hdr, a) \in Holes
             PROVE  End(hdr, a) % PAGE = 0
  BY DEF HolesMerged
<1>2. a \in HolesOf(hdr) /\ End(hdr, a) \in HolesOf(hdr)
  BY DEF Holes, HolesOf
<1>3. End(hdr, a) # heap_end
  <2>1. End(hdr, a) \in DOMAIN hdr
    BY <1>2 DEF HolesOf
  <2>2. \A b \in DOMAIN hdr : b < heap_end /\ b \in Nat
    BY <1>1, LaidSpec
  <2> QED  BY <2>1, <2>2
<1> QED  BY <1>1, <1>2, <1>3 DEF Merged

(* What heap_alloc grants overlaps nothing that is held: both are inside   *)
(* blocks of their own.                                                    *)
LEMMA GrantedIsGrant ==
    ASSUME HInv, HInv', NEW p, NEW r, Granted(p, r)
    PROVE  Allocator!Grant(p, r[1], r[2])
<1>a. Laid(hdr', heap_end') /\ Held(hdr', owned') /\ Held(hdr, owned)
  BY DEF HInv, InOrder
<1>b. /\ p \in START .. LastEnd /\ p \notin DOMAIN owned /\ (r[2] => p % PAGE = 0)
      /\ owned' = Update(owned, p, r[1])
  BY DEF Granted
<1>1. /\ DOMAIN owned' = DOMAIN owned \cup {p} /\ owned'[p] = r[1]
      /\ \A q \in DOMAIN owned' : owned'[q] = IF q = p THEN r[1] ELSE owned[q]
      /\ \A q \in DOMAIN owned : owned'[q] = owned[q]
  BY <1>b DEF Update
<1>inside. ASSUME NEW q \in DOMAIN owned'
           PROVE  /\ q \in Nat /\ owned'[q] \in Nat
                  /\ q - HDR \in DOMAIN hdr' /\ q - HDR \in Nat
                  /\ End(hdr', q - HDR) \in Nat
                  /\ q + owned'[q] <= End(hdr', q - HDR) - FTR
                  /\ \A b \in DOMAIN hdr' : b > q - HDR => b >= End(hdr', q - HDR)
  <2>1. /\ q \in Nat /\ owned'[q] \in Nat
        /\ q - HDR \in DOMAIN hdr'
        /\ q + owned'[q] <= End(hdr', q - HDR) - FTR
    BY <1>a, HeldSpec
  <2> QED  BY <1>a, <2>1, LaidSpec
<1>apart. ASSUME NEW q \in DOMAIN owned', NEW s \in DOMAIN owned', q < s
          PROVE  q + owned'[q] <= s
  <2>1. s - HDR > q - HDR
    BY <1>inside, <1>apart DEF HDR
  <2>2. s - HDR >= End(hdr', q - HDR)
    BY <1>inside, <2>1
  <2> QED  BY <1>inside, <2>2 DEF HDR, FTR
<1>2. ASSUME NEW q \in DOMAIN owned
      PROVE  p + r[1] <= q \/ q + owned[q] <= p
  <2>1. q \in DOMAIN owned' /\ p \in DOMAIN owned' /\ q # p /\ q \in Nat /\ p \in Nat
    BY <1>1, <1>b, <1>inside
  <2>2. CASE q < p
    <3>1. q + owned'[q] <= p
      BY <1>apart, <2>1, <2>2
    <3> QED  BY <1>1, <3>1
  <2>3. CASE p < q
    <3>1. p + owned'[p] <= q
      BY <1>apart, <2>1, <2>3
    <3> QED  BY <1>1, <3>1
  <2> QED  BY <2>1, <2>2, <2>3
<1>3. \A q \in DOMAIN owned : Allocator!Disjoint(p, r[1], q, owned[q])
  BY <1>2 DEF Allocator!Disjoint
<1> QED  BY <1>1, <1>3, <1>b DEF Allocator!Grant

(* Every step grants memory, returns some, or leaves it to its holders. *)
LEMMA StepIsMalloc ==
    ASSUME HInv, NoSmallPiece, HInv', [Next]_vars
    PROVE  [Allocator!MallocNext]_owned
<1>1. CASE \E r \in Requests : Request(r)
  BY <1>1 DEF Request
<1>2. CASE AllocFound
  <2>1. PICK p : Granted(p, call)
    BY <1>2, AllocFoundInv
  <2>2. p \in START .. LastEnd /\ call \in Requests
    BY <2>1 DEF Granted
  <2>3. Allocator!Grant(p, call[1], call[2])
    BY <2>1, GrantedIsGrant
  <2> QED  BY <2>2, <2>3 DEF Allocator!MallocNext
<1>3. CASE Extend \/ ExtendIndexFull \/ ExtendNoMemory
  BY <1>3 DEF Extend, ExtendIndexFull, ExtendNoMemory
<1>4. CASE \E p \in START .. LastEnd : Free(p)
  <2>1. PICK p : Free(p)
    BY <1>4
  <2>2. p \in DOMAIN owned /\ owned' = Forget(owned, {p})
    BY <2>1 DEF Free
  <2>3. Allocator!Return(p)
    BY <2>2 DEF Allocator!Return, Forget
  <2> QED  BY <2>2, <2>3 DEF Allocator!MallocNext
<1>5. CASE UNCHANGED vars
  BY <1>5 DEF vars
<1> QED  BY <1>1, <1>2, <1>3, <1>4, <1>5 DEF Next

(* The heap stays in order as long as no small piece is split off. *)
LEMMA HInvAlways == Spec /\ []NoSmallPiece => []HInv
<1>1. Init => HInv
  BY HInvInit
<1>2. HInv /\ NoSmallPiece /\ [Next]_vars => HInv'
  BY HInvStep
<1> QED  BY <1>1, <1>2, PTL DEF Spec

(* The blocks follow each other from heap->start to heap->end and each     *)
(* footer leads to its header, whatever is split, merged and extended.     *)
THEOREM TiledAlways == Spec /\ []NoSmallPiece => []Tiled
<1>1. HInv => Tiled
  BY HInvTiled
<1> QED  BY <1>1, HInvAlways, PTL

(* The blocks in use are those callers hold, and what a caller was given   *)
(* lies between its block's header and footer.                             *)
THEOREM OwnedIntactAlways == Spec /\ []NoSmallPiece => []OwnedIntact
<1>1. HInv => OwnedIntact
  BY HInvOwnedIntact
<1> QED  BY <1>1, HInvAlways, PTL

(* The index holds holes, each once, in the order of their sizes.          *)
THEOREM IndexSoundAlways == Spec /\ []NoSmallPiece => []IndexSound
<1>1. HInv => IndexSound
  BY HInvIndexSound
<1> QED  BY <1>1, HInvAlways, PTL

(* heap_free leaves no two holes next to each other, except where          *)
(* heap_extend put one behind the other.                                   *)
THEOREM HolesMergedAlways == Spec /\ []NoSmallPiece => []HolesMerged
<1>1. HInv => HolesMerged
  BY HInvHolesMerged
<1> QED  BY <1>1, HInvAlways, PTL

(* heap_free finds every magic number right. *)
THEOREM NeverCorrupted == Spec /\ []NoSmallPiece => [](heap_err # "corrupted")
<1>1. HInv => heap_err # "corrupted"
  BY DEF HInv
<1> QED  BY <1>1, HInvAlways, PTL

(* What kmalloc and kpalloc return is nobody else's, and on a page         *)
(* boundary when asked for: the heap implements the allocator its callers  *)
(* count on.                                                               *)
THEOREM HeapImplementsMalloc == Spec /\ []NoSmallPiece => ImplementsMalloc
<1>1. Init => Allocator!MallocInit
  BY DEF Init, Allocator!MallocInit
<1>2. HInv /\ NoSmallPiece /\ HInv' /\ [Next]_vars => [Allocator!MallocNext]_owned
  BY StepIsMalloc
<1> QED  BY <1>1, <1>2, HInvAlways, PTL DEF Spec, ImplementsMalloc, Allocator!MallocSpec

(* A heap that is never asked for whole pages splits off no small pieces,  *)
(* so for kmalloc and kfree alone all of this holds without exception.     *)
LEMMA NoPagesNoSmallPiece ==
    ASSUME \A r \in Requests : ~r[2], TypeOK
    PROVE  NoSmallPiece
<1>1. call \in Requests \cup {Idle}
  BY DEF TypeOK
<1>2. ~Idle[2]
  BY DEF Idle
<1>3. ~call[2]
  <2>1. CASE call \in Requests
    BY <2>1
  <2>2. CASE call = Idle
    BY <1>2, <2>2
  <2> QED  BY <1>1, <2>1, <2>2
<1> QED  BY <1>3 DEF NoSmallPiece, MustAlign

THEOREM KmallocImplementsMalloc ==
    ASSUME \A r \in Requests : ~r[2]
    PROVE  Spec => ImplementsMalloc /\ []Tiled /\ [](heap_err # "corrupted")
<1>1. Init => HInv
  BY HInvInit
<1>2. HInv => NoSmallPiece
  BY NoPagesNoSmallPiece DEF HInv
<1>3. HInv /\ NoSmallPiece /\ [Next]_vars => HInv'
  BY HInvStep
<1>4. Spec => []NoSmallPiece
  BY <1>1, <1>2, <1>3, PTL DEF Spec
<1> QED  BY <1>4, HeapImplementsMalloc, TiledAlways, NeverCorrupted, PTL
=============================================================================
