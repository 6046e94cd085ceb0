---------------------------- MODULE PrintfProofs ----------------------------
(***************************************************************************)
(* Proofs about modules Scrn and Printf, for screens of any size, with any *)
(* width of the tab stops, and for any calls of printf and snprintf with   *)
(* arguments of the types their formats ask for.                           *)
(*                                                                         *)
(* The screen first: the loops of memset_w and memmove, where a cell lies, *)
(* and that putting a character keeps the last rows of a roll of paper on  *)
(* the screen.  Then what the conversions make of a number, and then how   *)
(* far a call has come in its format.                                      *)
(***************************************************************************)
EXTENDS Printf, OlistProofs, SequenceTheorems, FiniteSetTheorems

-----------------------------------------------------------------------------
(* memset_w and memmove.  A loop writes the cells from dest on, one by one. *)
LEMMA MemsetW ==
    ASSUME NEW D, D \subseteq Int, NEW m, m = [a \in D |-> m[a]], NEW dest \in Nat, NEW n \in Nat, NEW val
    PROVE  LET r == memset_w(m, dest, val, n)
           IN  /\ r = [a \in D |-> r[a]]
               /\ \A a \in D : r[a] = IF dest <= a /\ a < dest + n THEN val ELSE m[a]
<1> DEFINE e(f, k) == IF k = 0 THEN m ELSE [f[k - 1] EXCEPT ![dest + k - 1] = val]
           Is(f) == f = [k \in 0 .. n |-> e(f, k)]
           c(k) == [a \in D |-> IF dest <= a /\ a < dest + k THEN val ELSE m[a]]
           g == [k \in 0 .. n |-> c(k)]
           p == CHOOSE f : Is(f)
<1>1. ASSUME NEW k \in 1 .. n PROVE [c(k - 1) EXCEPT ![dest + k - 1] = val] = c(k)
  <2> DEFINE f == [c(k - 1) EXCEPT ![dest + k - 1] = val]
  <2>1. ASSUME NEW a \in D PROVE f[a] = c(k)[a]
    <3>1. CASE a = dest + k - 1
      <4>1. dest <= a /\ a < dest + k
        BY <3>1
      <4> QED  BY <3>1, <4>1
    <3>2. CASE a # dest + k - 1
      <4>1. (dest <= a /\ a < dest + k) <=> (dest <= a /\ a < dest + (k - 1))
        BY <3>2
      <4> QED  BY <3>2, <4>1
    <3> QED  BY <3>1, <3>2
  <2>2. f = [a \in D |-> f[a]] /\ c(k) = [a \in D |-> c(k)[a]]
    OBVIOUS
  <2> HIDE DEF f, c
  <2> QED  BY <2>1, <2>2 DEF f
<1>2. c(0) = m
  <2>1. \A a \in D : ~(dest <= a /\ a < dest + 0)
    OBVIOUS
  <2> QED  BY <2>1
<1> HIDE DEF c
<1>3. Is(g)
  <2>1. \A k \in 0 .. n : g[k] = c(k)
    OBVIOUS
  <2> HIDE DEF g
  <2>2. ASSUME NEW k \in 0 .. n PROVE e(g, k) = c(k)
    <3>1. CASE k = 0
      BY <1>2, <3>1
    <3>2. CASE k # 0
      <4>1. k \in 1 .. n /\ k - 1 \in 0 .. n
        BY <3>2
      <4>2. g[k - 1] = c(k - 1)
        BY <2>1, <4>1
      <4> QED  BY <1>1, <3>2, <4>1, <4>2
    <3> QED  BY <3>1, <3>2
  <2> HIDE DEF e
  <2>3. [k \in 0 .. n |-> e(g, k)] = [k \in 0 .. n |-> c(k)]
    BY <2>2
  <2> QED  BY <2>3 DEF g
<1>4. Is(p)
  BY <1>3
<1>5. memset_w(m, dest, val, n) = p[n]
  BY DEF memset_w, Loop
<1> HIDE DEF p, g
<1>6. \A k \in 0 .. n : p[k] = c(k)
  <2> DEFINE Bad == {k \in 0 .. n : p[k] # c(k)}
  <2> SUFFICES ASSUME Bad # {} PROVE FALSE
    OBVIOUS
  <2>1. PICK k \in Bad : \A j \in Bad : k <= j
    <3>1. Bad \subseteq Nat /\ Bad # {}
      OBVIOUS
    <3> HIDE DEF Bad
    <3> QED  BY <3>1, LeastNat
  <2>2. k \in 0 .. n /\ p[k] = e(p, k)
    BY <1>4
  <2>3. k # 0
    BY <1>2, <2>1, <2>2
  <2>4. k \in 1 .. n /\ k - 1 \in 0 .. n /\ ~(k <= k - 1)
    BY <2>2, <2>3
  <2>5. p[k - 1] = c(k - 1)
    BY <2>1, <2>4
  <2>6. p[k] = [c(k - 1) EXCEPT ![dest + k - 1] = val]
    BY <2>2, <2>3, <2>5
  <2>7. p[k] = c(k)
    BY <1>1, <2>4, <2>6
  <2> QED  BY <2>1, <2>7
<1>7. p[n] = c(n)
  BY <1>6
<1> QED  BY <1>5, <1>7 DEF c

(* memmove to a lower place: what is read has not been written yet. *)
LEMMA Memmove ==
    ASSUME NEW D, D \subseteq Int, NEW m, m = [a \in D |-> m[a]], NEW dest \in Nat, NEW src \in Nat, src > dest,
           NEW n \in Nat, src .. src + n - 1 \subseteq D
    PROVE  LET r == memmove(m, dest, src, n)
           IN  /\ r = [a \in D |-> r[a]]
               /\ \A a \in D : r[a] = IF dest <= a /\ a < dest + n THEN m[src + (a - dest)] ELSE m[a]
<1> DEFINE e(f, k) == IF k = 0 THEN m ELSE [f[k - 1] EXCEPT ![dest + k - 1] = f[k - 1][src + (k - 1)]]
           Is(f) == f = [k \in 0 .. n |-> e(f, k)]
           c(k) == [a \in D |-> IF dest <= a /\ a < dest + k THEN m[src + (a - dest)] ELSE m[a]]
           g == [k \in 0 .. n |-> c(k)]
           p == CHOOSE f : Is(f)
<1>1. ASSUME NEW k \in 1 .. n PROVE [c(k - 1) EXCEPT ![dest + k - 1] = c(k - 1)[src + (k - 1)]] = c(k)
  <2>0. src + (k - 1) \in src .. src + n - 1
    OBVIOUS
  <2>1. src + (k - 1) \in D /\ ~(src + (k - 1) < dest + (k - 1))
    BY <2>0
  <2>2. c(k - 1)[src + (k - 1)] = m[src + (k - 1)]
    BY <2>1
  <2>3. ASSUME NEW a \in D
        PROVE  [c(k - 1) EXCEPT ![dest + k - 1] = m[src + (k - 1)]][a] = c(k)[a]
    <3>1. CASE a = dest + k - 1
      <4>1. [c(k - 1) EXCEPT ![dest + k - 1] = m[src + (k - 1)]][a] = m[src + (k - 1)]
        BY <3>1
      <4>2. src + (a - dest) = src + (k - 1) /\ dest <= a /\ a < dest + k
        BY <3>1
      <4>3. c(k)[a] = m[src + (a - dest)]
        BY <4>2
      <4> QED  BY <4>1, <4>2, <4>3
    <3>2. CASE a # dest + k - 1
      <4>1. (dest <= a /\ a < dest + k) <=> (dest <= a /\ a < dest + (k - 1))
        BY <3>2
      <4> QED  BY <3>2, <4>1
    <3> QED  BY <3>1, <3>2
  <2> DEFINE f == [c(k - 1) EXCEPT ![dest + k - 1] = m[src + (k - 1)]]
  <2>4. f = [a \in D |-> f[a]] /\ c(k) = [a \in D |-> c(k)[a]]
    OBVIOUS
  <2> HIDE DEF f, c
  <2>5. f = c(k)
    BY <2>3, <2>4 DEF f
  <2> QED  BY <2>2, <2>5 DEF f
<1>2. c(0) = m
  <2>1. \A a \in D : ~(dest <= a /\ a < dest + 0)
    OBVIOUS
  <2> QED  BY <2>1
<1> HIDE DEF c
<1>3. Is(g)
  <2>1. \A k \in 0 .. n : g[k] = c(k)
    OBVIOUS
  <2> HIDE DEF g
  <2>2. ASSUME NEW k \in 0 .. n PROVE e(g, k) = c(k)
    <3>1. CASE k = 0
      BY <1>2, <3>1
    <3>2. CASE k # 0
      <4>1. k \in 1 .. n /\ k - 1 \in 0 .. n
        BY <3>2
      <4>2. g[k - 1] = c(k - 1)
        BY <2>1, <4>1
      <4> QED  BY <1>1, <3>2, <4>1, <4>2
    <3> QED  BY <3>1, <3>2
  <2> HIDE DEF e
  <2>3. [k \in 0 .. n |-> e(g, k)] = [k \in 0 .. n |-> c(k)]
    BY <2>2
  <2> QED  BY <2>3 DEF g
<1>4. Is(p)
  BY <1>3
<1>5. memmove(m, dest, src, n) = p[n]
  BY DEF memmove, memcpy, Loop
<1> HIDE DEF p, g
<1>6. \A k \in 0 .. n : p[k] = c(k)
  <2> DEFINE Bad == {k \in 0 .. n : p[k] # c(k)}
  <2> SUFFICES ASSUME Bad # {} PROVE FALSE
    OBVIOUS
  <2>1. PICK k \in Bad : \A j \in Bad : k <= j
    <3>1. Bad \subseteq Nat /\ Bad # {}
      OBVIOUS
    <3> HIDE DEF Bad
    <3> QED  BY <3>1, LeastNat
  <2>2. k \in 0 .. n /\ p[k] = e(p, k)
    BY <1>4
  <2>3. k # 0
    BY <1>2, <2>1, <2>2
  <2>4. k \in 1 .. n /\ k - 1 \in 0 .. n /\ ~(k <= k - 1)
    BY <2>2, <2>3
  <2>5. p[k - 1] = c(k - 1)
    BY <2>1, <2>4
  <2>6. p[k] = [c(k - 1) EXCEPT ![dest + k - 1] = c(k - 1)[src + (k - 1)]]
    BY <2>2, <2>3, <2>5
  <2>7. p[k] = c(k)
    BY <1>1, <2>4, <2>6
  <2> QED  BY <2>1, <2>7
<1>7. p[n] = c(n)
  BY <1>6
<1> QED  BY <1>5, <1>7 DEF c

-----------------------------------------------------------------------------
(* A number is a quotient and a remainder. *)
LEMMA DivMod ==
    ASSUME NEW a \in Nat, NEW b \in Nat, b > 0
    PROVE  a \div b \in Nat /\ a % b \in 0 .. b - 1 /\ a = (a \div b) * b + (a % b)
OBVIOUS

(* A quotient and a remainder are told by their sum.                       *)
LEMMA QuotientIs ==
    ASSUME NEW a \in Nat, NEW b \in Nat, NEW q \in Nat, NEW r \in 0 .. b - 1, a = q * b + r
    PROVE  a \div b = q /\ a % b = r
<1> DEFINE c == a \div b
           m == a % b
<1>1. b > 0
  OBVIOUS
<1>2. c \in Nat /\ m \in 0 .. b - 1 /\ a = c * b + m
  BY <1>1, DivMod
<1> HIDE DEF c, m
<1>3. (q - c) * b = m - r
  <2>1. q * b \in Int /\ c * b \in Int /\ (q - c) * b = q * b - c * b
    BY <1>2
  <2>2. q * b + r = c * b + m
    BY <1>2
  <2> DEFINE u == q * b
             v == c * b
  <2>4. u \in Int /\ v \in Int /\ (q - c) * b = u - v /\ u + r = v + m /\ m \in Int
    BY <1>2, <2>1, <2>2
  <2> HIDE DEF u, v
  <2> QED  BY <2>4
<1>4. ~(q - c >= 1)
  <2> SUFFICES ASSUME q - c >= 1 PROVE FALSE
    OBVIOUS
  <2>1. (q - c) * b >= b
    BY <1>1, <1>2
  <2> QED  BY <1>2, <1>3, <2>1
<1>5. ~(c - q >= 1)
  <2> SUFFICES ASSUME c - q >= 1 PROVE FALSE
    OBVIOUS
  <2>1. (c - q) * b >= b
    BY <1>1, <1>2
  <2>2. (c - q) * b = r - m
    <3>1. (c - q) * b = -((q - c) * b)
      BY <1>2
    <3> QED  BY <1>2, <1>3, <3>1
  <2> QED  BY <1>2, <2>1, <2>2
<1>6. c = q
  BY <1>2, <1>4, <1>5
<1>7. m = r
  BY <1>2, <1>3, <1>6
<1> QED  BY <1>6, <1>7 DEF c, m

-----------------------------------------------------------------------------
(* The screen shows the last rows of a roll of paper. *)
Glyphs == Printable \cup {Space}
Rows == [Columns -> Glyphs]
Shows(cs, y, rows) ==
    LET above == Len(rows) - y - 1
    IN  /\ above >= 0
        /\ above > 0 => y = SCREEN_HEIGHT - 1
        /\ \A a \in OnScreen :
              LET row == above + (a \div SCREEN_WIDTH) + 1
              IN  cs[a] = IF row <= Len(rows) THEN rows[row][a % SCREEN_WIDTH] ELSE Space
ScrnInv ==
    /\ cells = [a \in Cells |-> cells[a]]
    /\ xpos \in Columns /\ ypos \in 0 .. SCREEN_HEIGHT - 1
    /\ roll = [rows |-> roll.rows, x |-> xpos] /\ roll.rows \in Seq(Rows)
    /\ Shows(cells, ypos, roll.rows)

(* Where a cell is on the screen. *)
LEMMA RowAndColumn ==
    ASSUME NEW a \in OnScreen
    PROVE  /\ a \in Cells /\ a \in Nat
           /\ a \div SCREEN_WIDTH \in 0 .. SCREEN_HEIGHT - 1
           /\ a % SCREEN_WIDTH \in Columns
           /\ a = (a \div SCREEN_WIDTH) * SCREEN_WIDTH + (a % SCREEN_WIDTH)
<1> DEFINE W == SCREEN_WIDTH
           H == SCREEN_HEIGHT
           q == a \div W
           r == a % W
<1>1. W \in Nat /\ W > 0 /\ H \in Nat /\ H > 1
  BY ScreenAssumption
<1>2. W * H \in Nat /\ W * (H + 1) = W * H + W
  BY <1>1
<1>3. a \in Nat /\ a < W * H
  BY <1>2 DEF OnScreen
<1>4. q \in Nat /\ r \in 0 .. W - 1 /\ a = q * W + r
  BY <1>1, <1>3, DivMod
<1>5. a \in Cells
  BY <1>1, <1>2, <1>3 DEF Cells
<1> HIDE DEF q, r, W, H
<1>6. ~(q >= H)
  <2> SUFFICES ASSUME q >= H PROVE FALSE
    OBVIOUS
  <2>1. q * W >= H * W
    BY <1>1, <1>4
  <2>2. H * W = W * H /\ q * W \in Nat
    BY <1>1, <1>4
  <2> QED  BY <1>2, <1>3, <1>4, <2>1, <2>2
<1>7. a \in Nat /\ q \in 0 .. H - 1 /\ r \in 0 .. W - 1
  BY <1>1, <1>3, <1>4, <1>6
<1> QED  BY <1>4, <1>5, <1>7, Zenon DEF q, r, W, H, Columns

(* The cell of a column and a row is on the screen, and is theirs. *)
LEMMA CellAt ==
    ASSUME NEW x \in Columns, NEW y \in 0 .. SCREEN_HEIGHT - 1
    PROVE  LET a == x + SCREEN_WIDTH * y
           IN  a \in OnScreen /\ a \div SCREEN_WIDTH = y /\ a % SCREEN_WIDTH = x
<1> DEFINE W == SCREEN_WIDTH
           H == SCREEN_HEIGHT
           a == x + W * y
<1>1. W \in Nat /\ W > 0 /\ H \in Nat /\ H > 1 /\ x \in 0 .. W - 1 /\ y \in Nat /\ y <= H - 1
  BY ScreenAssumption DEF Columns
<1> HIDE DEF W, H
<1>2. W * y \in Nat /\ W * y = y * W /\ W * (H - 1) = W * H - W /\ W * H \in Nat
  BY <1>1
<1>3. W * y <= W * (H - 1)
  BY <1>1
<1>4. a \in Nat /\ a = y * W + x /\ a < W * H
  BY <1>1, <1>2, <1>3
<1> HIDE DEF a
<1>5. a \div W = y /\ a % W = x
  BY <1>1, <1>4, QuotientIs
<1> QED  BY <1>2, <1>4, <1>5 DEF OnScreen, a, W, H

(* The cell below another one is a row further and in its column. *)
LEMMA CellBelow ==
    ASSUME NEW a \in OnScreen, a \div SCREEN_WIDTH < SCREEN_HEIGHT - 1
    PROVE  /\ a + SCREEN_WIDTH \in OnScreen
           /\ (a + SCREEN_WIDTH) \div SCREEN_WIDTH = (a \div SCREEN_WIDTH) + 1
           /\ (a + SCREEN_WIDTH) % SCREEN_WIDTH = a % SCREEN_WIDTH
<1> DEFINE W == SCREEN_WIDTH
           q == a \div W
           r == a % W
           y == q + 1
<1>1. q \in Nat /\ r \in Columns /\ a = q * W + r /\ W \in Nat /\ a \in Nat
  <2>1. q \in 0 .. SCREEN_HEIGHT - 1 /\ r \in Columns /\ a = q * W + r /\ a \in Nat
    BY RowAndColumn, Zenon
  <2> HIDE DEF q, r
  <2> QED  BY <2>1, ScreenAssumption
<1>2. y \in 0 .. SCREEN_HEIGHT - 1
  BY <1>1, ScreenAssumption
<1> HIDE DEF q, r
<1>3. W * y = q * W + W /\ q * W \in Nat /\ r \in Nat
  BY <1>1 DEF Columns
<1>4. a + W = r + W * y
  BY <1>1, <1>3
<1> HIDE DEF y
<1>5. r + W * y \in OnScreen /\ (r + W * y) \div W = y /\ (r + W * y) % W = r
  BY <1>1, <1>2, CellAt, Zenon DEF W
<1>6. a + W \in OnScreen /\ (a + W) \div W = y /\ (a + W) % W = r
  BY <1>4, <1>5, Zenon
<1> QED  BY <1>6, Zenon DEF q, r, y, W

(* scrn_scroll: every row takes what was in the next, the last is blank.   *)
LEMMA ScrolledIs ==
    ASSUME NEW cs, cs = [a \in Cells |-> cs[a]]
    PROVE  /\ Scrolled(cs) = [a \in Cells |-> Scrolled(cs)[a]]
           /\ \A a \in OnScreen :
                 Scrolled(cs)[a] = IF a \div SCREEN_WIDTH < SCREEN_HEIGHT - 1 THEN cs[a + SCREEN_WIDTH] ELSE Space
<1> DEFINE W == SCREEN_WIDTH
           H == SCREEN_HEIGHT
           kept == W * (H - 1)
           m == memmove(cs, 0, W, kept)
           n == memset_w(m, kept, Space, W * 2)
<1>1. W \in Nat /\ W > 0 /\ H \in Nat /\ H > 1
  BY ScreenAssumption
<1>2. kept \in Nat /\ W * (H + 1) = kept + W * 2 /\ W * H = kept + W /\ W * 2 \in Nat /\ W * 2 = W + W
  BY <1>1
<1>3. Cells = 0 .. (kept + W * 2) - 1 /\ OnScreen = 0 .. (kept + W) - 1
  <2>1. Cells = 0 .. W * (H + 1) - 1 /\ OnScreen = 0 .. W * H - 1
    BY Zenon DEF Cells, OnScreen
  <2>2. W * (H + 1) = kept + W * 2 /\ W * H = kept + W
    BY <1>2
  <2> HIDE DEF kept, W, H
  <2> QED  BY <2>1, <2>2, Zenon
<1>4. Scrolled(cs) = n
  BY DEF Scrolled
<1> HIDE DEF kept, W, H, n
<1>5. /\ m = [a \in Cells |-> m[a]]
      /\ \A a \in Cells : m[a] = IF 0 <= a /\ a < 0 + kept THEN cs[W + (a - 0)] ELSE cs[a]
  <2>1. Cells \subseteq Int
    BY DEF Cells
  <2>2. kept \in Nat /\ W \in Nat /\ W > 0 /\ 0 \in Nat
    BY <1>1, <1>2
  <2>3. ASSUME NEW a \in W .. W + kept - 1 PROVE a \in Cells
    <3>1. a \in Int /\ 0 <= a /\ a <= (kept + W * 2) - 1
      BY <1>2, <2>2
    <3> QED  BY <1>2, <1>3, <2>2, <3>1
  <2>4. W .. W + kept - 1 \subseteq Cells
    BY <2>3
  <2> QED  BY <2>1, <2>2, <2>4, Memmove
<1>6. m = [a \in Cells |-> m[a]]
  BY <1>5
<1>7. \A a \in Cells : m[a] = IF a < kept THEN cs[a + W] ELSE cs[a]
  <2> TAKE a \in Cells
  <2>1. m[a] = IF 0 <= a /\ a < 0 + kept THEN cs[W + (a - 0)] ELSE cs[a]
    BY <1>5
  <2>2. 0 <= a /\ a \in Int
    BY <1>2, <1>3
  <2>3. 0 + kept = kept /\ W + (a - 0) = a + W
    BY <1>1, <1>2, <2>2
  <2> QED  BY <2>1, <2>2, <2>3
<1> HIDE DEF m
<1>8. /\ n = [a \in Cells |-> n[a]]
      /\ \A a \in Cells : n[a] = IF kept <= a /\ a < kept + W * 2 THEN Space ELSE m[a]
  <2>1. Cells \subseteq Int
    BY <1>3
  <2>2. kept \in Nat /\ W * 2 \in Nat
    BY <1>2
  <2> QED  BY <1>6, <2>1, <2>2, MemsetW DEF n
<1>9. \A a \in Cells : n[a] = IF a < kept THEN cs[a + W] ELSE Space
  <2> TAKE a \in Cells
  <2>1. n[a] = IF kept <= a /\ a < kept + W * 2 THEN Space ELSE m[a]
    BY <1>8
  <2>2. a \in Int /\ a < kept + W * 2
    BY <1>2, <1>3
  <2>3. kept <= a \/ a < kept
    BY <1>2, <2>2
  <2>4. ~(a < kept /\ kept <= a)
    BY <1>2, <2>2
  <2> QED  BY <1>7, <2>1, <2>2, <2>3, <2>4
<1>10. n = [a \in Cells |-> n[a]]
  BY <1>8
<1> HIDE DEF n
<1>11. ASSUME NEW a \in OnScreen PROVE a < kept <=> a \div W < H - 1
  <2> DEFINE q == a \div W
             r == a % W
  <2>1. q \in 0 .. H - 1 /\ r \in 0 .. W - 1 /\ a = q * W + r
    BY RowAndColumn, Zenon DEF Columns, W, H
  <2> HIDE DEF q, r
  <2>2. CASE q < H - 1
    <3>1. q + 1 <= H - 1 /\ (q + 1) * W = q * W + W /\ q * W \in Nat
      BY <1>1, <2>1, <2>2
    <3>2. (q + 1) * W <= (H - 1) * W
      BY <1>1, <2>1, <3>1
    <3>3. (H - 1) * W = kept
      BY <1>1 DEF kept
    <3> DEFINE z == q * W
    <3>4. z \in Nat /\ z + W <= kept /\ a = z + r
      BY <2>1, <3>1, <3>2, <3>3
    <3> HIDE DEF z
    <3>5. a < kept
      BY <1>1, <1>2, <2>1, <3>4
    <3> QED  BY <2>2, <3>5 DEF q
  <2>3. CASE q = H - 1
    <3>1. q * W = kept
      BY <1>1, <2>3 DEF kept
    <3> QED  BY <1>1, <1>2, <2>1, <2>3, <3>1 DEF q
  <2> QED  BY <1>1, <2>1, <2>2, <2>3
<1>12. OnScreen \subseteq Cells
  BY RowAndColumn
<1> QED  BY <1>4, <1>9, <1>10, <1>11, <1>12 DEF W, H

(* A character that prints lands at the same place of the roll.            *)
LEMMA PutShows ==
    ASSUME NEW cs, cs = [a \in Cells |-> cs[a]], NEW y \in 0 .. SCREEN_HEIGHT - 1, NEW x \in Columns,
           NEW rows \in Seq(Rows), Shows(cs, y, rows), NEW c \in Glyphs
    PROVE  LET ds == [cs EXCEPT ![x + SCREEN_WIDTH * y] = c]
               new == [rows EXCEPT ![Len(rows)][x] = c]
           IN  ds = [a \in Cells |-> ds[a]] /\ new \in Seq(Rows) /\ Shows(ds, y, new)
<1> DEFINE L == Len(rows)
           at == x + SCREEN_WIDTH * y
           ds == [cs EXCEPT ![at] = c]
           new == [rows EXCEPT ![L][x] = c]
           above == L - y - 1
<1>1. at \in OnScreen /\ at \div SCREEN_WIDTH = y /\ at % SCREEN_WIDTH = x
  BY CellAt
<1>2. L \in Nat /\ L - y - 1 >= 0 /\ y \in Nat
  BY DEF Shows
<1>3. L \in 1 .. L /\ DOMAIN rows = 1 .. L /\ \A k \in 1 .. L : rows[k] \in Rows
  BY <1>2
<1>4. new \in Seq(Rows) /\ Len(new) = L /\ (\A k \in 1 .. L : k # L => new[k] = rows[k]) /\ new[L] = [rows[L] EXCEPT ![x] = c]
  <2> DEFINE row == [rows[L] EXCEPT ![x] = c]
  <2>1. row \in Rows
    BY <1>3 DEF Rows
  <2>2. new = [rows EXCEPT ![L] = row]
    OBVIOUS
  <2> HIDE DEF row, L
  <2>3. new \in Seq(Rows) /\ Len(new) = Len(rows)
    BY <1>3, <2>1, <2>2
  <2> QED  BY <1>3, <2>2, <2>3 DEF row, L
<1>5. ds = [a \in Cells |-> ds[a]] /\ \A a \in OnScreen : ds[a] = IF a = at THEN c ELSE cs[a]
  <2>1. OnScreen \subseteq Cells
    BY RowAndColumn
  <2> HIDE DEF at
  <2> QED  BY <2>1
<1> HIDE DEF ds, new
<1>6. ASSUME NEW a \in OnScreen
      PROVE  LET row == above + (a \div SCREEN_WIDTH) + 1
             IN  ds[a] = IF row <= L THEN new[row][a % SCREEN_WIDTH] ELSE Space
  <2> DEFINE q == a \div SCREEN_WIDTH
             r == a % SCREEN_WIDTH
             row == above + q + 1
  <2>1. q \in 0 .. SCREEN_HEIGHT - 1 /\ r \in Columns /\ a = q * SCREEN_WIDTH + r
    BY RowAndColumn, Zenon
  <2>2. cs[a] = IF row <= L THEN rows[row][r] ELSE Space
    BY DEF Shows
  <2>3. a = at <=> q = y /\ r = x
    <3> HIDE DEF q, r
    <3>1. ASSUME q = y, r = x PROVE a = at
      <4>1. SCREEN_WIDTH * y = y * SCREEN_WIDTH /\ SCREEN_WIDTH * y \in Int /\ x \in Int
        BY ScreenAssumption DEF Columns
      <4> QED  BY <2>1, <3>1, <4>1
    <3> HIDE DEF at
    <3> QED  BY <1>1, <3>1 DEF q, r
  <2> HIDE DEF q, r, at
  <2>4. q \in Nat /\ row \in Nat /\ row >= 1 /\ (row = L <=> q = y)
    BY <1>2, <2>1, ScreenAssumption
  <2>5. row <= L => row \in 1 .. L
    BY <1>2, <2>4
  <2> HIDE DEF row
  <2>6. CASE a = at
    <3>1. row = L /\ r = x
      BY <2>3, <2>4, <2>6
    <3>2. new[L][x] = c
      BY <1>3, <1>4 DEF Rows
    <3>3. row <= L /\ ds[a] = new[row][r]
      BY <1>2, <1>5, <2>6, <3>1, <3>2
    <3> QED  BY <3>3 DEF row, q, r
  <2>7. CASE a # at /\ row = L
    <3>1. r # x
      BY <2>3, <2>4, <2>7
    <3>2. new[L][r] = rows[L][r]
      BY <1>3, <1>4, <2>1, <3>1 DEF Rows
    <3> QED  BY <1>5, <2>2, <2>7, <3>2 DEF row, q, r
  <2>8. CASE a # at /\ row # L
    <3>1. ds[a] = cs[a] /\ (row <= L => new[row] = rows[row])
      BY <1>4, <1>5, <2>5, <2>8
    <3> QED  BY <2>2, <3>1 DEF row, q, r
  <2> QED  BY <2>6, <2>7, <2>8
<1>7. Shows(ds, y, new)
  <2>1. above >= 0 /\ (above > 0 => y = SCREEN_HEIGHT - 1)
    BY DEF Shows
  <2> QED  BY <1>4, <1>6, <2>1 DEF Shows
<1> QED  BY <1>4, <1>5, <1>7 DEF ds, new, at, L

(* A new row: the next one of the screen, or all the others move up.       *)
LEMMA NewLineShows ==
    ASSUME NEW cs, cs = [a \in Cells |-> cs[a]], NEW y \in 0 .. SCREEN_HEIGHT - 1,
           NEW rows \in Seq(Rows), Shows(cs, y, rows)
    PROVE  LET s == Scroll([cells |-> cs, x |-> 0, y |-> y + 1])
               new == Append(rows, BlankRow)
           IN  /\ s.cells = [a \in Cells |-> s.cells[a]] /\ s.x = 0 /\ s.y \in 0 .. SCREEN_HEIGHT - 1
               /\ new \in Seq(Rows) /\ Shows(s.cells, s.y, new)
<1> DEFINE L == Len(rows)
           H == SCREEN_HEIGHT
           s == Scroll([cells |-> cs, x |-> 0, y |-> y + 1])
           new == Append(rows, BlankRow)
           above == L - y - 1
<1>1. L \in Nat /\ above \in Nat /\ (above > 0 => y = H - 1) /\ y \in Nat /\ y < H /\ H \in Nat
  BY ScreenAssumption DEF Shows
<1>2. BlankRow \in Rows /\ \A x \in Columns : BlankRow[x] = Space
  BY DEF BlankRow, Rows, Glyphs
<1>3. new \in Seq(Rows) /\ Len(new) = L + 1 /\ new[L + 1] = BlankRow /\ \A k \in 1 .. L : new[k] = rows[k]
  BY <1>2
<1> HIDE DEF new
<1>4. CASE y + 1 < H
  <2>1. s = [cells |-> cs, x |-> 0, y |-> y + 1]
    BY <1>1, <1>4 DEF Scroll
  <2>2. above = 0 /\ L = y + 1 /\ (L + 1) - (y + 1) - 1 = 0
    BY <1>1, <1>4
  <2>3. ASSUME NEW a \in OnScreen
        PROVE  LET row == 0 + (a \div SCREEN_WIDTH) + 1
               IN  cs[a] = IF row <= L + 1 THEN new[row][a % SCREEN_WIDTH] ELSE Space
    <3> DEFINE q == a \div SCREEN_WIDTH
               r == a % SCREEN_WIDTH
               row == 0 + q + 1
    <3>1. q \in 0 .. SCREEN_HEIGHT - 1 /\ r \in Columns
      BY RowAndColumn, Zenon
    <3>2. cs[a] = IF above + q + 1 <= L THEN rows[above + q + 1][r] ELSE Space
      BY DEF Shows
    <3> HIDE DEF q, r, L, above
    <3>3. row \in Nat /\ row >= 1 /\ above + q + 1 = row
      <4>1. q \in Nat /\ above = 0
        BY <1>1, <2>2, <3>1
      <4> QED  BY <4>1
    <3> HIDE DEF row
    <3>4. CASE row <= L
      BY <1>1, <1>3, <3>2, <3>3, <3>4 DEF row, q, r
    <3>5. CASE row = L + 1
      <4>1. new[row][r] = Space /\ ~(row <= L) /\ row <= L + 1
        BY <1>1, <1>2, <1>3, <3>1, <3>5
      <4> QED  BY <3>2, <3>3, <4>1 DEF row, q, r
    <3>6. CASE row > L + 1
      <4>1. ~(row <= L) /\ ~(row <= L + 1)
        BY <1>1, <3>3, <3>6
      <4> QED  BY <3>2, <3>3, <4>1 DEF row, q, r
    <3> QED  BY <1>1, <3>3, <3>4, <3>5, <3>6
  <2>4. Shows(cs, y + 1, new)
    <3>1. Len(new) - (y + 1) - 1 = 0 /\ Len(new) = L + 1
      BY <1>3, <2>2
    <3> DEFINE up == Len(new) - (y + 1) - 1
    <3>2. up = 0
      BY <3>1
    <3> HIDE DEF up, L
    <3>3. \A a \in OnScreen :
             LET row == up + (a \div SCREEN_WIDTH) + 1
             IN  cs[a] = IF row <= Len(new) THEN new[row][a % SCREEN_WIDTH] ELSE Space
      BY <2>3, <3>1, <3>2, Zenon
    <3>4. up >= 0 /\ ~(up > 0)
      BY <3>2
    <3> QED  BY <3>3, <3>4, Zenon DEF Shows, up
  <2>5. y + 1 \in 0 .. H - 1
    BY <1>1, <1>4
  <2> QED  BY <1>3, <2>1, <2>4, <2>5 DEF new
<1>5. CASE y + 1 >= H
  <2>1. s = [cells |-> Scrolled(cs), x |-> 0, y |-> y] /\ y = H - 1
    <3>1. y = H - 1 /\ (y + 1) - 1 = y
      BY <1>1, <1>5
    <3>2. s = [cells |-> Scrolled(cs), x |-> 0, y |-> (y + 1) - 1]
      BY <1>5 DEF Scroll
    <3> QED  BY <3>1, <3>2
  <2> DEFINE ds == Scrolled(cs)
  <2>2. /\ ds = [a \in Cells |-> ds[a]]
        /\ \A a \in OnScreen : ds[a] = IF a \div SCREEN_WIDTH < H - 1 THEN cs[a + SCREEN_WIDTH] ELSE Space
    BY ScrolledIs
  <2> HIDE DEF ds
  <2>3. ASSUME NEW a \in OnScreen
        PROVE  LET row == ((L + 1) - y - 1) + (a \div SCREEN_WIDTH) + 1
               IN  ds[a] = IF row <= L + 1 THEN new[row][a % SCREEN_WIDTH] ELSE Space
    <3> DEFINE q == a \div SCREEN_WIDTH
               r == a % SCREEN_WIDTH
               row == ((L + 1) - y - 1) + q + 1
    <3>1. q \in 0 .. SCREEN_HEIGHT - 1 /\ r \in Columns
      BY RowAndColumn, Zenon
    <3>2. CASE q < H - 1
      <4> DEFINE b == a + SCREEN_WIDTH
      <4>1. b \in OnScreen /\ b \div SCREEN_WIDTH = q + 1 /\ b % SCREEN_WIDTH = r
        BY <3>2, CellBelow
      <4> HIDE DEF b
      <4>2. cs[b] = IF above + (q + 1) + 1 <= L THEN rows[above + (q + 1) + 1][r] ELSE Space
        <5>1. cs[b] = IF above + (b \div SCREEN_WIDTH) + 1 <= L
                      THEN rows[above + (b \div SCREEN_WIDTH) + 1][b % SCREEN_WIDTH] ELSE Space
          BY <4>1 DEF Shows
        <5> HIDE DEF q, r, above
        <5> QED  BY <4>1, <5>1, SMT
      <4>3. ds[a] = cs[b]
        BY <2>2, <3>2 DEF b
      <4> HIDE DEF q, r
      <4>4. above + (q + 1) + 1 = row /\ row \in 1 .. L /\ row <= L + 1 /\ row <= L
        <5>1. q \in Nat /\ y = H - 1 /\ q <= y - 1
          BY <1>1, <2>1, <3>1, <3>2
        <5>2. row = (L - y) + q + 1 /\ above = L - y - 1 /\ L - y - 1 >= 0
          BY <1>1, <5>1
        <5> HIDE DEF row, above
        <5>3. above + (q + 1) + 1 = (L - y) + q + 1
          BY <1>1, <5>1, <5>2
        <5>4. (L - y) + q + 1 \in 1 .. L
          BY <1>1, <5>1, <5>2
        <5>5. row \in 1 .. L /\ row <= L /\ L \in Nat
          BY <1>1, <5>2, <5>4
        <5> QED  BY <5>2, <5>3, <5>5
      <4>5. ds[a] = rows[row][r] /\ new[row] = rows[row]
        <5> HIDE DEF row
        <5> QED  BY <1>3, <4>2, <4>3, <4>4
      <4> QED  BY <4>4, <4>5 DEF q, r
    <3>3. CASE ~(q < H - 1)
      <4>1. ds[a] = Space
        BY <2>2, <3>3
      <4> HIDE DEF q, r
      <4>2. row = L + 1
        <5>1. q = H - 1 /\ y = H - 1
          BY <1>1, <2>1, <3>1, <3>3
        <5> QED  BY <1>1, <5>1
      <4>3. new[row][r] = Space
        BY <1>2, <1>3, <3>1, <4>2
      <4> QED  BY <4>1, <4>3 DEF row, q, r
    <3> QED  BY <3>2, <3>3
  <2>4. (L + 1) - y - 1 >= 0
    BY <1>1, <2>1
  <2>5. Shows(ds, y, new)
    BY <1>3, <2>1, <2>3, <2>4 DEF Shows
  <2> QED  BY <1>3, <2>1, <2>2, <2>5 DEF ds, new
<1> QED  BY <1>1, <1>4, <1>5

(* The arithmetic of tab stops finds the first one to the right.           *)
LEMMA TabStopIsNext ==
    ASSUME NEW x \in Columns
    PROVE  TabStop(x) \in Nat /\ NextStop(x) = TabStop(x)
<1> DEFINE t == tab_width
           q == (x + t) \div t
           r == (x + t) % t
           e == q * t
<1>1. t \in Nat /\ t > 0 /\ x \in Nat /\ x + t \in Nat
  BY ScreenAssumption DEF Columns
<1>2. q \in Nat /\ r \in 0 .. t - 1 /\ x + t = q * t + r
  BY <1>1, DivMod
<1>3. TabStop(x) = e
  BY DEF TabStop
<1> HIDE DEF t, q, r
<1>4. e \in Nat
  BY <1>1, <1>2
<1>5. e \in x + 1 .. x + t
  <2>1. x + t = e + r
    BY <1>2
  <2> HIDE DEF e
  <2> QED  BY <1>1, <1>2, <1>4, <2>1
<1>6. e % t = 0
  <2>1. e = q * t + 0 /\ 0 \in 0 .. t - 1
    BY <1>1, <1>2
  <2> HIDE DEF e
  <2> QED  BY <1>1, <1>2, <1>4, <2>1, QuotientIs
<1>7. ASSUME NEW z \in x + 1 .. x + t, z % t = 0 PROVE z = e
  <2> DEFINE p == z \div t
             m == z % t
  <2>1. z \in Nat /\ z <= x + t /\ z >= x + 1
    BY <1>1
  <2>2. p \in Nat /\ z = p * t + m /\ m = 0
    BY <1>1, <1>7, <2>1, DivMod
  <2> HIDE DEF p, m
  <2>3. z = p * t
    BY <1>1, <2>2
  <2>4. ~(p >= q + 1)
    <3> SUFFICES ASSUME p >= q + 1 PROVE FALSE
      OBVIOUS
    <3>1. p * t >= (q + 1) * t
      BY <1>1, <1>2, <2>2
    <3>2. (q + 1) * t = e + t
      BY <1>1, <1>2
    <3> HIDE DEF e
    <3> QED  BY <1>1, <1>4, <1>5, <2>1, <2>3, <3>1, <3>2
  <2>5. ~(q >= p + 1)
    <3> SUFFICES ASSUME q >= p + 1 PROVE FALSE
      OBVIOUS
    <3>1. q * t >= (p + 1) * t
      BY <1>1, <1>2, <2>2
    <3>2. (p + 1) * t = z + t
      BY <1>1, <2>2, <2>3
    <3>3. e >= z + t
      BY <3>1, <3>2
    <3> HIDE DEF e
    <3> QED  BY <1>1, <1>4, <1>5, <2>1, <3>3
  <2>6. p = q
    BY <1>2, <2>2, <2>4, <2>5
  <2> QED  BY <2>3, <2>6
<1>8. NextStop(x) = e
  <2>1. NextStop(x) = CHOOSE z \in x + 1 .. x + t : z % t = 0
    BY DEF NextStop, t
  <2> HIDE DEF e
  <2> QED  BY <1>5, <1>6, <1>7, <2>1
<1> QED  BY <1>3, <1>4, <1>8

(* What a character does to the screen is what it does to the roll.        *)
LEMMA PutcScrnInv ==
    ASSUME ScrnInv, NEW c \in Chars, scrn_putc(c)
    PROVE  ScrnInv'
<1> DEFINE W == SCREEN_WIDTH
           H == SCREEN_HEIGHT
           s0 == [cells |-> cells, x |-> xpos, y |-> ypos]
           s1 == Placed(s0, c)
           s2 == Wrap(s1)
           s3 == Scroll(s2)
           rows == roll.rows
           Keeps(cs, x, y, new) ==
               /\ cs = [a \in Cells |-> cs[a]] /\ x \in Columns /\ y \in 0 .. H - 1
               /\ new \in Seq(Rows) /\ Shows(cs, y, new)
<1>1. /\ cells' = s3.cells /\ xpos' = s3.x /\ ypos' = s3.y /\ roll' = RollPut(roll, c)
  BY DEF scrn_putc
<1>2. Keeps(cells, xpos, ypos, rows) /\ roll = [rows |-> rows, x |-> xpos]
  BY Zenon DEF ScrnInv
<1>3. W \in Nat /\ W > 0 /\ H \in Nat /\ H > 1 /\ xpos \in Nat /\ xpos < W /\ ypos \in Nat /\ ypos < H
  BY <1>2, ScreenAssumption DEF Columns
<1>4. ASSUME NEW p, RollPut(roll, c) = p, p = [rows |-> p.rows, x |-> p.x], Keeps(s3.cells, s3.x, s3.y, p.rows), p.x = s3.x
      PROVE  ScrnInv'
  <2>1. roll' = [rows |-> roll'.rows, x |-> xpos'] /\ Keeps(cells', xpos', ypos', roll'.rows)
    <3> HIDE DEF s3, Keeps
    <3> QED  BY <1>1, <1>4
  <2> QED  BY <2>1, Zenon DEF ScrnInv, Shows, Columns, Cells, Rows, OnScreen, Glyphs
<1>5. ASSUME NEW x \in Columns, s1 = [s0 EXCEPT !.x = x] PROVE s3 = [cells |-> cells, x |-> x, y |-> ypos]
  <2>1. s1 = [cells |-> cells, x |-> x, y |-> ypos] /\ ~(x >= W) /\ ~(ypos >= H)
    BY <1>3, <1>5 DEF Columns
  <2> HIDE DEF s1
  <2>2. s2 = s1
    BY <2>1 DEF Wrap
  <2> HIDE DEF s2
  <2> QED  BY <2>1, <2>2 DEF Scroll
<1>6. ASSUME NEW cs, NEW new \in Seq(Rows), Keeps(cs, xpos, ypos, new),
             s2 = [cells |-> cs, x |-> 0, y |-> ypos + 1], RollPut(roll, c) = [rows |-> Append(new, BlankRow), x |-> 0]
      PROVE  ScrnInv'
  <2> DEFINE p == [rows |-> Append(new, BlankRow), x |-> 0]
  <2> HIDE DEF s2
  <2>1. LET s == Scroll([cells |-> cs, x |-> 0, y |-> ypos + 1])
        IN  /\ s.cells = [a \in Cells |-> s.cells[a]] /\ s.x = 0 /\ s.y \in 0 .. H - 1
            /\ Append(new, BlankRow) \in Seq(Rows) /\ Shows(s.cells, s.y, Append(new, BlankRow))
    BY <1>6, NewLineShows
  <2>2. 0 \in Columns
    BY <1>3 DEF Columns
  <2>3. p.rows = Append(new, BlankRow) /\ p.x = 0
    OBVIOUS
  <2>4. Keeps(s3.cells, s3.x, s3.y, p.rows) /\ p.x = s3.x
    BY <1>6, <2>1, <2>2, <2>3, Zenon
  <2>5. p = [rows |-> p.rows, x |-> p.x] /\ RollPut(roll, c) = p
    BY <1>6
  <2> HIDE DEF p, s3, Keeps
  <2> QED  BY <1>4, <2>4, <2>5
<1>7. NewRow(roll) = [rows |-> Append(rows, BlankRow), x |-> 0]
  BY DEF NewRow
<1>8. CASE c = "tab"
  <2> DEFINE t == TabStop(xpos)
  <2>1. t \in Nat /\ NextStop(xpos) = t
    BY <1>2, TabStopIsNext
  <2>2. s1 = [s0 EXCEPT !.x = t]
    BY <1>8, ScreenAssumption DEF Placed
  <2>3. RollPut(roll, c) = IF t \in Columns THEN [roll EXCEPT !.x = t] ELSE NewRow(roll)
    <3>1. roll.x = xpos
      BY <1>2
    <3>2. RollPut(roll, c) = IF NextStop(roll.x) \in Columns THEN [roll EXCEPT !.x = NextStop(@)] ELSE NewRow(roll)
      BY <1>8 DEF RollPut
    <3> HIDE DEF t
    <3> QED  BY <2>1, <3>1, <3>2
  <2> HIDE DEF t, s1
  <2>4. CASE t \in Columns
    <3> DEFINE p == [rows |-> rows, x |-> t]
    <3>1. RollPut(roll, c) = p /\ p = [rows |-> p.rows, x |-> p.x] /\ p.rows = rows /\ p.x = t
      BY <1>2, <2>3, <2>4
    <3>2. s3 = [cells |-> cells, x |-> t, y |-> ypos]
      BY <1>5, <2>2, <2>4
    <3> HIDE DEF p, s3
    <3>3. Keeps(s3.cells, s3.x, s3.y, p.rows) /\ p.x = s3.x
      BY <1>2, <2>4, <3>1, <3>2
    <3> HIDE DEF Keeps
    <3> QED  BY <1>4, <3>1, <3>3
  <2>5. CASE t \notin Columns
    <3>1. t >= W
      BY <1>3, <2>1, <2>5 DEF Columns
    <3>2. s2 = [cells |-> cells, x |-> 0, y |-> ypos + 1]
      BY <2>2, <3>1 DEF Wrap
    <3>3. RollPut(roll, c) = [rows |-> Append(rows, BlankRow), x |-> 0]
      BY <1>7, <2>3, <2>5
    <3> HIDE DEF s2
    <3> QED  BY <1>2, <1>6, <3>2, <3>3
  <2> QED  BY <2>4, <2>5
<1>9. CASE c = "lf"
  <2>1. s1 = [cells |-> cells, x |-> 0, y |-> ypos + 1]
    BY <1>9, ScreenAssumption DEF Placed
  <2> HIDE DEF s1
  <2>2. s2 = [cells |-> cells, x |-> 0, y |-> ypos + 1]
    BY <1>3, <2>1 DEF Wrap
  <2>3. RollPut(roll, c) = [rows |-> Append(rows, BlankRow), x |-> 0]
    BY <1>7, <1>9 DEF RollPut
  <2> HIDE DEF s2
  <2> QED  BY <1>2, <1>6, <2>2, <2>3
<1>10. CASE c \in {"cr", "bs", "other"}
  <2> DEFINE x == IF c = "cr" THEN 0 ELSE IF c = "bs" /\ xpos > 0 THEN xpos - 1 ELSE xpos
             p == [rows |-> rows, x |-> x]
  <2>1. x \in Columns
    BY <1>3 DEF Columns
  <2>2. s1 = [s0 EXCEPT !.x = x]
    BY <1>3, <1>10, ScreenAssumption DEF Placed
  <2>3. RollPut(roll, c) = p
    <3>1. roll.x = xpos /\ (xpos = 0 <=> ~(xpos > 0))
      BY <1>2, <1>3
    <3> HIDE DEF rows
    <3> QED  BY <1>2, <1>10, <3>1 DEF RollPut
  <2> HIDE DEF x, s1
  <2>4. s3 = [cells |-> cells, x |-> x, y |-> ypos]
    BY <1>5, <2>1, <2>2
  <2>5. p = [rows |-> p.rows, x |-> p.x] /\ p.rows = rows /\ p.x = x
    OBVIOUS
  <2> HIDE DEF p, s3
  <2>6. Keeps(s3.cells, s3.x, s3.y, p.rows) /\ p.x = s3.x
    BY <1>2, <2>1, <2>4, <2>5
  <2> HIDE DEF Keeps
  <2> QED  BY <1>4, <2>3, <2>5, <2>6
<1>11. CASE c \in Printable
  <2> DEFINE ds == [cells EXCEPT ![xpos + SCREEN_WIDTH * ypos] = c]
             new == [rows EXCEPT ![Len(rows)][xpos] = c]
  <2>1. c \notin {"tab", "cr", "lf", "bs", "other"}
    BY <1>11, ScreenAssumption
  <2>2. s1 = [cells |-> ds, x |-> xpos + 1, y |-> ypos]
    BY <1>11, <2>1 DEF Placed
  <2>3. RollPut(roll, c) = IF xpos + 1 \in Columns THEN [rows |-> new, x |-> xpos + 1]
                           ELSE [rows |-> Append(new, BlankRow), x |-> 0]
    <3>1. RollPut(roll, c) = LET q == [roll EXCEPT !.rows[Len(roll.rows)][roll.x] = c]
                             IN  IF roll.x + 1 \in Columns THEN [q EXCEPT !.x = @ + 1] ELSE NewRow(q)
      BY <2>1 DEF RollPut
    <3>2. [roll EXCEPT !.rows[Len(roll.rows)][roll.x] = c] = [rows |-> new, x |-> xpos]
      <4>1. roll = [rows |-> rows, x |-> xpos] /\ roll.rows = rows /\ roll.x = xpos
        BY <1>2
      <4> HIDE DEF rows
      <4> QED  BY <4>1
    <3>3. roll.x = xpos
      BY <1>2
    <3> HIDE DEF new, rows
    <3> QED  BY <3>1, <3>2, <3>3 DEF NewRow
  <2>4. ds = [a \in Cells |-> ds[a]] /\ new \in Seq(Rows) /\ Shows(ds, ypos, new)
    <3>1. c \in Glyphs
      BY <1>11 DEF Glyphs
    <3> QED  BY <1>2, <3>1, PutShows
  <2> HIDE DEF ds, new, s1
  <2>5. CASE xpos + 1 \in Columns
    <3> DEFINE p == [rows |-> new, x |-> xpos + 1]
    <3>1. ~(xpos + 1 >= W) /\ ~(ypos >= H)
      BY <1>3, <2>5 DEF Columns
    <3>2. s2 = s1
      BY <2>2, <3>1 DEF Wrap
    <3> HIDE DEF s2
    <3>3. s3 = [cells |-> ds, x |-> xpos + 1, y |-> ypos]
      BY <2>2, <3>1, <3>2 DEF Scroll
    <3>4. p = [rows |-> p.rows, x |-> p.x] /\ p.rows = new /\ p.x = xpos + 1
      OBVIOUS
    <3>5. RollPut(roll, c) = p
      BY <2>3, <2>5
    <3> HIDE DEF p, s3
    <3>6. Keeps(s3.cells, s3.x, s3.y, p.rows) /\ p.x = s3.x
      BY <1>2, <2>4, <2>5, <3>3, <3>4
    <3> HIDE DEF Keeps
    <3> QED  BY <1>4, <3>4, <3>5, <3>6
  <2>6. CASE xpos + 1 \notin Columns
    <3>1. xpos + 1 >= W
      BY <1>3, <2>6 DEF Columns
    <3>2. s2 = [cells |-> ds, x |-> 0, y |-> ypos + 1]
      BY <2>2, <3>1 DEF Wrap
    <3>3. Keeps(ds, xpos, ypos, new)
      BY <1>2, <2>4
    <3> HIDE DEF s2, Keeps
    <3> QED  BY <1>6, <2>3, <2>4, <2>6, <3>2, <3>3
  <2> QED  BY <2>5, <2>6
<1> QED  BY <1>8, <1>9, <1>10, <1>11 DEF Chars

-----------------------------------------------------------------------------

(* Dividing by the base makes a number shorter. *)
LEMMA QuotientLess ==
    ASSUME NEW j \in Nat, NEW b \in {10, 16}, j >= b
    PROVE  j \div b \in 1 .. j - 1
<1>1. CASE b = 10
  BY <1>1
<1>2. CASE b = 16
  BY <1>2
<1> QED  BY <1>1, <1>2

NumStep(t, j, b) == IF j < b THEN <<j>> ELSE Append(t[j \div b], j % b)
IsNum(t, n, b) == t = [j \in 0 .. n |-> NumStep(t, j, b)]

(* There are numerals up to every number. *)
LEMMA NumExists ==
    ASSUME NEW b \in {10, 16}
    PROVE  \A n \in Nat : \E t : IsNum(t, n, b)
<1> DEFINE Bad == {n \in Nat : ~\E t : IsNum(t, n, b)}
<1> SUFFICES ASSUME Bad # {} PROVE FALSE
  OBVIOUS
<1>1. PICK n \in Bad : \A m \in Bad : n <= m
  <2>1. Bad \subseteq Nat /\ Bad # {}
    OBVIOUS
  <2> HIDE DEF Bad
  <2> QED  BY <2>1, LeastNat
<1>2. n \in Nat /\ ~\E t : IsNum(t, n, b)
  OBVIOUS
<1>3. PICK u : n > 0 => IsNum(u, n - 1, b)
  <2>1. CASE n > 0
    <3>1. n - 1 \in Nat /\ ~(n <= n - 1)
      BY <1>2, <2>1
    <3>2. n - 1 \notin Bad
      BY <1>1, <3>1
    <3> QED  BY <3>1, <3>2
  <2>2. CASE ~(n > 0)
    BY <2>2
  <2> QED  BY <2>1, <2>2
<1> DEFINE t == [j \in 0 .. n |-> IF j = n THEN NumStep(u, n, b) ELSE u[j]]
<1>4. ASSUME NEW j \in 0 .. n PROVE t[j] = NumStep(t, j, b)
  <2>1. ASSUME j >= b PROVE t[j \div b] = u[j \div b]
    <3>1. j \in Nat
      OBVIOUS
    <3>2. j \div b \in 1 .. j - 1
      BY <2>1, <3>1, QuotientLess
    <3>3. j \div b \in 0 .. n /\ j \div b # n
      BY <1>2, <3>1, <3>2
    <3> QED  BY <3>3
  <2>2. j < b \/ j >= b
    OBVIOUS
  <2>3. NumStep(t, j, b) = NumStep(u, j, b)
    <3> HIDE DEF t
    <3> QED  BY <2>1, <2>2 DEF NumStep
  <2>4. t[j] = NumStep(u, j, b)
    <3>1. CASE j = n
      BY <3>1
    <3>2. CASE j # n
      <4>1. j \in 0 .. n - 1 /\ n > 0
        BY <1>2, <3>2
      <4>2. u[j] = NumStep(u, j, b)
        BY <1>3, <4>1 DEF IsNum
      <4> QED  BY <3>2, <4>2
    <3> QED  BY <3>1, <3>2
  <2> QED  BY <2>3, <2>4
<1>5. t = [j \in 0 .. n |-> t[j]]
  OBVIOUS
<1> HIDE DEF t
<1>6. IsNum(t, n, b)
  BY <1>4, <1>5 DEF IsNum
<1> QED  BY <1>2, <1>6

(* No two functions give a number different numerals. *)
LEMMA NumUnique ==
    ASSUME NEW b \in {10, 16}, NEW n \in Nat, NEW m \in Nat, NEW t, NEW u, IsNum(t, n, b), IsNum(u, m, b)
    PROVE  \A j \in Nat : j <= n /\ j <= m => t[j] = u[j]
<1> DEFINE Bad == {j \in Nat : j <= n /\ j <= m /\ t[j] # u[j]}
<1> SUFFICES ASSUME Bad # {} PROVE FALSE
  OBVIOUS
<1>1. PICK j \in Bad : \A k \in Bad : j <= k
  <2>1. Bad \subseteq Nat /\ Bad # {}
    OBVIOUS
  <2> HIDE DEF Bad
  <2> QED  BY <2>1, LeastNat
<1>2. j \in Nat /\ j <= n /\ j <= m /\ t[j] # u[j]
  OBVIOUS
<1>3. t[j] = NumStep(t, j, b) /\ u[j] = NumStep(u, j, b)
  <2>1. j \in 0 .. n /\ j \in 0 .. m
    BY <1>2
  <2> QED  BY <2>1 DEF IsNum
<1>4. ASSUME j >= b PROVE t[j \div b] = u[j \div b]
  <2> DEFINE k == j \div b
  <2>1. k \in 1 .. j - 1
    BY <1>2, <1>4, QuotientLess
  <2> HIDE DEF k
  <2>2. k \in Nat /\ k <= n /\ k <= m /\ ~(j <= k)
    BY <1>2, <2>1
  <2>3. k \notin Bad
    BY <1>1, <2>2
  <2> QED  BY <2>2, <2>3 DEF k
<1>5. j < b \/ j >= b
  BY <1>2
<1> QED  BY <1>2, <1>3, <1>4, <1>5 DEF NumStep

(* The last digit of a numeral is the remainder, the others the            *)
(* quotient's.                                                             *)
LEMMA NumeralIs ==
    ASSUME NEW b \in {10, 16}, NEW n \in Nat
    PROVE  /\ Numeral(n, b) = IF n < b THEN <<n>> ELSE Append(Numeral(n \div b, b), n % b)
           /\ Numeral(n, b) \in Seq(0 .. b - 1)
<1> DEFINE N(k) == CHOOSE t : IsNum(t, k, b)
<1>1. ASSUME NEW k \in Nat PROVE IsNum(N(k), k, b) /\ Numeral(k, b) = N(k)[k]
  <2>1. IsNum(N(k), k, b)
    BY NumExists
  <2>2. Numeral(k, b) = N(k)[k]
    BY DEF Numeral, IsNum, NumStep
  <2> QED  BY <2>1, <2>2
<1> HIDE DEF N
<1>2. ASSUME NEW k \in Nat
      PROVE  Numeral(k, b) = IF k < b THEN <<k>> ELSE Append(Numeral(k \div b, b), k % b)
  <2>1. Numeral(k, b) = NumStep(N(k), k, b)
    BY <1>1 DEF IsNum
  <2>2. ASSUME k >= b PROVE N(k)[k \div b] = Numeral(k \div b, b)
    <3> DEFINE h == k \div b
    <3>1. h \in 1 .. k - 1
      BY <2>2, QuotientLess
    <3> HIDE DEF h
    <3>2. h \in Nat /\ h <= k /\ h <= h
      BY <3>1
    <3>3. N(k)[h] = N(h)[h]
      BY <1>1, <3>2, NumUnique
    <3> QED  BY <1>1, <3>2, <3>3 DEF h
  <2>3. k < b \/ k >= b
    OBVIOUS
  <2> QED  BY <2>1, <2>2, <2>3 DEF NumStep
<1>3. \A k \in Nat : Numeral(k, b) \in Seq(0 .. b - 1)
  <2> DEFINE Bad == {k \in Nat : Numeral(k, b) \notin Seq(0 .. b - 1)}
  <2> SUFFICES ASSUME Bad # {} PROVE FALSE
    OBVIOUS
  <2>1. PICK k \in Bad : \A m \in Bad : k <= m
    <3>1. Bad \subseteq Nat /\ Bad # {}
      OBVIOUS
    <3> HIDE DEF Bad
    <3> QED  BY <3>1, LeastNat
  <2>2. k \in Nat /\ Numeral(k, b) \notin Seq(0 .. b - 1)
    OBVIOUS
  <2>3. CASE k < b
    <3>1. Numeral(k, b) = <<k>> /\ k \in 0 .. b - 1
      BY <1>2, <2>2, <2>3
    <3> QED  BY <2>2, <3>1
  <2>4. CASE k >= b
    <3> DEFINE h == k \div b
               r == k % b
    <3>1. h \in 1 .. k - 1
      BY <2>2, <2>4, QuotientLess
    <3>2. r \in 0 .. b - 1
      BY <2>2
    <3>3. Numeral(k, b) = Append(Numeral(h, b), r)
      BY <1>2, <2>2, <2>4
    <3> HIDE DEF h, r
    <3>4. h \in Nat /\ ~(k <= h)
      BY <2>2, <3>1
    <3>5. Numeral(h, b) \in Seq(0 .. b - 1)
      BY <2>1, <3>4
    <3>6. Numeral(k, b) \in Seq(0 .. b - 1)
      BY <3>2, <3>3, <3>5
    <3> QED  BY <2>2, <3>6
  <2> QED  BY <2>2, <2>3, <2>4
<1> QED  BY <1>2, <1>3

-----------------------------------------------------------------------------
(* The digits of the code, from the last, and those that are used. *)
Bases == {10, 16}
Huge == 1000000000000   \* twelve digits

(* The twelve quotients that int2str goes through, down to nothing. *)
LEMMA DigitsSpec ==
    ASSUME NEW n \in Nat, n < Huge, NEW b \in Bases
    PROVE  \E rest \in [0 .. 12 -> Nat] :
              /\ rest[0] = n /\ rest[12] = 0
              /\ \A i \in 0 .. 11 : /\ rest[i + 1] = rest[i] \div b
                                    /\ Digits(n, b)[i] = rest[i] % b
<1>r1. PICK r1 : r1 = n \div b
  OBVIOUS
<1>r2. PICK r2 : r2 = r1 \div b
  OBVIOUS
<1>r3. PICK r3 : r3 = r2 \div b
  OBVIOUS
<1>r4. PICK r4 : r4 = r3 \div b
  OBVIOUS
<1>r5. PICK r5 : r5 = r4 \div b
  OBVIOUS
<1>r6. PICK r6 : r6 = r5 \div b
  OBVIOUS
<1>r7. PICK r7 : r7 = r6 \div b
  OBVIOUS
<1>r8. PICK r8 : r8 = r7 \div b
  OBVIOUS
<1>r9. PICK r9 : r9 = r8 \div b
  OBVIOUS
<1>r10. PICK r10 : r10 = r9 \div b
  OBVIOUS
<1>r11. PICK r11 : r11 = r10 \div b
  OBVIOUS
<1>r12. PICK r12 : r12 = r11 \div b
  OBVIOUS
<1> DEFINE e(f, i) == IF i = 0 THEN n ELSE f[i - 1] \div b
           Is(f) == f = [i \in 0 .. 12 |-> e(f, i)]
           p == CHOOSE f : Is(f)
           t == <<n, r1, r2, r3, r4, r5, r6, r7, r8, r9, r10, r11, r12>>
           g == [i \in 0 .. 12 |-> t[i + 1]]
<1>1. Is(g)
  <2>1. /\ g[0] = n /\ g[1] = r1 /\ g[2] = r2 /\ g[3] = r3 /\ g[4] = r4 /\ g[5] = r5 /\ g[6] = r6
        /\ g[7] = r7 /\ g[8] = r8 /\ g[9] = r9 /\ g[10] = r10 /\ g[11] = r11 /\ g[12] = r12
    OBVIOUS
  <2>2. g = [i \in 0 .. 12 |-> g[i]]
    OBVIOUS
  <2> HIDE DEF g
  <2>e0. e(g, 0) = g[0]
    BY <2>1
  <2>e1. e(g, 1) = g[1]
    BY <2>1, <1>r1
  <2>e2. e(g, 2) = g[2]
    BY <2>1, <1>r2
  <2>e3. e(g, 3) = g[3]
    BY <2>1, <1>r3
  <2>e4. e(g, 4) = g[4]
    BY <2>1, <1>r4
  <2>e5. e(g, 5) = g[5]
    BY <2>1, <1>r5
  <2>e6. e(g, 6) = g[6]
    BY <2>1, <1>r6
  <2>e7. e(g, 7) = g[7]
    BY <2>1, <1>r7
  <2>e8. e(g, 8) = g[8]
    BY <2>1, <1>r8
  <2>e9. e(g, 9) = g[9]
    BY <2>1, <1>r9
  <2>e10. e(g, 10) = g[10]
    BY <2>1, <1>r10
  <2>e11. e(g, 11) = g[11]
    BY <2>1, <1>r11
  <2>e12. e(g, 12) = g[12]
    BY <2>1, <1>r12
  <2> HIDE DEF e
  <2>4. \A i \in 0 .. 12 : i \in {0, 1, 2, 3, 4, 5, 6, 7, 8, 9, 10, 11, 12}
    OBVIOUS
  <2>5. \A i \in 0 .. 12 : e(g, i) = g[i]
    BY <2>e0, <2>e1, <2>e2, <2>e3, <2>e4, <2>e5, <2>e6, <2>e7, <2>e8, <2>e9, <2>e10, <2>e11, <2>e12, <2>4
  <2> QED  BY <2>2, <2>5
<1>2. Is(p)
  <2> HIDE DEF Is, g
  <2> QED  BY <1>1
<1> HIDE DEF g
<1>3. Digits(n, b) = [i \in 0 .. 11 |-> p[i] % b]
  BY DEF Digits
<1> HIDE DEF p
<1>4. p[0] = n /\ \A i \in 0 .. 11 : p[i + 1] = p[i] \div b
  <2>1. p[0] = e(p, 0)
    BY <1>2
  <2>2. ASSUME NEW i \in 0 .. 11 PROVE p[i + 1] = p[i] \div b
    <3>1. i + 1 \in 0 .. 12 /\ i + 1 # 0 /\ (i + 1) - 1 = i
      OBVIOUS
    <3>2. p[i + 1] = e(p, i + 1)
      BY <1>2, <3>1
    <3> QED  BY <3>1, <3>2
  <2> QED  BY <2>1, <2>2
<1>5. ASSUME NEW x \in Nat, NEW y \in Nat, x < 10 * y PROVE x \div b \in Nat /\ x \div b < y
  <2>1. CASE b = 10
    BY <1>5, <2>1
  <2>2. CASE b = 16
    BY <1>5, <2>2
  <2> QED  BY <2>1, <2>2 DEF Bases
<1>6. p[1] \in Nat /\ p[1] < 100000000000
  BY <1>4, <1>5, 0 \in 0 .. 11, SMT DEF Huge
<1>7. p[2] \in Nat /\ p[2] < 10000000000
  BY <1>4, <1>5, <1>6, 1 \in 0 .. 11
<1>8. p[3] \in Nat /\ p[3] < 1000000000
  BY <1>4, <1>5, <1>7, 2 \in 0 .. 11
<1>9. p[4] \in Nat /\ p[4] < 100000000
  BY <1>4, <1>5, <1>8, 3 \in 0 .. 11
<1>10. p[5] \in Nat /\ p[5] < 10000000
  BY <1>4, <1>5, <1>9, 4 \in 0 .. 11
<1>11. p[6] \in Nat /\ p[6] < 1000000
  BY <1>4, <1>5, <1>10, 5 \in 0 .. 11
<1>12. p[7] \in Nat /\ p[7] < 100000
  BY <1>4, <1>5, <1>11, 6 \in 0 .. 11
<1>13. p[8] \in Nat /\ p[8] < 10000
  BY <1>4, <1>5, <1>12, 7 \in 0 .. 11
<1>14. p[9] \in Nat /\ p[9] < 1000
  BY <1>4, <1>5, <1>13, 8 \in 0 .. 11
<1>15. p[10] \in Nat /\ p[10] < 100
  BY <1>4, <1>5, <1>14, 9 \in 0 .. 11
<1>16. p[11] \in Nat /\ p[11] < 10
  BY <1>4, <1>5, <1>15, 10 \in 0 .. 11
<1>17. p[12] \in Nat /\ p[12] < 1
  BY <1>4, <1>5, <1>16, 11 \in 0 .. 11
<1>18. p \in [0 .. 12 -> Nat]
  <2>1. \A i \in 0 .. 12 : i \in {0, 1, 2, 3, 4, 5, 6, 7, 8, 9, 10, 11, 12}
    OBVIOUS
  <2>2. \A i \in 0 .. 12 : p[i] \in Nat
    BY <1>4, <1>6, <1>7, <1>8, <1>9, <1>10, <1>11, <1>12, <1>13, <1>14, <1>15, <1>16, <1>17, <2>1
  <2>3. p = [i \in 0 .. 12 |-> e(p, i)]
    BY <1>2
  <2> HIDE DEF e
  <2>4. p = [i \in 0 .. 12 |-> p[i]]
    BY <2>3
  <2> QED  BY <2>2, <2>4
<1>19. p[12] = 0
  BY <1>17
<1>20. \A i \in 0 .. 11 : Digits(n, b)[i] = p[i] % b
  BY <1>3
<1> QED  BY <1>4, <1>18, <1>19, <1>20

(* The digits that are used end with the first quotient below the base. *)
LEMMA Significant ==
    ASSUME NEW b \in Bases, NEW rest \in [0 .. 12 -> Nat], rest[12] = 0,
           \A k \in 0 .. 11 : rest[k + 1] = rest[k] \div b
    PROVE  \E z \in 1 .. 12 :
              /\ \A k \in z .. 12 : rest[k] = 0
              /\ \A k \in 0 .. z - 2 : rest[k] >= b
              /\ rest[z - 1] < b /\ (z > 1 => rest[z - 1] # 0)
<1> DEFINE Ends == {z \in Nat : z \in 1 .. 12 /\ rest[z] = 0}
<1>1. PICK z \in Ends : \A y \in Ends : z <= y
  <2>1. 12 \in Ends
    OBVIOUS
  <2>2. Ends \subseteq Nat /\ Ends # {}
    BY <2>1
  <2> HIDE DEF Ends
  <2> QED  BY <2>2, LeastNat
<1>2. z \in 1 .. 12 /\ rest[z] = 0
  OBVIOUS
<1>3. ASSUME NEW k \in 1 .. z - 1 PROVE rest[k] # 0
  <2>1. k \in Nat /\ k \in 1 .. 12 /\ ~(z <= k)
    BY <1>2
  <2> QED  BY <1>1, <2>1
<1> HIDE DEF Ends
<1>4. ASSUME NEW x \in Nat PROVE /\ x \div b = 0 => x < b
                                 /\ x \div b # 0 => x >= b
                                 /\ x = 0 => x \div b = 0
  <2>1. CASE b = 10
    BY <2>1
  <2>2. CASE b = 16
    BY <2>2
  <2> QED  BY <2>1, <2>2 DEF Bases
<1>5. ASSUME NEW k \in 0 .. z - 2 PROVE rest[k] >= b
  <2>1. k + 1 \in 1 .. z - 1 /\ k \in 0 .. 11
    BY <1>2
  <2>2. rest[k + 1] # 0 /\ rest[k + 1] = rest[k] \div b /\ rest[k] \in Nat
    BY <1>3, <2>1
  <2> QED  BY <1>4, <2>2
<1>6. rest[z - 1] < b
  <2>1. z - 1 \in 0 .. 11 /\ (z - 1) + 1 = z
    BY <1>2
  <2>2. rest[z - 1] \div b = 0 /\ rest[z - 1] \in Nat
    BY <1>2, <2>1
  <2> QED  BY <1>4, <2>2
<1>7. z > 1 => rest[z - 1] # 0
  BY <1>2, <1>3
<1>8. \A k \in z .. 12 : rest[k] = 0
  <2> DEFINE Bad == {k \in Nat : k \in z .. 12 /\ rest[k] # 0}
  <2> SUFFICES ASSUME Bad # {} PROVE FALSE
    BY <1>2
  <2>1. PICK k \in Bad : \A j \in Bad : k <= j
    <3>1. Bad \subseteq Nat /\ Bad # {}
      OBVIOUS
    <3> HIDE DEF Bad
    <3> QED  BY <3>1, LeastNat
  <2>2. k \in z .. 12 /\ rest[k] # 0 /\ k # z
    BY <1>2
  <2>3. k - 1 \in z .. 12 /\ k - 1 \in 0 .. 11 /\ k - 1 \in Nat /\ ~(k <= k - 1) /\ (k - 1) + 1 = k
    BY <1>2, <2>2
  <2>4. rest[k - 1] = 0
    BY <2>1, <2>3
  <2>5. rest[k] = rest[k - 1] \div b
    BY <2>3
  <2> QED  BY <1>4, <2>2, <2>4, <2>5
<1> QED  BY <1>2, <1>5, <1>6, <1>7, <1>8

(* A number below the base is its own remainder. *)
LEMMA ModSmall ==
    ASSUME NEW b \in Bases, NEW x \in Nat, x < b
    PROVE  (x % b) = x
<1>1. CASE b = 10
  BY <1>1
<1>2. CASE b = 16
  BY <1>2
<1> QED  BY <1>1, <1>2 DEF Bases

Quotients(rest, b, l) == \A k \in 0 .. l - 1 : rest[k + 1] = rest[k] \div b

(* The remainders of the quotients, last first, are the numeral. *)
LEMMA NumeralOfDigits ==
    ASSUME NEW b \in Bases, NEW l \in Nat, NEW rest \in [0 .. l -> Nat], NEW z \in 1 .. l,
           Quotients(rest, b, l),
           \A k \in 0 .. z - 2 : rest[k] >= b, rest[z - 1] < b
    PROVE  Numeral(rest[0], b) = [k \in 1 .. z |-> rest[z - k] % b]
<1> DEFINE P(m) == Numeral(rest[z - 1 - m], b) = [k \in 1 .. m + 1 |-> rest[z - k] % b]
           Bad == {m \in Nat : m < z /\ ~P(m)}
<1>1. ASSUME Bad # {} PROVE FALSE
  <2>1. PICK m \in Bad : \A y \in Bad : m <= y
    <3>1. Bad \subseteq Nat /\ Bad # {}
      BY <1>1
    <3> HIDE DEF Bad
    <3> QED  BY <3>1, LeastNat
  <2>2. m \in Nat /\ m < z /\ ~P(m)
    OBVIOUS
  <2> HIDE DEF P, Bad
  <2> DEFINE x == rest[z - 1 - m]
             r == x % b
  <2>3. z - 1 - m \in 0 .. l - 1 /\ x \in Nat /\ b \in {10, 16}
    <3>0. m \in 0 .. l - 1 /\ m < z
      BY <2>2
    <3>1. z - 1 - m \in 0 .. l - 1 /\ z - 1 - m \in 0 .. l
      BY <3>0
    <3>2. b \in {10, 16}
      BY DEF Bases
    <3> QED  BY <3>1, <3>2
  <2>4. CASE m = 0
    <3>1. z - 1 - m = z - 1 /\ z - 1 \in 0 .. l
      BY <2>3, <2>4
    <3>2. x = rest[z - 1]
      BY <3>1
    <3>3. Numeral(x, b) = <<x>>
      <4> HIDE DEF x
      <4> QED  BY <2>3, <3>2, NumeralIs
    <3>4. rest[z - 1] % b = x
      <4>1. x < b
        BY <3>2
      <4> HIDE DEF x
      <4> QED  BY <2>3, <3>2, <4>1, ModSmall
    <3>5. [k \in 1 .. m + 1 |-> rest[z - k] % b] = <<x>>
      <4> HIDE DEF x
      <4> QED  BY <2>4, <3>4
    <3> QED  BY <2>2, <3>3, <3>5 DEF P
  <2>5. CASE m > 0
    <3> DEFINE p == m - 1
    <3>1. p \in Nat /\ p < z /\ ~(m <= p) /\ p + 1 = m /\ z - 1 - m \in 0 .. z - 2
          /\ z - 1 - p = (z - 1 - m) + 1
      BY <2>2, <2>5
    <3>2. P(p)
      <4>1. p \notin Bad
        BY <2>1, <3>1
      <4> QED  BY <3>1, <4>1 DEF Bad
    <3>3. rest[z - 1 - p] = x \div b /\ x >= b
      BY <2>3, <3>1 DEF Quotients
    <3>4. Numeral(x, b) = Append(Numeral(rest[z - 1 - p], b), r)
      <4>1. \A y \in Nat : y >= b => Numeral(y, b) = Append(Numeral(y \div b, b), y % b)
        <5>1. ASSUME NEW y \in Nat, y >= b PROVE ~(y < b)
          BY <5>1, <2>3
        <5> QED  BY <2>3, <5>1, NumeralIs
      <4> HIDE DEF x
      <4> QED  BY <2>3, <3>3, <4>1
    <3> DEFINE s == [k \in 1 .. m |-> rest[z - k] % b]
    <3>5. Numeral(x, b) = Append(s, r)
      <4> HIDE DEF x, r
      <4> QED  BY <3>1, <3>2, <3>4 DEF P
    <3>6. [k \in 1 .. m + 1 |-> rest[z - k] % b] = Append(s, r)
      <4>1. rest[z - (m + 1)] % b = r
        BY <2>2, <2>3
      <4>0. r \in Int
        <5> HIDE DEF x
        <5> QED  BY <2>3
      <4>2. \A k \in 1 .. m : s[k] = rest[z - k] % b
        OBVIOUS
      <4>3. s \in Seq(Int) /\ Len(s) = m /\ DOMAIN s = 1 .. m
        <5>1. \A k \in 1 .. m : rest[z - k] % b \in Int
          <6>1. \A y \in Nat : y % b \in Int
            BY <2>3
          <6>2. \A k \in 1 .. m : z - k \in 0 .. l
            BY <2>2
          <6> QED  BY <6>1, <6>2
        <5> QED  BY <2>2, <5>1
      <4> HIDE DEF r, s
      <4>4. Append(s, r) = [k \in 1 .. m + 1 |-> IF k <= m THEN s[k] ELSE r]
        <5> DEFINE w == Append(s, r)
        <5>0. m \in Nat
          BY <2>2
        <5>a. Append(s, r) \in Seq(Int)
          BY <4>0, <4>3
        <5>b. Len(Append(s, r)) = Len(s) + 1
          BY <4>0, <4>3
        <5>c. \A k \in 1 .. Len(s) : Append(s, r)[k] = s[k]
          BY <4>0, <4>3
        <5>d. Append(s, r)[Len(s) + 1] = r
          BY <4>0, <4>3
        <5>1. w \in Seq(Int) /\ Len(w) = m + 1
          BY <5>a, <5>b, <4>3
        <5>2. \A k \in 1 .. m + 1 : w[k] = IF k <= m THEN s[k] ELSE r
          BY <5>0, <5>c, <5>d, <4>3
        <5> HIDE DEF w
        <5>3. w = [k \in 1 .. m + 1 |-> w[k]]
          BY <5>1
        <5> QED  BY <5>2, <5>3 DEF w
      <4>5. ASSUME NEW k \in 1 .. m + 1 PROVE (IF k <= m THEN s[k] ELSE r) = rest[z - k] % b
        <5>1. CASE k <= m
          BY <2>2, <4>2, <5>1
        <5>2. CASE ~(k <= m)
          <6>1. k = m + 1
            BY <2>2, <5>2
          <6> QED  BY <4>1, <5>2, <6>1
        <5> QED  BY <5>1, <5>2
      <4> QED  BY <4>4, <4>5
    <3> QED  BY <2>2, <3>5, <3>6 DEF P
  <2> QED  BY <2>2, <2>4, <2>5
<1>2. z - 1 \in Nat /\ z - 1 < z /\ z - 1 - (z - 1) = 0 /\ (z - 1) + 1 = z
  OBVIOUS
<1>3. P(z - 1)
  <2> HIDE DEF P
  <2> QED  BY <1>1, <1>2
<1> QED  BY <1>2, <1>3

Magnitude(num) == IF num < 0 THEN -num ELSE num
CharOf(num, digit, ds) == IF num = INT_MIN /\ digit # 0 THEN Garbage ELSE ds[digit + 1]

(* int2str looks the digits of the numeral up in its string of digits. *)
LEMMA Int2strByDigit ==
    ASSUME NEW num \in Int, Magnitude(num) < Huge, NEW b \in Bases, NEW ds
    PROVE  LET d == Numeral(Magnitude(num), b)
           IN  int2str(num, b, ds) = (IF num < 0 THEN <<"-">> ELSE <<>>)
                                         \o [k \in 1 .. Len(d) |-> CharOf(num, d[k], ds)]
<1> DEFINE size == Magnitude(num)
           D == Digits(size, b)
           used == {k \in 0 .. 11 : \E j \in k .. 11 : D[j] # 0} \cup {0}
           n == Cardinality(used)
           num0 == Numeral(size, b)
<1>1. size \in Nat
  BY DEF Magnitude
<1>2. PICK rest \in [0 .. 12 -> Nat] : 
              /\ rest[0] = size /\ rest[12] = 0
              /\ \A k \in 0 .. 11 : /\ rest[k + 1] = rest[k] \div b
                                    /\ D[k] = rest[k] % b
  <2> HIDE DEF size
  <2> QED  BY <1>1, DigitsSpec DEF size
<1>e. \A k \in 0 .. 11 : rest[k + 1] = rest[k] \div b
  BY <1>2
<1>3. PICK z \in 1 .. 12 :
              /\ \A k \in z .. 12 : rest[k] = 0
              /\ \A k \in 0 .. z - 2 : rest[k] >= b
              /\ rest[z - 1] < b /\ (z > 1 => rest[z - 1] # 0)
  <2>1. rest[12] = 0
    BY <1>2
  <2> HIDE DEF D, size
  <2> QED  BY <1>e, <2>1, Significant
<1>4. num0 = [k \in 1 .. z |-> rest[z - k] % b]
  <2>1. rest[0] = size
    BY <1>2
  <2>2. /\ \A k \in 0 .. z - 2 : rest[k] >= b
        /\ rest[z - 1] < b
    BY <1>3
  <2> HIDE DEF D, size
  <2>4. Quotients(rest, b, 12)
    BY <1>e DEF Quotients
  <2>3. Numeral(rest[0], b) = [k \in 1 .. z |-> rest[z - k] % b]
    <3>1. PICK l \in Nat : l = 12
      OBVIOUS
    <3>2. rest \in [0 .. l -> Nat] /\ z \in 1 .. l /\ Quotients(rest, b, l)
      BY <2>4, <3>1
    <3> QED  BY <2>2, <3>2, NumeralOfDigits
  <2> HIDE DEF used, n
  <2> QED  BY <2>1, <2>3, SMT
<1>5. int2str(num, b, ds) = (IF num < 0 THEN <<"-">> ELSE <<>>)
                                \o [k \in 1 .. n |-> CharOf(num, D[n - k], ds)]
  BY DEF int2str, CharOf, Magnitude
<1> HIDE DEF D, size
<1>6. used = 0 .. z - 1
  <2>1. ASSUME NEW k \in 0 .. z - 1 PROVE k \in used
    <3>1. CASE z = 1
      <4>1. k = 0
        BY <3>1
      <4> QED  BY <4>1
    <3>2. CASE z > 1
      <4>1. z - 1 \in 0 .. 11 /\ k \in 0 .. 11 /\ z - 1 \in k .. 11 /\ z - 1 \in 0 .. 12
        OBVIOUS
      <4>2. rest[z - 1] \in Nat /\ rest[z - 1] # 0 /\ rest[z - 1] < b
        BY <1>3, <3>2, <4>1
      <4>3. D[z - 1] # 0
        <5>1. D[z - 1] = rest[z - 1] % b
          BY <1>2, <4>1
        <5>2. (rest[z - 1] % b) = rest[z - 1]
          BY <4>2, ModSmall
        <5> QED  BY <4>2, <5>1, <5>2
      <4> QED  BY <4>1, <4>3
    <3> QED  BY <3>1, <3>2
  <2>2. ASSUME NEW k \in used PROVE k \in 0 .. z - 1
    <3>1. CASE k = 0
      BY <3>1
    <3>2. CASE k # 0
      <4>1. k \in 0 .. 11
        BY <3>2
      <4>2. PICK j \in k .. 11 : D[j] # 0
        BY <3>2
      <4> HIDE DEF used
      <4>3. SUFFICES ASSUME k >= z PROVE FALSE
        BY <4>1
      <4>4. j \in z .. 12 /\ j \in 0 .. 11 /\ 0 \in Nat /\ 0 < b
        BY <4>1, <4>3 DEF Bases
      <4>5. rest[j] = 0
        BY <1>3, <4>4
      <4>6. (rest[j] % b) = 0
        BY <4>4, <4>5, ModSmall
      <4>7. D[j] = (rest[j] % b)
        BY <1>2, <4>4
      <4> QED  BY <4>2, <4>6, <4>7
    <3> QED  BY <3>1, <3>2
  <2> HIDE DEF used
  <2>3. used \subseteq 0 .. z - 1 /\ 0 .. z - 1 \subseteq used
    BY <2>1, <2>2
  <2> QED  BY <2>3
<1>7. n = z
  <2>1. 0 \in Int /\ z - 1 \in Int /\ 0 <= z - 1 /\ (z - 1) - 0 + 1 = z
    OBVIOUS
  <2>2. Cardinality(0 .. z - 1) = z
    BY <2>1, FS_Interval
  <2> HIDE DEF used
  <2> QED  BY <1>6, <2>2
<1> HIDE DEF used, n
<1>8. Len(num0) = z /\ \A k \in 1 .. z : num0[k] = rest[z - k] % b
  <2> HIDE DEF num0
  <2>1. num0 \in Seq(0 .. b - 1)
    BY <1>1, NumeralIs DEF num0, Bases
  <2>2. DOMAIN num0 = 1 .. z
    BY <1>4
  <2> QED  BY <1>4, <2>1, <2>2
<1>9. ASSUME NEW k \in 1 .. z PROVE D[z - k] = num0[k]
  <2>1. z - k \in 0 .. 11
    OBVIOUS
  <2> HIDE DEF num0
  <2> QED  BY <1>2, <1>8, <2>1
<1>10. [k \in 1 .. n |-> CharOf(num, D[n - k], ds)] = [k \in 1 .. Len(num0) |-> CharOf(num, num0[k], ds)]
  <2> HIDE DEF num0
  <2> QED  BY <1>7, <1>8, <1>9
<1> HIDE DEF num0
<1> QED  BY <1>5, <1>10, Zenon DEF num0, size

(* Every number but INT_MIN is printed as its numeral.                     *)
LEMMA Int2strIs ==
    ASSUME NEW num \in Int, num # INT_MIN, Magnitude(num) < Huge, NEW b \in Bases, NEW ds
    PROVE  int2str(num, b, ds) = Signed(num, b, ds)
<1> DEFINE d == Numeral(Magnitude(num), b)
<1>1. int2str(num, b, ds) = (IF num < 0 THEN <<"-">> ELSE <<>>)
                                         \o [k \in 1 .. Len(d) |-> CharOf(num, d[k], ds)]
  BY Int2strByDigit
<1>2. Magnitude(num) \in Nat
  BY DEF Magnitude
<1>3. d \in Seq(0 .. b - 1)
  BY <1>2, NumeralIs DEF Bases
<1>4. Spelled(d, ds) = [k \in 1 .. Len(d) |-> ds[d[k] + 1]]
  <2> HIDE DEF d
  <2>1. DOMAIN d = 1 .. Len(d)
    BY <1>3
  <2> QED  BY <2>1 DEF Spelled
<1>5. [k \in 1 .. Len(d) |-> CharOf(num, d[k], ds)] = Spelled(d, ds)
  <2> HIDE DEF d
  <2> QED  BY <1>4 DEF CharOf
<1>6. Signed(num, b, ds) = IF num < 0 THEN <<"-">> \o Spelled(d, ds) ELSE Spelled(d, ds)
  BY DEF Signed, Magnitude
<1>7. Spelled(d, ds) \in Seq({ds[k + 1] : k \in 0 .. b - 1})
  <2> HIDE DEF d
  <2> HIDE DEF d
  <2>1. Len(d) \in Nat /\ \A k \in 1 .. Len(d) : d[k] \in 0 .. b - 1
    BY <1>3 DEF Bases
  <2> DEFINE S == {ds[j + 1] : j \in 0 .. b - 1}
  <2>2. \A k \in 1 .. Len(d) : ds[d[k] + 1] \in S
    BY <2>1
  <2> HIDE DEF S
  <2>3. [k \in 1 .. Len(d) |-> ds[d[k] + 1]] \in Seq(S)
    BY <2>1, <2>2
  <2> QED  BY <1>4, <2>3 DEF S
<1>8. <<>> \o Spelled(d, ds) = Spelled(d, ds)
  <2> DEFINE s == Spelled(d, ds)
             S == {ds[k + 1] : k \in 0 .. b - 1}
  <2>1. s \in Seq(S)
    BY <1>7
  <2> HIDE DEF s, S
  <2> QED  BY <2>1 DEF s
<1> HIDE DEF d
<1> QED  BY <1>1, <1>5, <1>6, <1>8

-----------------------------------------------------------------------------
(* Numbers fit in twelve digits, and their text is of characters. *)
LEMMA Widths ==
    /\ INT_MAX \in Nat /\ ULONG \in Nat /\ ULONG = INT_MAX + INT_MAX + 2 /\ INT_MIN = -INT_MAX - 1
    /\ KILO \in Nat \ {0}
    /\ \A num \in INT_MIN .. INT_MAX : num \in Int /\ Magnitude(num) < Huge
    /\ \A num \in 0 .. ULONG - 1 : num \in Int /\ num # INT_MIN /\ Magnitude(num) < Huge
<1> DEFINE q == INT_MAX \div 1000000
           r == INT_MAX % 1000000
<1>1. INT_MAX \in Nat /\ KILO \in Nat \ {0}
  BY PrintAssumption, SMT
<1>2. q < 500000
  BY PrintAssumption, SMT
<1>3. q \in Nat /\ r \in Nat /\ r < 1000000 /\ INT_MAX = q * 1000000 + r
  BY <1>1, SMT
<1> HIDE DEF q, r
<1>4. INT_MAX < 500000000000
  BY <1>1, <1>2, <1>3, SMT
<1>5. ULONG \in Nat /\ ULONG = INT_MAX + INT_MAX + 2 /\ INT_MIN = -INT_MAX - 1
  BY <1>1, SMT DEF ULONG, INT_MIN
<1>6. \A num \in INT_MIN .. INT_MAX : num \in Int /\ Magnitude(num) < Huge
  BY <1>1, <1>4, <1>5, SMT DEF Magnitude, Huge
<1>7. \A num \in 0 .. ULONG - 1 : num \in Int /\ num # INT_MIN /\ Magnitude(num) < Huge
  BY <1>1, <1>4, <1>5, SMT DEF Magnitude, Huge
<1> QED  BY <1>1, <1>5, <1>6, <1>7

(* The letters of numbers are characters a screen shows. *)
LEMMA LetterIsChar == Letters \subseteq Chars
BY PrintAssumption, SMT DEF Chars

(* So are both sets of digits, the signs and the suffixes. *)
LEMMA DigitIsLetter ==
    /\ \A k \in 1 .. 16 : digit_str_l[k] \in Letters /\ digit_str_u[k] \in Letters
    /\ Garbage \in Letters
    /\ "-" \in Letters /\ "+" \in Letters /\ "%" \in Letters /\ "G" \in Letters /\ "M" \in Letters /\ "k" \in Letters
<1> HIDE DEF digit_str_l, digit_str_u, Garbage
<1> QED  BY DEF Letters

(* What int2str makes of a number is text, *)
LEMMA Int2strText ==
    ASSUME NEW num \in Int, Magnitude(num) < Huge, NEW b \in Bases,
           NEW ds \in {digit_str_l, digit_str_u}
    PROVE  int2str(num, b, ds) \in Seq(Chars)
<1> DEFINE d == Numeral(Magnitude(num), b)
           t == [k \in 1 .. Len(d) |-> CharOf(num, d[k], ds)]
           sign == IF num < 0 THEN <<"-">> ELSE <<>>
<1>1. int2str(num, b, ds) = sign \o t
  BY Int2strByDigit
<1>2. d \in Seq(0 .. b - 1)
  <2>1. Magnitude(num) \in Nat
    BY DEF Magnitude
  <2> QED  BY <2>1, NumeralIs DEF Bases
<1>3. ASSUME NEW k \in 1 .. Len(d) PROVE CharOf(num, d[k], ds) \in Chars
  <2>1. d[k] + 1 \in 1 .. 16
    <3> HIDE DEF d
    <3>1. d[k] \in 0 .. b - 1
      BY <1>2 DEF Bases
    <3>2. b \in Nat /\ b <= 16
      BY DEF Bases
    <3>3. d[k] \in Nat /\ d[k] + 1 <= 16 /\ d[k] + 1 >= 1
      BY <3>1, <3>2
    <3>4. \A x \in Nat : x + 1 <= 16 => x + 1 \in 1 .. 16
      OBVIOUS
    <3> QED  BY <3>3, <3>4, Zenon
  <2>2. ds[d[k] + 1] \in Letters
    <3> HIDE DEF d
    <3> QED  BY <2>1, DigitIsLetter
  <2> HIDE DEF d
  <2> QED  BY <2>2, DigitIsLetter, LetterIsChar DEF CharOf
<1>4. t \in Seq(Chars)
  <2>1. Len(d) \in Nat
    BY <1>2
  <2> HIDE DEF d
  <2> QED  BY <1>3, <2>1
<1>5. sign \in Seq(Chars)
  BY DigitIsLetter, LetterIsChar
<1> HIDE DEF t, sign
<1> QED  BY <1>1, <1>4, <1>5

(* and so is what it should make of it. *)
LEMMA SignedText ==
    ASSUME NEW num \in Int, NEW b \in Bases, NEW ds \in {digit_str_l, digit_str_u}
    PROVE  Signed(num, b, ds) \in Seq(Chars)
<1> DEFINE d == Numeral(Magnitude(num), b)
           t == Spelled(d, ds)
<1>1. Signed(num, b, ds) = IF num < 0 THEN <<"-">> \o t ELSE t
  BY DEF Signed, Magnitude
<1>2. d \in Seq(0 .. b - 1)
  <2>1. Magnitude(num) \in Nat
    BY DEF Magnitude
  <2> QED  BY <2>1, NumeralIs DEF Bases
<1> HIDE DEF d
<1>3. DOMAIN d = 1 .. Len(d) /\ Len(d) \in Nat
  BY <1>2
<1>4. ASSUME NEW k \in 1 .. Len(d) PROVE ds[d[k] + 1] \in Chars
  <2>1. d[k] \in 0 .. b - 1
    BY <1>2 DEF Bases
  <2>2. b \in Nat /\ b <= 16
    BY DEF Bases
  <2>3. d[k] \in Nat /\ d[k] + 1 <= 16 /\ d[k] + 1 >= 1
    BY <2>1, <2>2
  <2>4. \A x \in Nat : x + 1 <= 16 => x + 1 \in 1 .. 16
    OBVIOUS
  <2>5. d[k] + 1 \in 1 .. 16
    BY <2>3, <2>4, Zenon
  <2> QED  BY <2>5, DigitIsLetter, LetterIsChar
<1>5. t \in Seq(Chars)
  BY <1>3, <1>4 DEF Spelled
<1>6. <<"-">> \in Seq(Chars)
  BY DigitIsLetter, LetterIsChar
<1> HIDE DEF t
<1>7. <<"-">> \o t \in Seq(Chars)
  BY <1>5, <1>6
<1> QED  BY <1>1, <1>5, <1>7

-----------------------------------------------------------------------------

(* The remainder of a bigger unit, counted in a smaller one. *)
LEMMA NestedQuotient ==
    ASSUME NEW a \in Nat, NEW m \in Nat \ {0}, NEW k \in Nat \ {0}
    PROVE  ((a % (m * k)) \div m) = ((a \div m) % k)
<1> DEFINE p == m * k
           q == a \div p
           r == a % p
           r1 == r \div m
           r0 == r % m
<1>1. p \in Nat /\ p > 0
  BY SMT
<1> HIDE DEF p
<1>2. q \in Nat /\ r \in 0 .. p - 1 /\ a = q * p + r
  BY <1>1, DivMod
<1> HIDE DEF q, r
<1>3. r1 \in Nat /\ r0 \in 0 .. m - 1 /\ r = r1 * m + r0
  BY <1>2, DivMod
<1> HIDE DEF r1, r0
<1>4. r1 \in 0 .. k - 1
  <2> SUFFICES ASSUME r1 >= k PROVE FALSE
    BY <1>3
  <2>1. r1 * m >= k * m
    BY <1>3
  <2>2. k * m = p /\ r1 * m \in Nat
    BY <1>3 DEF p
  <2> QED  BY <1>2, <1>3, <2>1, <2>2
<1> DEFINE s == q * k + r1
<1>5. s \in Nat
  BY <1>2, <1>3
<1>6. a = s * m + r0
  <2>1. q * p = (q * k) * m
    BY <1>2 DEF p
  <2>2. s * m = (q * k) * m + r1 * m
    BY <1>2, <1>3
  <2>3. q * p \in Nat /\ r1 * m \in Nat /\ s * m \in Nat
    BY <1>1, <1>2, <1>3, <1>5
  <2> HIDE DEF s
  <2> DEFINE u == q * p
             v == r1 * m
             w == s * m
  <2>4. w = u + v /\ u \in Nat /\ v \in Nat /\ a = u + r /\ r = v + r0 /\ r0 \in Nat
    BY <1>2, <1>3, <2>1, <2>2, <2>3
  <2>5. a = w + r0
    <3> HIDE DEF u, v, w
    <3> QED  BY <2>4
  <2> QED  BY <2>5
<1>7. (a \div m) = s
  <2> HIDE DEF s
  <2> QED  BY <1>3, <1>5, <1>6, QuotientIs
<1>8. (s % k) = r1
  <2>1. s = q * k + r1
    OBVIOUS
  <2> HIDE DEF s
  <2> QED  BY <1>2, <1>4, <1>5, <2>1, QuotientIs
<1> HIDE DEF s
<1> QED  BY <1>7, <1>8, Zenon DEF r1, r, p

(* A quotient is no larger than the number, and 0 below the unit. *)
LEMMA QuotientBound ==
    ASSUME NEW a \in Nat, NEW m \in Nat \ {0}
    PROVE  /\ a \div m \in 0 .. a
           /\ a < m => a \div m = 0
           /\ a >= m => a \div m # 0
           /\ a % m \in 0 .. a
<1> DEFINE q == a \div m
           r == a % m
<1>1. q \in Nat /\ r \in 0 .. m - 1 /\ a = q * m + r
  BY DivMod
<1> HIDE DEF q, r
<1>2. q * m >= q /\ q * m \in Nat
  BY <1>1
<1>3. q # 0 => q * m >= m
  BY <1>1
<1>4. q = 0 => q * m = 0
  BY <1>1
<1>5. q \in 0 .. a /\ r \in 0 .. a
  BY <1>1, <1>2
<1>6. (a < m => q = 0) /\ (a >= m => q # 0)
  BY <1>1, <1>2, <1>3, <1>4
<1> QED  BY <1>5, <1>6 DEF q, r

(* long conversions are modulo the width of a long.                        *)
LEMMA ToUnsigned ==
    ASSUME NEW num \in INT_MIN .. INT_MAX
    PROVE  /\ num % ULONG = IF num < 0 THEN num + ULONG ELSE num
           /\ num % ULONG \in 0 .. ULONG - 1
<1> DEFINE U == ULONG
           q == num \div U
           r == num % U
<1>1. U \in Nat /\ U > 0 /\ num \in Int /\ -U <= num /\ num < U
  BY Widths
<1> HIDE DEF U
<1>2. q \in Int /\ r \in 0 .. U - 1 /\ num = q * U + r
  BY <1>1
<1> HIDE DEF q, r
<1>3. ~(q >= 1) /\ ~(q <= -2)
  <2>1. ASSUME q >= 1 PROVE FALSE
    <3>1. q * U >= U
      BY <1>1, <1>2, <2>1
    <3> QED  BY <1>1, <1>2, <3>1
  <2>2. ASSUME q <= -2 PROVE FALSE
    <3>1. q * U <= (-2) * U
      BY <1>1, <1>2, <2>2
    <3> QED  BY <1>1, <1>2, <3>1
  <2> QED  BY <2>1, <2>2
<1>4. q = 0 \/ q = -1
  BY <1>2, <1>3
<1>5. (q = 0 => r = num) /\ (q = -1 => r = num + U)
  BY <1>1, <1>2
<1>6. r = IF num < 0 THEN num + U ELSE num
  BY <1>1, <1>2, <1>4, <1>5
<1> QED  BY <1>2, <1>6, Zenon DEF r, U

(* Text, and its concatenation. *)
Strings == Seq(Chars)
LEMMA Concat ==
    /\ <<>> \in Strings
    /\ \A s, t \in Strings : s \o t \in Strings /\ (s \o t = <<>> <=> s = <<>> /\ t = <<>>)
    /\ \A s \in Strings : s \o <<>> = s /\ <<>> \o s = s
    /\ \A s, t, v \in Strings : (s \o t) \o v = s \o (t \o v)
    /\ \A c \in Chars : <<c>> \in Strings /\ <<c>> # <<>>
<1>1. \A s, t \in Strings : s \o t \in Strings /\ (s \o t = <<>> <=> s = <<>> /\ t = <<>>)
  BY ConcatProperties, ConcatEqualIffEmpty DEF Strings
<1>2. \A s \in Strings : s \o <<>> = s /\ <<>> \o s = s
  BY ConcatEmptySeq DEF Strings
<1>3. \A s, t, v \in Strings : (s \o t) \o v = s \o (t \o v)
  BY ConcatAssociative DEF Strings
<1>4. <<>> \in Strings /\ \A c \in Chars : <<c>> \in Strings /\ <<c>> # <<>>
  BY DEF Strings
<1> QED  BY <1>1, <1>2, <1>3, <1>4

(* Three strings one after the other. *)
LEMMA ConcatThree ==
    ASSUME NEW s \in Strings, NEW t \in Strings, NEW v \in Strings
    PROVE  (s \o t) \o v = s \o (t \o v) /\ t \o v \in Strings
<1>1. t \o v \in Strings
  BY Concat, Zenon
<1>2. (s \o t) \o v = s \o (t \o v)
  BY ConcatAssociative DEF Strings
<1> QED  BY <1>1, <1>2

Joined(s) == s \o (IF s = <<>> THEN <<>> ELSE <<"+">>)

(* A unit of a long: nothing when there is none of it, else its number     *)
(* with the suffix and a sign.                                             *)
LEMMA WithUnitIs ==
    ASSUME NEW str \in Strings, NEW num \in 0 .. ULONG - 1, NEW unit \in Nat \ {0}, NEW suffix \in Strings, suffix # <<>>
    PROVE  /\ WithUnit(str, num, unit, suffix) \in Strings
           /\ Unit(num \div unit, suffix) \in Strings
           /\ Joined(WithUnit(str, num, unit, suffix)) = Joined(str) \o Unit(num \div unit, suffix)
<1> DEFINE q == num \div unit
           n == int2str(q, 10, digit_str_l)
           w == WithUnit(str, num, unit, suffix)
           u == Unit(q, suffix)
<1>1. num \in Nat /\ q \in 0 .. ULONG - 1 /\ (num < unit => q = 0) /\ (~(num < unit) => q # 0)
  <2>1. num \in Nat
    BY Widths
  <2>2. q \in 0 .. num /\ (num < unit => q = 0) /\ (num >= unit => q # 0)
    BY <2>1, QuotientBound
  <2> HIDE DEF q
  <2> QED  BY <2>1, <2>2, Widths
<1>2. w = IF num < unit THEN str ELSE Joined(str) \o n \o suffix
  BY DEF WithUnit, Joined
<1>3. u = IF q = 0 THEN <<>> ELSE n \o suffix \o <<"+">>
  <2>1. q \in Int /\ q # INT_MIN /\ Magnitude(q) < Huge /\ 10 \in Bases
    <3> HIDE DEF q
    <3> QED  BY <1>1, Widths DEF Bases
  <2>2. n = Signed(q, 10, digit_str_l)
    <3> HIDE DEF q
    <3> QED  BY <2>1, Int2strIs
  <2> HIDE DEF n, q
  <2> QED  BY <2>2, Zenon DEF Unit
<1>4. n \in Strings
  <2>1. q \in Int /\ Magnitude(q) < Huge /\ 10 \in Bases
    <3> HIDE DEF q
    <3> QED  BY <1>1, Widths DEF Bases
  <2> HIDE DEF q
  <2> QED  BY <2>1, Int2strText DEF Strings
<1>5. <<"+">> \in Strings /\ <<"+">> # <<>>
  BY DigitIsLetter, LetterIsChar, Concat
<1>6. Joined(str) \in Strings
  BY <1>5, Concat DEF Joined
<1> HIDE DEF q, n, w, u
<1>7. CASE num < unit
  <2>1. w = str /\ u = <<>>
    BY <1>1, <1>2, <1>3, <1>7
  <2>2. Joined(w) = Joined(str) \o u
    BY <1>6, <2>1, Concat
  <2> QED  BY <2>1, <2>2, Concat DEF w, u, q
<1>8. CASE ~(num < unit)
  <2> DEFINE j == Joined(str)
             plus == <<"+">>
  <2>1. w = (j \o n) \o suffix /\ u = (n \o suffix) \o plus
    BY <1>1, <1>2, <1>3, <1>8
  <2> HIDE DEF j, plus
  <2>2. j \in Strings /\ plus \in Strings
    BY <1>5, <1>6 DEF j, plus
  <2>3. j \o n \in Strings /\ n \o suffix \in Strings
    BY <1>4, <2>2, Concat
  <2>4. w \in Strings /\ u \in Strings /\ w # <<>>
    BY <2>1, <2>2, <2>3, Concat
  <2>5. Joined(w) = w \o plus
    BY <2>4 DEF Joined, plus
  <2>6. (j \o n) \o suffix = j \o (n \o suffix)
    <3>1. j \in Strings /\ n \in Strings /\ suffix \in Strings
      BY <1>4, <2>2, Zenon
    <3> QED  BY <3>1, ConcatThree, ZenonT(60)
  <2>7. w = j \o (n \o suffix)
    BY <2>1, <2>6, Zenon
  <2>8. w \o plus = j \o ((n \o suffix) \o plus)
    <3> DEFINE a == n \o suffix
    <3>1. w = j \o a /\ a \in Strings
      BY <2>3, <2>7
    <3> HIDE DEF a
    <3>2. (j \o a) \o plus = j \o (a \o plus)
      <4>1. j \in Strings /\ a \in Strings /\ plus \in Strings
        BY <2>2, <3>1, Zenon
      <4> QED  BY <4>1, ConcatThree, ZenonT(60)
    <3> QED  BY <3>1, <3>2, Zenon DEF a
  <2> QED  BY <2>1, <2>4, <2>5, <2>8 DEF j, w, u, q
<1> QED  BY <1>7, <1>8

(* long2str_10h prints a long as the sum of its units. *)
LEMMA LongIs ==
    ASSUME NEW num \in 0 .. ULONG - 1
    PROVE  long2str_10h(num) = Units(num) /\ Units(num) \in Strings
<1> DEFINE K == KILO
           M == K * K
           G == M * K
           x == num % G
           y == num % M
           z == num % K
           sg == <<"G">>
           sm == <<"M">>
           sk == <<"k">>
           g == WithUnit(<<>>, num, G, sg)
           m == WithUnit(g, x, M, sm)
           k == WithUnit(m, y, K, sk)
           tail == int2str(z, 10, digit_str_l)
<1>1. K \in Nat \ {0} /\ M \in Nat \ {0} /\ G \in Nat \ {0}
  <2>1. K \in Nat \ {0}
    BY Widths
  <2> HIDE DEF K
  <2>2. M \in Nat \ {0}
    BY <2>1, SMT
  <2> HIDE DEF M
  <2>3. G \in Nat \ {0}
    BY <2>1, <2>2, SMT
  <2> QED  BY <2>1, <2>2, <2>3
<1>2. num \in Nat
  BY Widths
<1>3. long2str_10h(num) = Joined(k) \o tail
  BY DEF long2str_10h, Joined
<1> DEFINE ug == Unit(num \div G, sg)
           um == Unit(x \div M, sm)
           uk == Unit(y \div K, sk)
<1>4. (x \div M) = ((num \div M) % K) /\ (y \div K) = ((num \div K) % K)
  <2>1. (x \div M) = ((num \div M) % K)
    <3> HIDE DEF K, M
    <3> QED  BY <1>1, <1>2, NestedQuotient
  <2>2. (y \div K) = ((num \div K) % K)
    <3> HIDE DEF K
    <3> QED  BY <1>1, <1>2, NestedQuotient
  <2> QED  BY <2>1, <2>2, Zenon
<1>5. Units(num) = ug \o um \o uk \o Signed(z, 10, digit_str_l)
  <2>1. (x \div M) = ((num \div (KILO * KILO)) % KILO) /\ (y \div K) = ((num \div KILO) % KILO)
    BY <1>4
  <2> HIDE DEF x, y
  <2> QED  BY <2>1, Zenon DEF Units
<1> HIDE DEF K, M, G
<1>6. x \in 0 .. ULONG - 1 /\ y \in 0 .. ULONG - 1 /\ z \in 0 .. ULONG - 1
  <2>1. x \in 0 .. num /\ y \in 0 .. num /\ z \in 0 .. num
    BY <1>1, <1>2, QuotientBound
  <2> HIDE DEF x, y, z
  <2> QED  BY <1>2, <2>1, Widths
<1>7. sg \in Strings /\ sm \in Strings /\ sk \in Strings /\ sg # <<>> /\ sm # <<>> /\ sk # <<>> /\ <<>> \in Strings
  BY DigitIsLetter, LetterIsChar, Concat
<1> HIDE DEF sg, sm, sk
<1>8. g \in Strings /\ ug \in Strings /\ Joined(g) = Joined(<<>>) \o ug
  BY <1>1, <1>7, WithUnitIs
<1> HIDE DEF x, y, z, g, ug
<1>9. m \in Strings /\ um \in Strings /\ Joined(m) = Joined(g) \o um
  <2>1. g \in Strings /\ x \in 0 .. ULONG - 1 /\ M \in Nat \ {0} /\ sm \in Strings /\ sm # <<>>
    BY <1>1, <1>6, <1>7, <1>8
  <2> QED  BY <2>1, WithUnitIs
<1> HIDE DEF m, um
<1>10. k \in Strings /\ uk \in Strings /\ Joined(k) = Joined(m) \o uk
  <2>1. m \in Strings /\ y \in 0 .. ULONG - 1 /\ K \in Nat \ {0} /\ sk \in Strings /\ sk # <<>>
    BY <1>1, <1>6, <1>7, <1>9
  <2> QED  BY <2>1, WithUnitIs
<1> HIDE DEF k, uk
<1>11. Joined(<<>>) \o ug = ug
  BY <1>8, Concat DEF Joined
<1>12. Joined(k) = (ug \o um) \o uk
  BY <1>8, <1>9, <1>10, <1>11
<1>13. tail = Signed(z, 10, digit_str_l) /\ tail \in Strings
  <2>1. z \in Int /\ z # INT_MIN /\ Magnitude(z) < Huge /\ 10 \in Bases
    BY <1>6, Widths DEF Bases
  <2> QED  BY <2>1, Int2strIs, Int2strText DEF Strings
<1> HIDE DEF tail
<1>14. long2str_10h(num) = Units(num)
  BY <1>3, <1>5, <1>12, <1>13, Zenon
<1>15. ((ug \o um) \o uk) \o tail \in Strings
  BY <1>8, <1>9, <1>10, <1>13, Concat
<1> QED  BY <1>3, <1>12, <1>14, <1>15

(* What a conversion prints is what it should print.                       *)
LEMMA ConvertedIs ==
    ASSUME NEW c \in Conversions,
           NEW arg \in (IF c = "s" THEN [str : Strings] ELSE [int : INT_MIN .. INT_MAX])
    PROVE  /\ Converted(c, arg) \in Strings /\ Wanted(c, arg) \in Strings
           /\ arg # [int |-> INT_MIN] => Converted(c, arg) = Wanted(c, arg)
<1>1. CASE c = "s"
  <2>1. arg.str \in Strings
    BY <1>1
  <2>2. Converted(c, arg) = arg.str /\ Wanted(c, arg) = arg.str
    BY <1>1 DEF Converted, Wanted
  <2> QED  BY <2>1, <2>2
<1>2. CASE c # "s"
  <2> DEFINE n == arg.int
  <2>1. n \in INT_MIN .. INT_MAX /\ arg = [int |-> n]
    BY <1>2
  <2>2. c \in {"i", "d", "x", "X", "H"}
    BY <1>2 DEF Conversions
  <2>3. Converted(c, arg) = IF c = "x" THEN int2str(n, 16, digit_str_l)
                            ELSE IF c = "X" THEN int2str(n, 16, digit_str_u)
                            ELSE IF c = "H" THEN long2str_10h(n % ULONG) ELSE int2str(n, 10, digit_str_l)
    BY <2>2 DEF Converted
  <2>4. Wanted(c, arg) = IF c = "x" THEN Signed(n, 16, digit_str_l)
                         ELSE IF c = "X" THEN Signed(n, 16, digit_str_u)
                         ELSE IF c = "H" THEN Units(IF n < 0 THEN n + ULONG ELSE n) ELSE Signed(n, 10, digit_str_l)
    BY <2>2 DEF Wanted
  <2> HIDE DEF n
  <2>5. CASE c = "H"
    <3>1. long2str_10h(n % ULONG) = Units(n % ULONG) /\ Units(n % ULONG) \in Strings
      BY <2>1, ToUnsigned, LongIs
    <3>2. n % ULONG = IF n < 0 THEN n + ULONG ELSE n
      BY <2>1, ToUnsigned
    <3>3. Units(n % ULONG) = Units(IF n < 0 THEN n + ULONG ELSE n)
      BY <3>2, Zenon
    <3>4. Converted(c, arg) = long2str_10h(n % ULONG) /\ Wanted(c, arg) = Units(IF n < 0 THEN n + ULONG ELSE n)
      BY <2>3, <2>4, <2>5
    <3> QED  BY <3>1, <3>3, <3>4, Zenon
  <2>6. ASSUME NEW b \in Bases, NEW ds \in {digit_str_l, digit_str_u}
        PROVE  /\ int2str(n, b, ds) \in Strings /\ Signed(n, b, ds) \in Strings
               /\ n # INT_MIN => int2str(n, b, ds) = Signed(n, b, ds)
    <3>1. n \in Int /\ Magnitude(n) < Huge
      BY <2>1, Widths
    <3>2. int2str(n, b, ds) \in Strings
      BY <3>1, Int2strText DEF Strings
    <3>3. n # INT_MIN => int2str(n, b, ds) = Signed(n, b, ds)
      BY <3>1, Int2strIs
    <3>4. Signed(n, b, ds) \in Strings
      BY <3>1, SignedText DEF Strings
    <3> QED  BY <3>2, <3>3, <3>4
  <2>7. 10 \in Bases /\ 16 \in Bases
    BY DEF Bases
  <2>8. CASE c # "H"
    <3>1. arg # [int |-> INT_MIN] => n # INT_MIN
      BY <2>1
    <3>2. \A b \in Bases, ds \in {digit_str_l, digit_str_u} :
             /\ int2str(n, b, ds) \in Strings /\ Signed(n, b, ds) \in Strings
             /\ n # INT_MIN => int2str(n, b, ds) = Signed(n, b, ds)
      BY <2>6
    <3> HIDE DEF digit_str_l, digit_str_u
    <3> QED  BY <2>3, <2>4, <2>7, <2>8, <3>1, <3>2
  <2> QED  BY <2>5, <2>8
<1> QED  BY <1>1, <1>2

-----------------------------------------------------------------------------
(* The text of a call, piece by piece. *)
TextStep(t, c, j) == IF j = 0 THEN <<>> ELSE t[j - 1] \o Piece(c, j)
IsText(t, c, n) == t = [j \in 0 .. n |-> TextStep(t, c, j)]

(* There are texts of a format up to every place, *)
LEMMA TextExists ==
    ASSUME NEW c
    PROVE  \A n \in Nat : \E t : IsText(t, c, n)
<1> DEFINE Bad == {n \in Nat : ~\E t : IsText(t, c, n)}
<1> SUFFICES ASSUME Bad # {} PROVE FALSE
  OBVIOUS
<1>1. PICK n \in Bad : \A m \in Bad : n <= m
  <2>1. Bad \subseteq Nat /\ Bad # {}
    OBVIOUS
  <2> HIDE DEF Bad
  <2> QED  BY <2>1, LeastNat
<1>2. n \in Nat /\ ~\E t : IsText(t, c, n)
  OBVIOUS
<1>3. PICK u : n > 0 => IsText(u, c, n - 1)
  <2>1. CASE n > 0
    <3>1. n - 1 \in Nat /\ ~(n <= n - 1)
      BY <1>2, <2>1
    <3>2. n - 1 \notin Bad
      BY <1>1, <3>1
    <3> QED  BY <3>1, <3>2
  <2>2. CASE ~(n > 0)
    BY <2>2
  <2> QED  BY <2>1, <2>2
<1> DEFINE t == [j \in 0 .. n |-> IF j = n THEN TextStep(u, c, n) ELSE u[j]]
<1>4. ASSUME NEW j \in 0 .. n PROVE t[j] = TextStep(t, c, j)
  <2>1. j = 0 \/ t[j - 1] = u[j - 1]
    <3>1. j # 0 => j - 1 \in 0 .. n /\ j - 1 # n
      BY <1>2
    <3> QED  BY <3>1
  <2>2. TextStep(t, c, j) = TextStep(u, c, j)
    <3> HIDE DEF t
    <3> QED  BY <2>1 DEF TextStep
  <2>3. t[j] = TextStep(u, c, j)
    <3>1. CASE j = n
      BY <3>1
    <3>2. CASE j # n
      <4>1. j \in 0 .. n - 1 /\ n > 0
        BY <1>2, <3>2
      <4>2. u[j] = TextStep(u, c, j)
        BY <1>3, <4>1 DEF IsText
      <4> QED  BY <3>2, <4>2
    <3> QED  BY <3>1, <3>2
  <2> QED  BY <2>2, <2>3
<1>5. t = [j \in 0 .. n |-> t[j]]
  OBVIOUS
<1> HIDE DEF t
<1>6. IsText(t, c, n)
  BY <1>4, <1>5 DEF IsText
<1> QED  BY <1>2, <1>6

(* only one up to each, *)
LEMMA TextUnique ==
    ASSUME NEW c, NEW n \in Nat, NEW m \in Nat, NEW t, NEW u, IsText(t, c, n), IsText(u, c, m)
    PROVE  \A j \in Nat : j <= n /\ j <= m => t[j] = u[j]
<1> DEFINE Bad == {j \in Nat : j <= n /\ j <= m /\ t[j] # u[j]}
<1> SUFFICES ASSUME Bad # {} PROVE FALSE
  OBVIOUS
<1>1. PICK j \in Bad : \A k \in Bad : j <= k
  <2>1. Bad \subseteq Nat /\ Bad # {}
    OBVIOUS
  <2> HIDE DEF Bad
  <2> QED  BY <2>1, LeastNat
<1>2. j \in Nat /\ j <= n /\ j <= m /\ t[j] # u[j]
  OBVIOUS
<1>3. t[j] = TextStep(t, c, j) /\ u[j] = TextStep(u, c, j)
  <2>1. j \in 0 .. n /\ j \in 0 .. m
    BY <1>2
  <2> QED  BY <2>1 DEF IsText
<1>4. ASSUME j # 0 PROVE t[j - 1] = u[j - 1]
  <2>1. j - 1 \in Nat /\ j - 1 <= n /\ j - 1 <= m /\ ~(j <= j - 1)
    BY <1>2, <1>4
  <2>2. j - 1 \notin Bad
    BY <1>1, <2>1
  <2> QED  BY <2>1, <2>2
<1> QED  BY <1>2, <1>3, <1>4 DEF TextStep

(* and each is the one before with a piece added. *)
LEMMA TextToIs ==
    ASSUME NEW c, NEW n \in Nat
    PROVE  TextTo(c, 0) = <<>> /\ TextTo(c, n + 1) = TextTo(c, n) \o Piece(c, n + 1)
<1> DEFINE T(k) == CHOOSE t : IsText(t, c, k)
<1>1. ASSUME NEW k \in Nat PROVE IsText(T(k), c, k) /\ TextTo(c, k) = T(k)[k]
  <2>1. IsText(T(k), c, k)
    BY TextExists
  <2>2. TextTo(c, k) = T(k)[k]
    BY DEF TextTo, IsText, TextStep
  <2> QED  BY <2>1, <2>2
<1> HIDE DEF T
<1>2. ASSUME NEW k \in Nat PROVE T(k)[k] = TextStep(T(k), c, k)
  <2>1. k \in 0 .. k
    OBVIOUS
  <2> QED  BY <1>1, <2>1 DEF IsText
<1>3. TextTo(c, 0) = <<>>
  BY <1>1, <1>2 DEF TextStep
<1>4. T(n + 1)[n] = T(n)[n]
  <2>1. n + 1 \in Nat /\ n <= n + 1 /\ n <= n
    OBVIOUS
  <2> QED  BY <1>1, <2>1, TextUnique
<1>5. TextTo(c, n + 1) = T(n + 1)[n] \o Piece(c, n + 1)
  <2>1. n + 1 \in Nat /\ n + 1 # 0 /\ (n + 1) - 1 = n
    OBVIOUS
  <2> QED  BY <1>1, <1>2, <2>1 DEF TextStep
<1> QED  BY <1>1, <1>3, <1>4, <1>5

(* Every piece of a well-formed call is text, and what is printed up to a   *)
(* place in the format is the front of the whole.                          *)
LEMMA PieceText ==
    ASSUME NEW c, WellFormed(c), NEW k \in 1 .. Len(c.format)
    PROVE  Piece(c, k) \in Strings
<1> DEFINE f == c.format
           a == c.ap[Argument(f, k)]
<1>1. f \in Seq(Chars) /\ k \in DOMAIN f /\ f[k] \in Chars
  BY DEF WellFormed
<1>2. "%" \in Chars
  BY DigitIsLetter, LetterIsChar
<1>3. ASSUME k \in Converts(f) PROVE Wanted(f[k], a) \in Strings
  <2>1. a \in IF f[k] = "s" THEN [str : Strings] ELSE [int : INT_MIN .. INT_MAX]
    BY <1>3 DEF WellFormed, Strings
  <2>2. f[k] \in Conversions
    BY <1>3 DEF Converts
  <2> HIDE DEF a
  <2> QED  BY <2>1, <2>2, ConvertedIs
<1>4. Piece(c, k) = <<"%">> \/ Piece(c, k) = <<>> \/ (k \in Converts(f) /\ Piece(c, k) = Wanted(f[k], a))
          \/ Piece(c, k) = <<f[k]>>
  BY DEF Piece
<1> QED  BY <1>1, <1>2, <1>3, <1>4, Concat

LEMMA TextToText ==
    ASSUME NEW c, WellFormed(c), NEW k \in 0 .. Len(c.format)
    PROVE  /\ TextTo(c, k) \in Strings
           /\ \E rest \in Strings : Expected(c) = TextTo(c, k) \o rest
<1> DEFINE L == Len(c.format)
<1>1. L \in Nat
  BY DEF WellFormed
<1> DEFINE Bad1 == {n \in Nat : n <= L /\ TextTo(c, n) \notin Strings}
<1>2. ASSUME Bad1 # {} PROVE FALSE
  <2>1. PICK n \in Bad1 : \A m \in Bad1 : n <= m
    <3>1. Bad1 \subseteq Nat /\ Bad1 # {}
      BY <1>2
    <3> HIDE DEF Bad1
    <3> QED  BY <3>1, LeastNat
  <2>2. n \in Nat /\ n <= L /\ TextTo(c, n) \notin Strings
    OBVIOUS
  <2>3. n # 0
    BY <2>2, TextToIs, Concat
  <2>4. n - 1 \in Nat /\ n - 1 <= L /\ ~(n <= n - 1) /\ (n - 1) + 1 = n /\ n \in 1 .. L
    BY <1>1, <2>2, <2>3
  <2>5. TextTo(c, n - 1) \in Strings
    BY <2>1, <2>4
  <2>6. TextTo(c, n) = TextTo(c, n - 1) \o Piece(c, n)
    BY <2>4, TextToIs
  <2> QED  BY <2>2, <2>4, <2>5, <2>6, PieceText, Concat
<1>3. \A n \in 0 .. L : TextTo(c, n) \in Strings
  BY <1>1, <1>2
<1> HIDE DEF Bad1
<1> DEFINE Fore(n) == \E rest \in Strings : TextTo(c, n) = TextTo(c, k) \o rest
           Bad2 == {n \in Nat : k <= n /\ n <= L /\ ~Fore(n)}
<1>4. ASSUME Bad2 # {} PROVE FALSE
  <2>1. PICK n \in Bad2 : \A m \in Bad2 : n <= m
    <3>1. Bad2 \subseteq Nat /\ Bad2 # {}
      BY <1>4
    <3> HIDE DEF Bad2
    <3> QED  BY <3>1, LeastNat
  <2>2. n \in Nat /\ k <= n /\ n <= L /\ ~Fore(n)
    OBVIOUS
  <2>3. n # k
    <3>1. TextTo(c, k) = TextTo(c, k) \o <<>> /\ <<>> \in Strings
      BY <1>3, Concat
    <3> QED  BY <2>2, <3>1
  <2>4. n - 1 \in Nat /\ k <= n - 1 /\ n - 1 <= L /\ ~(n <= n - 1) /\ (n - 1) + 1 = n /\ n \in 1 .. L
    BY <1>1, <2>2, <2>3
  <2>5. PICK r \in Strings : TextTo(c, n - 1) = TextTo(c, k) \o r
    BY <2>1, <2>4
  <2>6. TextTo(c, n) = TextTo(c, n - 1) \o Piece(c, n)
    BY <2>4, TextToIs
  <2>7. Piece(c, n) \in Strings
    BY <2>4, PieceText
  <2>8. TextTo(c, n) = TextTo(c, k) \o (r \o Piece(c, n)) /\ r \o Piece(c, n) \in Strings
    <3>1. TextTo(c, k) \in Strings
      BY <1>3
    <3> DEFINE a == TextTo(c, k)
               p == Piece(c, n)
    <3>2. a \in Strings /\ p \in Strings
      BY <2>7, <3>1
    <3> HIDE DEF a, p, Bad2, Fore
    <3>3. (a \o r) \o p = a \o (r \o p) /\ r \o p \in Strings
      BY <3>2, ConcatThree
    <3> QED  BY <2>5, <2>6, <3>3, Zenon DEF a, p
  <2> QED  BY <2>2, <2>8
<1>5. Fore(L)
  <2> HIDE DEF Fore
  <2>1. L \in Nat /\ k <= L /\ L <= L
    BY <1>1
  <2> QED  BY <1>4, <2>1
<1> QED  BY <1>3, <1>5 DEF Expected

(* Which argument comes next.                                              *)
LEMMA ArgumentIs ==
    ASSUME NEW f \in Strings, NEW k \in 0 .. Len(f)
    PROVE  /\ Argument(f, k) \in Nat
           /\ k = 0 => Argument(f, k) = 0
           /\ k < Len(f) => Argument(f, k + 1) = IF k + 1 \in Converts(f) THEN Argument(f, k) + 1 ELSE Argument(f, k)
<1> DEFINE To(n) == {j \in Converts(f) : j <= n}
<1>1. Len(f) \in Nat /\ DOMAIN f = 1 .. Len(f) /\ Converts(f) \subseteq 1 .. Len(f)
  BY DEF Converts, Strings
<1>2. IsFiniteSet(1 .. Len(f))
  BY <1>1, FS_Interval
<1>3. ASSUME NEW n \in 0 .. Len(f) PROVE IsFiniteSet(To(n)) /\ Cardinality(To(n)) \in Nat
  <2>1. To(n) \subseteq 1 .. Len(f)
    BY <1>1
  <2>2. IsFiniteSet(To(n))
    BY <1>2, <2>1, FS_Subset
  <2> QED  BY <2>2, FS_CardinalityType
<1>4. k = 0 => Argument(f, k) = 0
  <2>1. k = 0 => To(k) = {}
    BY <1>1
  <2> QED  BY <2>1, FS_EmptySet DEF Argument
<1>5. ASSUME k < Len(f)
      PROVE  Argument(f, k + 1) = IF k + 1 \in Converts(f) THEN Argument(f, k) + 1 ELSE Argument(f, k)
  <2>1. CASE k + 1 \in Converts(f)
    <3>1. To(k + 1) = To(k) \cup {k + 1}
      BY <1>1, <1>5, <2>1
    <3>2. k + 1 \notin To(k)
      OBVIOUS
    <3>3. IsFiniteSet(To(k))
      BY <1>3
    <3>4. Cardinality(To(k) \cup {k + 1}) = Cardinality(To(k)) + 1
      <4> HIDE DEF To
      <4> QED  BY <3>2, <3>3, FS_AddElement
    <3>5. Argument(f, k + 1) = Cardinality(To(k + 1)) /\ Argument(f, k) = Cardinality(To(k))
      BY DEF Argument
    <3> HIDE DEF To
    <3> QED  BY <2>1, <3>1, <3>4, <3>5
  <2>2. CASE k + 1 \notin Converts(f)
    <3>1. To(k + 1) = To(k)
      BY <1>1, <1>5, <2>2
    <3>2. Argument(f, k + 1) = Cardinality(To(k + 1)) /\ Argument(f, k) = Cardinality(To(k))
      BY DEF Argument
    <3> HIDE DEF To
    <3> QED  BY <2>2, <3>1, <3>2
  <2> QED  BY <2>1, <2>2
<1>6. Argument(f, k) \in Nat
  BY <1>3 DEF Argument
<1> QED  BY <1>4, <1>5, <1>6

(* The rest of a sequence.                                                 *)
LEMMA RestOf ==
    ASSUME NEW S, NEW s \in Seq(S), NEW k \in Nat, SubSeq(s, k + 1, Len(s)) # <<>>
    PROVE  /\ k < Len(s)
           /\ Head(SubSeq(s, k + 1, Len(s))) = s[k + 1] /\ s[k + 1] \in S
           /\ Tail(SubSeq(s, k + 1, Len(s))) = SubSeq(s, k + 2, Len(s))
<1>1. Len(s) \in Nat
  OBVIOUS
<1>2. k < Len(s)
  <2> SUFFICES ASSUME k >= Len(s) PROVE FALSE
    BY <1>1
  <2>1. k + 1 \in Int /\ Len(s) \in Int /\ k + 1 > Len(s)
    BY <1>1
  <2> QED  BY <2>1, SubSeqEmpty
<1>3. k + 1 \in 1 .. Len(s) /\ Len(s) \in k + 1 .. Len(s) /\ (k + 1) + 1 = k + 2
  BY <1>1, <1>2
<1>4. /\ Head(SubSeq(s, k + 1, Len(s))) = s[k + 1]
      /\ Tail(SubSeq(s, k + 1, Len(s))) = SubSeq(s, (k + 1) + 1, Len(s))
  BY <1>3, HeadTailOfSubSeq
<1>5. s[k + 1] \in S
  BY <1>3
<1> QED  BY <1>2, <1>3, <1>4, <1>5

-----------------------------------------------------------------------------
(* The inductive invariant of a call: how far it has come in its format,    *)
(* and what it has printed and holds by then.                              *)
ScreenCalls == [to : {"screen"}, format : Strings, ap : Seq(Arguments), tmp_str : Strings, retval : Nat]
BufferCalls == [to : {"buffer"}, format : Strings, ap : Seq(Arguments), tmp_str : Strings, retval : Nat,
                buffer : Strings, size : Nat]
Boundary(f, k) == k = 0 \/ f[k] # "%" \/ (k < Len(f) /\ f[k + 1] = "%")
At(format, ap, tmp, text, c, k) ==
    LET f == c.format
    IN  /\ format = SubSeq(f, k + 1, Len(f))
        /\ ap = SubSeq(c.ap, Argument(f, k) + 1, Len(c.ap))
        /\ Boundary(f, k)
        /\ Defined(c) => text \o tmp = TextTo(c, k)
Held(n, size) == IF n < size THEN n ELSE size
CallInv ==
    call # NoCall =>
      /\ asked \in Calls
      /\ call \in ScreenCalls \cup BufferCalls
      /\ out \in Strings /\ call.retval = Len(out)
      /\ call.to = "buffer" => call.buffer = SubSeq(out, 1, Held(Len(out), call.size))
      /\ \E k \in 0 .. Len(asked.format) : At(call.format, call.ap, call.tmp_str, out, asked, k)
PrintInv == ScrnInv /\ CallInv

(* A character in front of the rest of the format, printed as it stands.    *)
LEMMA LiteralStep ==
    ASSUME NEW c, WellFormed(c), NEW k \in 0 .. Len(c.format), NEW text \in Strings, NEW ap,
           At(SubSeq(c.format, k + 1, Len(c.format)), ap, <<>>, text, c, k),
           SubSeq(c.format, k + 1, Len(c.format)) # <<>>,
           \/ c.format[k + 1] # "%"
           \/ c.format[k + 1] = "%" /\ k + 1 < Len(c.format) /\ c.format[k + 2] = "%"
    PROVE  /\ k + 1 \in 0 .. Len(c.format)
           /\ At(SubSeq(c.format, k + 2, Len(c.format)), ap, <<>>, Append(text, c.format[k + 1]), c, k + 1)
<1> DEFINE f == c.format
           ch == f[k + 1]
<1>1. f \in Strings /\ Len(f) \in Nat
  BY DEF WellFormed, Strings
<1>2. k < Len(f) /\ k + 1 \in 0 .. Len(f) /\ k + 1 \in 1 .. Len(f) /\ (k + 1) + 1 = k + 2 /\ ch \in Chars
  <2>1. k \in Nat
    BY <1>1
  <2>2. k < Len(f) /\ ch \in Chars
    BY <1>1, <2>1, RestOf DEF Strings
  <2> QED  BY <1>1, <2>1, <2>2
<1>3. Boundary(f, k) /\ ap = SubSeq(c.ap, Argument(f, k) + 1, Len(c.ap))
  BY DEF At
<1>4. k + 1 \notin Converts(f)
  <2> SUFFICES ASSUME k + 1 \in Converts(f) PROVE FALSE
    OBVIOUS
  <2>1. k + 1 > 1 /\ f[(k + 1) - 1] = "%" /\ ch \in Conversions
    BY DEF Converts
  <2>2. k # 0 /\ (k + 1) - 1 = k /\ ch # "%"
    BY <2>1 DEF Conversions
  <2> QED  BY <1>3, <2>1, <2>2 DEF Boundary
<1>5. Argument(f, k + 1) = Argument(f, k)
  BY <1>1, <1>2, <1>4, ArgumentIs
<1>6. Boundary(f, k + 1)
  BY <1>2 DEF Boundary
<1>7. ASSUME Defined(c) PROVE Append(text, ch) \o <<>> = TextTo(c, k + 1)
  <2>1. ch # "%"
    <3> SUFFICES ASSUME ch = "%" PROVE FALSE
      OBVIOUS
    <3>1. k + 1 \in 1 .. Len(f) - 1 /\ f[k + 1] = "%" /\ f[(k + 1) + 1] = "%"
      BY <1>1, <1>2
    <3> QED  BY <1>7, <3>1 DEF Defined
  <2>2. ~(k + 1 > 1 /\ f[(k + 1) - 1] = "%")
    <3>1. k # 0 => (k + 1) - 1 = k
      BY <1>1
    <3>2. k = 0 => ~(k + 1 > 1)
      BY <1>1
    <3> QED  BY <1>3, <2>1, <3>1, <3>2 DEF Boundary
  <2>3. Piece(c, k + 1) = <<ch>>
    BY <1>4, <2>1, <2>2 DEF Piece
  <2>4. text \o <<>> = TextTo(c, k)
    BY <1>7 DEF At
  <2>5. TextTo(c, k + 1) = TextTo(c, k) \o <<ch>>
    <3>1. k \in Nat
      BY <1>1
    <3> QED  BY <2>3, <3>1, TextToIs
  <2>6. Append(text, ch) = text \o <<ch>> /\ Append(text, ch) \in Strings
    BY <1>2, AppendIsConcat, AppendProperties DEF Strings
  <2>7. text \o <<>> = text /\ Append(text, ch) \o <<>> = Append(text, ch)
    BY <2>6, Concat
  <2> QED  BY <2>4, <2>5, <2>6, <2>7
<1> QED  BY <1>2, <1>3, <1>5, <1>6, <1>7 DEF At

(* The rest is made of what comes after. *)
LEMMA RestElements ==
    ASSUME NEW S, NEW s \in Seq(S), NEW k \in 0 .. Len(s)
    PROVE  /\ SubSeq(s, k + 1, Len(s)) \in Seq(S)
           /\ k < Len(s) => SubSeq(s, k + 1, Len(s)) # <<>>
           /\ k + 1 < Len(s) => SubSeq(s, k + 1, Len(s))[2] = s[k + 2]
           /\ k = Len(s) => SubSeq(s, k + 1, Len(s)) = <<>>
<1> DEFINE L == Len(s)
           t == SubSeq(s, k + 1, L)
<1>1. L \in Nat /\ k \in Nat /\ k + 1 \in Int /\ L \in Int /\ \A j \in k + 1 .. L : s[j] \in S
  OBVIOUS
<1>2. /\ t \in Seq(S)
      /\ Len(t) = IF k + 1 <= L THEN L - (k + 1) + 1 ELSE 0
      /\ \A j \in 1 .. L - (k + 1) + 1 : t[j] = s[(k + 1) + j - 1]
  <2> HIDE DEF L
  <2> QED  BY <1>1, SubSeqProperties
<1>3. k = L => t = <<>>
  <2> HIDE DEF L
  <2> QED  BY <1>1, SubSeqEmpty
<1> HIDE DEF L, t
<1>4. k < L => t # <<>>
  <2>1. k < L => Len(t) > 0
    BY <1>1, <1>2
  <2> QED  BY <2>1, Len(<<>>) = 0
<1>5. k + 1 < L => t[2] = s[k + 2]
  <2>1. k + 1 < L => 2 \in 1 .. L - (k + 1) + 1 /\ (k + 1) + 2 - 1 = k + 2
    BY <1>1
  <2> QED  BY <1>2, <2>1
<1> QED  BY <1>2, <1>3, <1>4, <1>5 DEF t, L

(* A sign and the character behind it.                                     *)
LEMMA ConvertStep ==
    ASSUME NEW c, WellFormed(c), NEW k \in 0 .. Len(c.format), NEW text \in Strings, NEW ap,
           At(SubSeq(c.format, k + 1, Len(c.format)), ap, <<>>, text, c, k),
           SubSeq(c.format, k + 1, Len(c.format)) # <<>>,
           c.format[k + 1] = "%", c.format[k + 2] # "%"
    PROVE  LET f == c.format
               ch == f[k + 2]
           IN  /\ k + 2 \in 0 .. Len(f)
               /\ Tail(Tail(SubSeq(f, k + 1, Len(f)))) = SubSeq(f, k + 3, Len(f))
               /\ SubSeq(f, k + 1, Len(f))[2] = ch
               /\ ch \in Conversions =>
                     /\ Tail(ap) \in Seq(Arguments)
                     /\ Converted(ch, Head(ap)) \in Strings
                     /\ At(SubSeq(f, k + 3, Len(f)), Tail(ap), Converted(ch, Head(ap)), text, c, k + 2)
               /\ ch \notin Conversions =>
                     At(SubSeq(f, k + 3, Len(f)), ap, <<>>, text, c, k + 2)
<1> DEFINE f == c.format
           L == Len(f)
           ch == f[k + 2]
           n == Argument(f, k)
<1>1. f \in Strings /\ L \in Nat /\ c.ap \in Seq(Arguments) /\ DOMAIN f = 1 .. L
  BY DEF WellFormed, Strings
<1>2. k \in Nat /\ k + 1 < L
  <2>1. k \in Nat
    BY <1>1
  <2>2. k < L
    BY <1>1, <2>1, RestOf DEF Strings
  <2>3. k + 1 \in DOMAIN f
    BY <1>1, <2>1, <2>2
  <2> QED  BY <2>1, <2>3 DEF WellFormed
<1>3. /\ k + 1 \in 0 .. L /\ k + 2 \in 0 .. L /\ k + 2 \in 1 .. L /\ k + 1 < L
      /\ (k + 1) + 1 = k + 2 /\ (k + 1) + 2 = k + 3 /\ (k + 2) + 1 = k + 3 /\ (k + 2) - 1 = k + 1 /\ k + 2 > 1
      /\ k + 1 \in Nat /\ k < L
  <2>1. k \in Nat /\ L \in Nat /\ k + 1 < L
    BY <1>1, <1>2
  <2> HIDE DEF L
  <2>2. k + 1 \in 0 .. L /\ k + 2 \in 0 .. L /\ k + 2 \in 1 .. L /\ k + 1 < L
    BY <2>1
  <2>3. (k + 1) + 1 = k + 2 /\ (k + 1) + 2 = k + 3 /\ (k + 2) + 1 = k + 3 /\ (k + 2) - 1 = k + 1 /\ k + 2 > 1
    BY <2>1
  <2>4. k + 1 \in Nat /\ k < L
    BY <2>1
  <2> QED  BY <2>2, <2>3, <2>4
<1>4. /\ SubSeq(f, k + 1, L)[2] = ch
      /\ SubSeq(f, k + 2, L) # <<>>
  <2>1. k \in 0 .. L /\ k + 1 \in 0 .. L /\ f \in Seq(Chars)
    BY <1>1, <1>3 DEF Strings
  <2>2. SubSeq(f, k + 1, L)[2] = ch
    BY <1>2, <2>1, RestElements
  <2>3. SubSeq(f, (k + 1) + 1, L) # <<>>
    BY <1>3, <2>1, RestElements
  <2> QED  BY <1>3, <2>2, <2>3
<1>5. Tail(Tail(SubSeq(f, k + 1, L))) = SubSeq(f, k + 3, L)
  <2>1. f \in Seq(Chars)
    BY <1>1 DEF Strings
  <2>2. Tail(SubSeq(f, k + 1, L)) = SubSeq(f, k + 2, L)
    BY <1>2, <2>1, RestOf
  <2>3. SubSeq(f, (k + 1) + 1, L) # <<>>
    BY <1>3, <1>4
  <2>4. Tail(SubSeq(f, (k + 1) + 1, L)) = SubSeq(f, (k + 1) + 2, L)
    BY <1>3, <2>1, <2>3, RestOf
  <2> QED  BY <1>3, <2>2, <2>4
<1>6. Boundary(f, k) /\ ap = SubSeq(c.ap, n + 1, Len(c.ap)) /\ (Defined(c) => text \o <<>> = TextTo(c, k))
  BY DEF At
<1>7. Boundary(f, k + 2)
  BY DEF Boundary
<1>8. k + 1 \notin Converts(f) /\ (k + 2 \in Converts(f) <=> ch \in Conversions)
  BY <1>1, <1>3 DEF Converts, Conversions
<1>9. n \in Nat /\ Argument(f, k + 2) = IF ch \in Conversions THEN n + 1 ELSE n
  <2>1. Argument(f, k + 1) = n /\ n \in Nat
    BY <1>1, <1>3, <1>8, ArgumentIs
  <2>2. Argument(f, (k + 1) + 1) = IF (k + 1) + 1 \in Converts(f) THEN Argument(f, k + 1) + 1 ELSE Argument(f, k + 1)
    BY <1>1, <1>3, ArgumentIs
  <2> QED  BY <1>3, <1>8, <2>1, <2>2
<1> HIDE DEF n
<1>10. ASSUME Defined(c)
       PROVE  TextTo(c, k + 2) = text \o (IF ch \in Conversions THEN Wanted(ch, c.ap[n + 1]) ELSE <<>>)
  <2>1. Piece(c, k + 1) = <<>>
    BY <1>3 DEF Piece
  <2>2. Piece(c, k + 2) = IF ch \in Conversions THEN Wanted(ch, c.ap[n + 1]) ELSE <<>>
    BY <1>3, <1>8, <1>9 DEF Piece
  <2>3. TextTo(c, k + 1) = TextTo(c, k) \o <<>>
    BY <1>2, <2>1, TextToIs
  <2>4. TextTo(c, (k + 1) + 1) = TextTo(c, k + 1) \o Piece(c, (k + 1) + 1)
    BY <1>3, TextToIs
  <2>5. text \o <<>> = text
    BY Concat
  <2> QED  BY <1>3, <1>6, <1>10, <2>2, <2>3, <2>4, <2>5
<1>11. CASE ch \in Conversions
  <2> DEFINE a == c.ap[n + 1]
  <2>1. /\ n + 1 \in DOMAIN c.ap
        /\ a \in IF ch = "s" THEN [str : Strings] ELSE [int : INT_MIN .. INT_MAX]
    BY <1>8, <1>9, <1>11 DEF WellFormed, Strings
  <2>2. n \in 0 .. Len(c.ap) /\ n < Len(c.ap)
    BY <1>1, <1>9, <2>1
  <2>3. ap # <<>>
    BY <1>1, <1>6, <2>2, RestElements
  <2>4. Head(ap) = a /\ Tail(ap) = SubSeq(c.ap, n + 2, Len(c.ap)) /\ ap \in Seq(Arguments)
    <3> DEFINE args == c.ap
    <3>1. args \in Seq(Arguments) /\ ap = SubSeq(args, n + 1, Len(args))
      BY <1>1, <1>6
    <3> HIDE DEF args
    <3>2. Head(ap) = args[n + 1] /\ Tail(ap) = SubSeq(args, n + 2, Len(args))
      BY <1>9, <2>3, <3>1, RestOf
    <3>3. ap \in Seq(Arguments)
      BY <2>2, <3>1, RestElements DEF args
    <3> QED  BY <3>2, <3>3 DEF args
  <2> HIDE DEF a
  <2>5. /\ Converted(ch, a) \in Strings
        /\ a # [int |-> INT_MIN] => Converted(ch, a) = Wanted(ch, a)
    BY <1>11, <2>1, ConvertedIs
  <2>6. Defined(c) => text \o Converted(ch, Head(ap)) = TextTo(c, k + 2)
    <3> SUFFICES ASSUME Defined(c) PROVE text \o Converted(ch, Head(ap)) = TextTo(c, k + 2)
      OBVIOUS
    <3>1. a # [int |-> INT_MIN]
      BY <2>1 DEF Defined, a
    <3>2. Converted(ch, Head(ap)) = Wanted(ch, c.ap[n + 1])
      BY <2>4, <2>5, <3>1 DEF a
    <3> QED  BY <1>10, <1>11, <3>2
  <2>7. Tail(ap) = SubSeq(c.ap, Argument(f, k + 2) + 1, Len(c.ap))
    <3>1. (n + 1) + 1 = n + 2
      BY <1>9
    <3> QED  BY <1>9, <1>11, <2>4, <3>1
  <2>8. Tail(ap) \in Seq(Arguments)
    BY <2>3, <2>4
  <2>9. At(SubSeq(f, k + 3, L), Tail(ap), Converted(ch, Head(ap)), text, c, k + 2)
    BY <1>3, <1>7, <2>6, <2>7 DEF At
  <2> QED  BY <1>3, <1>4, <1>5, <1>11, <2>4, <2>5, <2>8, <2>9
<1>12. CASE ch \notin Conversions
  <2>1. Defined(c) => text \o <<>> = TextTo(c, k + 2)
    BY <1>10, <1>12
  <2>2. At(SubSeq(f, k + 3, L), ap, <<>>, text, c, k + 2)
    BY <1>3, <1>6, <1>7, <1>9, <1>12, <2>1 DEF At
  <2> QED  BY <1>3, <1>4, <1>5, <1>12, <2>2
<1> QED  BY <1>11, <1>12

(* The front of a longer sequence. *)
LEMMA FrontOf ==
    ASSUME NEW S, NEW s \in Seq(S), NEW t \in Seq(S), NEW n \in 0 .. Len(s)
    PROVE  SubSeq(s \o t, 1, n) = SubSeq(s, 1, n)
<1>1. CASE n = 0
  <2>1. n < 1 /\ n \in Int /\ 1 \in Int
    BY <1>1
  <2>2. SubSeq(s \o t, 1, n) = <<>> /\ SubSeq(s, 1, n) = <<>>
    BY <2>1, SubSeqEmpty
  <2> QED  BY <2>2
<1>2. CASE n # 0
  <2>1. n \in 1 .. Len(s) /\ 1 \in 1 .. Len(s)
    BY <1>2
  <2> QED  BY <2>1, SubSeqOfConcat1
<1> QED  BY <1>1, <1>2

(* A sequence is in front of what it is continued with. *)
LEMMA PrefixOf ==
    ASSUME NEW S, NEW s \in Seq(S), NEW t \in Seq(S)
    PROVE  IsPrefix(s, s \o t)
<1>1. Len(s \o t) = Len(s) + Len(t) /\ Len(s) \in Nat /\ Len(t) \in Nat
  BY ConcatProperties
<1>2. Len(s) \in 0 .. Len(s) /\ Len(s) <= Len(s \o t)
  BY <1>1
<1>3. SubSeq(s \o t, 1, Len(s)) = SubSeq(s, 1, Len(s))
  BY <1>2, FrontOf
<1> QED  BY <1>2, <1>3 DEF IsPrefix

(* SPRINT_C counts every character and keeps those there is room for.      *)
LEMMA SprintC ==
    ASSUME NEW cl \in ScreenCalls \cup BufferCalls, NEW c \in Chars, NEW text \in Strings,
           cl.retval = Len(text),
           cl.to = "buffer" => cl.buffer = SubSeq(text, 1, Held(Len(text), cl.size))
    PROVE  LET r == SPRINT_C(cl, c)
               t == Append(text, c)
           IN  /\ r \in ScreenCalls \cup BufferCalls
               /\ r.format = cl.format /\ r.ap = cl.ap /\ r.tmp_str = cl.tmp_str
               /\ t \in Strings /\ r.retval = Len(t)
               /\ r.to = "buffer" => r.buffer = SubSeq(t, 1, Held(Len(t), r.size))
<1> DEFINE r == SPRINT_C(cl, c)
           t == Append(text, c)
           n == Len(text)
<1>1. t \in Strings /\ Len(t) = n + 1 /\ n \in Nat /\ t = text \o <<c>> /\ <<c>> \in Strings
  BY AppendProperties, AppendIsConcat DEF Strings
<1>2. CASE cl \in ScreenCalls
  <2>1. cl.to = "screen" /\ cl.retval \in Nat
    BY <1>2 DEF ScreenCalls
  <2>2. r = [cl EXCEPT !.retval = @ + 1]
    BY <2>1 DEF SPRINT_C
  <2>3. /\ r \in ScreenCalls /\ r.to = "screen" /\ r.retval = cl.retval + 1
        /\ r.format = cl.format /\ r.ap = cl.ap /\ r.tmp_str = cl.tmp_str
    BY <1>2, <2>1, <2>2 DEF ScreenCalls
  <2> QED  BY <1>1, <2>3
<1>3. CASE cl \in BufferCalls
  <2>1. cl.to = "buffer" /\ cl.retval \in Nat /\ cl.size \in Nat /\ cl.buffer \in Strings
    BY <1>3 DEF BufferCalls
  <2>2. cl.buffer = SubSeq(text, 1, Held(n, cl.size))
    BY <2>1
  <2>3. CASE n < cl.size
    <3>1. r = [cl EXCEPT !.buffer = Append(@, c), !.retval = @ + 1]
      BY <2>1, <2>3 DEF SPRINT_C
    <3>2. Append(cl.buffer, c) \in Strings
      BY <2>1, AppendProperties DEF Strings
    <3>3. /\ r \in BufferCalls /\ r.retval = cl.retval + 1 /\ r.size = cl.size
          /\ r.format = cl.format /\ r.ap = cl.ap /\ r.tmp_str = cl.tmp_str
          /\ r.buffer = Append(cl.buffer, c)
      <4> DEFINE held == Append(cl.buffer, c)
                 count == cl.retval + 1
      <4>1. r = [cl EXCEPT !.buffer = held, !.retval = count] /\ held \in Strings /\ count \in Nat
        BY <2>1, <3>1, <3>2
      <4> HIDE DEF held, count, r
      <4>2. /\ r \in BufferCalls /\ r.retval = count /\ r.size = cl.size
            /\ r.format = cl.format /\ r.ap = cl.ap /\ r.tmp_str = cl.tmp_str
            /\ r.buffer = held
        BY <1>3, <4>1 DEF BufferCalls
      <4> QED  BY <4>2 DEF held, count
    <3>4. cl.buffer = text
      BY <2>2, <2>3, SubSeqFull DEF Held, Strings
    <3>5. Held(Len(t), r.size) = Len(t)
      BY <1>1, <2>1, <2>3, <3>3 DEF Held
    <3>6. SubSeq(t, 1, Len(t)) = t
      BY <1>1, SubSeqFull DEF Strings
    <3> QED  BY <1>1, <3>3, <3>4, <3>5, <3>6
  <2>4. CASE ~(n < cl.size)
    <3>1. r = [cl EXCEPT !.retval = @ + 1]
      BY <2>1, <2>4 DEF SPRINT_C
    <3>2. /\ r \in BufferCalls /\ r.retval = cl.retval + 1 /\ r.size = cl.size
          /\ r.format = cl.format /\ r.ap = cl.ap /\ r.tmp_str = cl.tmp_str
          /\ r.buffer = cl.buffer
      BY <1>3, <2>1, <3>1 DEF BufferCalls
    <3>3. Held(n, cl.size) = cl.size /\ Held(Len(t), r.size) = cl.size /\ cl.size \in 0 .. n
      BY <1>1, <2>1, <2>4, <3>2 DEF Held
    <3>4. SubSeq(text \o <<c>>, 1, cl.size) = SubSeq(text, 1, cl.size)
      BY <1>1, <3>3, FrontOf DEF Strings
    <3> QED  BY <1>1, <2>2, <3>2, <3>3, <3>4
  <2> QED  BY <2>3, <2>4
<1> QED  BY <1>2, <1>3

(* A step that leaves the screen alone keeps its invariant. *)
LEMMA ScrnUnchanged ==
    ASSUME ScrnInv, UNCHANGED <<cells, xpos, ypos, roll>>
    PROVE  ScrnInv'
BY Zenon DEF ScrnInv

(* Putting a character out adds it to what was put out. *)
LEMMA OutputStep ==
    ASSUME PrintInv, call # NoCall, NEW c \in Chars, Output(c)
    PROVE  ScrnInv' /\ out' = Append(out, c) /\ asked' = asked
<1>1. ScrnInv
  BY DEF PrintInv
<1>2. CASE call.to = "screen"
  <2>1. scrn_putc(c)
    BY <1>2 DEF Output
  <2> QED  BY <1>1, <2>1, PutcScrnInv DEF Output
<1>3. CASE call.to # "screen"
  <2>1. UNCHANGED <<cells, xpos, ypos, roll>>
    BY <1>3 DEF Output
  <2> QED  BY <1>1, <2>1, ScrnUnchanged DEF Output
<1> QED  BY <1>2, <1>3

(* A step that prints one character of a running call keeps the invariant,  *)
(* once the rest of the call is known to be in place.                      *)
LEMMA PrintedStep ==
    ASSUME PrintInv, call # NoCall, NEW c \in Chars, Output(c),
           NEW cl \in ScreenCalls \cup BufferCalls, cl.to = call.to, cl.retval = call.retval,
           cl.to = "buffer" => cl.buffer = call.buffer /\ cl.size = call.size,
           call' = SPRINT_C(cl, c),
           NEW k \in 0 .. Len(asked.format), At(cl.format, cl.ap, cl.tmp_str, Append(out, c), asked, k)
    PROVE  PrintInv'
<1>1. /\ asked \in Calls /\ out \in Strings /\ call.retval = Len(out)
      /\ call.to = "buffer" => call.buffer = SubSeq(out, 1, Held(Len(out), call.size))
  BY DEF PrintInv, CallInv
<1>2. ScrnInv' /\ out' = Append(out, c) /\ asked' = asked
  BY OutputStep
<1>3. cl.to = "buffer" => cl.buffer = SubSeq(out, 1, Held(Len(out), cl.size))
  BY <1>1
<1>4. /\ call' \in ScreenCalls \cup BufferCalls
      /\ call'.format = cl.format /\ call'.ap = cl.ap /\ call'.tmp_str = cl.tmp_str
      /\ out' \in Strings /\ call'.retval = Len(out')
      /\ call'.to = "buffer" => call'.buffer = SubSeq(out', 1, Held(Len(out'), call'.size))
  <2> DEFINE r == SPRINT_C(cl, c)
             t == Append(out, c)
  <2>1. /\ r \in ScreenCalls \cup BufferCalls
        /\ r.format = cl.format /\ r.ap = cl.ap /\ r.tmp_str = cl.tmp_str
        /\ t \in Strings /\ r.retval = Len(t)
        /\ r.to = "buffer" => r.buffer = SubSeq(t, 1, Held(Len(t), r.size))
    <3>1. cl.retval = Len(out) /\ out \in Strings
      BY <1>1
    <3> QED  BY <1>3, <3>1, SprintC, Zenon
  <2>2. call' = r /\ out' = t
    BY <1>2
  <2> HIDE DEF r, t
  <2> QED  BY <2>1, <2>2, Zenon
<1>5. At(call'.format, call'.ap, call'.tmp_str, out', asked', k) /\ k \in 0 .. Len(asked'.format)
  BY <1>2, <1>4
<1>6. CallInv'
  BY <1>1, <1>2, <1>4, <1>5 DEF CallInv
<1> QED  BY <1>2, <1>6 DEF PrintInv

(* A call starts at the beginning of its format.                           *)
LEMMA CallStarts ==
    ASSUME NEW c \in Calls
    PROVE  /\ c.format \in Strings /\ c.ap \in Seq(Arguments) /\ <<>> \in Strings
           /\ 0 \in 0 .. Len(c.format) /\ At(c.format, c.ap, <<>>, <<>>, c, 0)
<1>1. WellFormed(c)
  BY PrintAssumption, SMT
<1>2. c.format \in Strings /\ c.ap \in Seq(Arguments)
  BY <1>1 DEF WellFormed, Strings
<1>3. 0 \in 0 .. Len(c.format)
  BY <1>2 DEF Strings
<1>4. Argument(c.format, 0) = 0
  BY <1>2, <1>3, ArgumentIs
<1>5. c.format = SubSeq(c.format, 0 + 1, Len(c.format)) /\ c.ap = SubSeq(c.ap, 0 + 1, Len(c.ap))
  BY <1>2, SubSeqFull DEF Strings
<1>6. <<>> \o <<>> = TextTo(c, 0)
  BY TextToIs, Concat
<1>7. At(c.format, c.ap, <<>>, <<>>, c, 0)
  BY <1>4, <1>5, <1>6 DEF At, Boundary
<1> QED  BY <1>2, <1>3, <1>7, Concat

(* A cleared screen shows an empty roll.                                   *)
LEMMA ScrnInitInv == ScrnInit => ScrnInv
<1> DEFINE rows == <<BlankRow>>
<1> SUFFICES ASSUME ScrnInit PROVE ScrnInv
  OBVIOUS
<1>1. /\ cells = [a \in Cells |-> Space] /\ xpos = 0 /\ ypos = 0
      /\ roll = [rows |-> rows, x |-> 0]
  BY DEF ScrnInit
<1>2. BlankRow \in Rows /\ \A x \in Columns : BlankRow[x] = Space
  BY DEF BlankRow, Rows, Glyphs
<1>3. rows \in Seq(Rows) /\ Len(rows) = 1 /\ rows[1] = BlankRow
  BY <1>2
<1>4. xpos \in Columns /\ ypos \in 0 .. SCREEN_HEIGHT - 1
  BY <1>1, ScreenAssumption DEF Columns
<1> HIDE DEF rows
<1>5. ASSUME NEW a \in OnScreen
      PROVE  cells[a] = IF 0 + (a \div SCREEN_WIDTH) + 1 <= Len(rows)
                        THEN rows[0 + (a \div SCREEN_WIDTH) + 1][a % SCREEN_WIDTH] ELSE Space
  <2> DEFINE q == a \div SCREEN_WIDTH
             r == a % SCREEN_WIDTH
  <2>1. a \in Cells /\ q \in Nat /\ r \in Columns
    BY RowAndColumn
  <2> HIDE DEF q, r
  <2>2. cells[a] = Space
    BY <1>1, <2>1
  <2>3. 0 + q + 1 <= Len(rows) => 0 + q + 1 = 1
    BY <1>3, <2>1
  <2>4. 0 + q + 1 <= Len(rows) => rows[0 + q + 1][r] = Space
    BY <1>2, <1>3, <2>1, <2>3
  <2> QED  BY <2>2, <2>4, Zenon DEF q, r
<1>6. Len(rows) - ypos - 1 = 0
  BY <1>1, <1>3
<1>7. Shows(cells, ypos, rows)
  BY <1>5, <1>6 DEF Shows
<1> QED  BY <1>1, <1>3, <1>4, <1>7 DEF ScrnInv

(* The invariant holds at first. *)
LEMMA PrintInitInv == PrintInit => PrintInv
<1> SUFFICES ASSUME PrintInit PROVE PrintInv
  OBVIOUS
<1>1. ScrnInit /\ call = NoCall
  BY DEF PrintInit
<1>2. ScrnInv
  BY <1>1, ScrnInitInv
<1> QED  BY <1>1, <1>2 DEF PrintInv, CallInv

(* What a step does to the record of the call.                             *)
LEMMA ExceptFormat ==
    ASSUME NEW cl \in ScreenCalls \cup BufferCalls, NEW f \in Strings
    PROVE  LET r == [cl EXCEPT !.format = f]
           IN  /\ r \in ScreenCalls \cup BufferCalls
               /\ r.to = cl.to /\ r.retval = cl.retval
               /\ r.to = "buffer" => r.buffer = cl.buffer /\ r.size = cl.size
               /\ r.format = f /\ r.ap = cl.ap /\ r.tmp_str = cl.tmp_str
<1>1. CASE cl \in ScreenCalls
  BY <1>1 DEF ScreenCalls
<1>2. CASE cl \in BufferCalls
  BY <1>2 DEF BufferCalls
<1> QED  BY <1>1, <1>2

(* The same with the string a conversion has made. *)
LEMMA ExceptTmp ==
    ASSUME NEW cl \in ScreenCalls \cup BufferCalls, NEW s \in Strings
    PROVE  LET r == [cl EXCEPT !.tmp_str = s]
           IN  /\ r \in ScreenCalls \cup BufferCalls
               /\ r.to = cl.to /\ r.retval = cl.retval
               /\ r.to = "buffer" => r.buffer = cl.buffer /\ r.size = cl.size
               /\ r.format = cl.format /\ r.ap = cl.ap /\ r.tmp_str = s
<1>1. CASE cl \in ScreenCalls
  BY <1>1 DEF ScreenCalls
<1>2. CASE cl \in BufferCalls
  BY <1>2 DEF BufferCalls
<1> QED  BY <1>1, <1>2

(* What the invariant says of a running call. *)
LEMMA InCall ==
    ASSUME PrintInv, call # NoCall
    PROVE  /\ WellFormed(asked) /\ asked.format \in Strings /\ asked.format \in Seq(Chars) /\ Len(asked.format) \in Nat
           /\ call \in ScreenCalls \cup BufferCalls
           /\ call.format \in Strings /\ call.ap \in Seq(Arguments) /\ call.tmp_str \in Strings /\ out \in Strings
           /\ \E k \in 0 .. Len(asked.format) : At(call.format, call.ap, call.tmp_str, out, asked, k)
<1>1. asked \in Calls /\ call \in ScreenCalls \cup BufferCalls /\ out \in Strings
      /\ \E k \in 0 .. Len(asked.format) : At(call.format, call.ap, call.tmp_str, out, asked, k)
  BY DEF PrintInv, CallInv
<1>2. WellFormed(asked)
  BY <1>1, PrintAssumption, SMT
<1>3. asked.format \in Strings /\ asked.format \in Seq(Chars) /\ Len(asked.format) \in Nat
  BY <1>2 DEF WellFormed, Strings
<1>4. call.format \in Strings /\ call.ap \in Seq(Arguments) /\ call.tmp_str \in Strings
  BY <1>1 DEF ScreenCalls, BufferCalls
<1> QED  BY <1>1, <1>2, <1>3, <1>4

(* Literal and Percent print the character in front.                       *)
LEMMA LiteralKeeps ==
    ASSUME PrintInv, Active, NEW c, c = Head(call.format), Output(c),
           call' = SPRINT_C([call EXCEPT !.format = Tail(@)], c),
           c # "%" \/ (c = "%" /\ call.format[2] = "%")
    PROVE  PrintInv'
<1> DEFINE f == asked.format
           L == Len(f)
           cl == [call EXCEPT !.format = Tail(call.format)]
<1>1. call # NoCall /\ call.tmp_str = <<>> /\ call.format # <<>>
  BY DEF Active
<1>2. /\ WellFormed(asked) /\ f \in Strings /\ f \in Seq(Chars) /\ L \in Nat
      /\ call \in ScreenCalls \cup BufferCalls
      /\ call.format \in Strings /\ call.ap \in Seq(Arguments) /\ call.tmp_str \in Strings /\ out \in Strings
  BY <1>1, InCall
<1>3. PICK k \in 0 .. L : At(call.format, call.ap, call.tmp_str, out, asked, k)
  BY <1>1, InCall
<1>4. call.format = SubSeq(f, k + 1, L) /\ k \in Nat
  BY <1>2, <1>3 DEF At
<1>5. k < L /\ c = f[k + 1] /\ c \in Chars /\ Tail(call.format) = SubSeq(f, k + 2, L)
  <2>1. SubSeq(f, k + 1, L) # <<>> /\ f \in Seq(Chars) /\ k \in Nat
    BY <1>1, <1>2, <1>4
  <2>2. /\ k < L /\ Head(SubSeq(f, k + 1, L)) = f[k + 1] /\ f[k + 1] \in Chars
        /\ Tail(SubSeq(f, k + 1, L)) = SubSeq(f, k + 2, L)
    <3> HIDE DEF f
    <3> QED  BY <2>1, RestOf
  <2> QED  BY <1>4, <2>2
<1>6. c = "%" => k + 1 < L /\ f[k + 2] = "%"
  <2> SUFFICES ASSUME c = "%" PROVE k + 1 < L /\ f[k + 2] = "%"
    OBVIOUS
  <2>1. k + 1 \in DOMAIN f
    BY <1>2, <1>4, <1>5
  <2>2. k + 1 < L
    BY <1>2, <1>5, <2>1 DEF WellFormed
  <2>3. SubSeq(f, k + 1, L)[2] = f[k + 2]
    BY <1>2, <2>2, RestElements
  <2> QED  BY <1>4, <2>2, <2>3
<1>7. At(SubSeq(f, k + 1, L), call.ap, <<>>, out, asked, k) /\ SubSeq(f, k + 1, L) # <<>>
  BY <1>1, <1>3, <1>4
<1>8. /\ k + 1 \in 0 .. L
      /\ At(SubSeq(f, k + 2, L), call.ap, <<>>, Append(out, f[k + 1]), asked, k + 1)
  BY <1>2, <1>5, <1>6, <1>7, LiteralStep
<1>9. /\ cl \in ScreenCalls \cup BufferCalls /\ cl.to = call.to /\ cl.retval = call.retval
      /\ cl.to = "buffer" => cl.buffer = call.buffer /\ cl.size = call.size
      /\ cl.format = Tail(call.format) /\ cl.ap = call.ap /\ cl.tmp_str = call.tmp_str
  <2>1. Tail(call.format) \in Strings
    BY <1>1, <1>2, HeadTailProperties DEF Strings
  <2> DEFINE rest == Tail(call.format)
             r == [call EXCEPT !.format = rest]
  <2>2. cl = r
    OBVIOUS
  <2> HIDE DEF rest, cl
  <2>3. rest \in Strings
    BY <2>1 DEF rest
  <2>4. /\ r.format = rest /\ r.ap = call.ap /\ r.tmp_str = call.tmp_str
    BY <1>2, <2>3, ExceptFormat
  <2>5. /\ r \in ScreenCalls \cup BufferCalls /\ r.to = call.to /\ r.retval = call.retval
        /\ r.to = "buffer" => r.buffer = call.buffer /\ r.size = call.size
    BY <1>2, <2>3, ExceptFormat
  <2> QED  BY <2>2, <2>4, <2>5 DEF rest
<1>10. call' = SPRINT_C(cl, c)
  OBVIOUS
<1> HIDE DEF cl
<1>11. At(cl.format, cl.ap, cl.tmp_str, Append(out, c), asked, k + 1)
  BY <1>1, <1>5, <1>8, <1>9
<1> QED  BY <1>1, <1>5, <1>8, <1>9, <1>10, <1>11, PrintedStep

(* Convert takes a sign and its argument off and stores their text. *)
LEMMA ConvertKeeps ==
    ASSUME PrintInv, Convert
    PROVE  PrintInv'
<1> DEFINE f == asked.format
           L == Len(f)
           ch == call.format[2]
           rest == Tail(Tail(call.format))
           args == Tail(call.ap)
           text == Converted(ch, Head(call.ap))
           cl == IF ch \in Conversions THEN [call EXCEPT !.format = rest, !.ap = args, !.tmp_str = text]
                 ELSE [call EXCEPT !.format = rest]
<1>1. /\ call # NoCall /\ call.tmp_str = <<>> /\ call.format # <<>>
      /\ Head(call.format) = "%" /\ ch # "%"
      /\ call' = cl
      /\ UNCHANGED <<cells, xpos, ypos, roll>> /\ out' = out /\ asked' = asked
  BY DEF Convert, Active, scrnVars
<1>2. /\ WellFormed(asked) /\ f \in Strings /\ f \in Seq(Chars) /\ L \in Nat
      /\ call \in ScreenCalls \cup BufferCalls
      /\ call.format \in Strings /\ call.ap \in Seq(Arguments) /\ call.tmp_str \in Strings /\ out \in Strings
  BY <1>1, InCall
<1>3. PICK k \in 0 .. L : At(call.format, call.ap, call.tmp_str, out, asked, k)
  BY <1>1, InCall
<1>4. call.format = SubSeq(f, k + 1, L) /\ k \in Nat
  BY <1>2, <1>3 DEF At
<1>5. SubSeq(f, k + 1, L) # <<>> /\ At(SubSeq(f, k + 1, L), call.ap, <<>>, out, asked, k)
  BY <1>1, <1>3, <1>4
<1>6. k < L /\ f[k + 1] = "%"
  <2>1. k < L /\ Head(SubSeq(f, k + 1, L)) = f[k + 1]
    <3> HIDE DEF f
    <3> QED  BY <1>2, <1>4, <1>5, RestOf
  <2> QED  BY <1>1, <1>4, <2>1
<1>7. k + 1 < L
  <2>1. k + 1 \in DOMAIN f
    BY <1>2, <1>4, <1>6
  <2> QED  BY <1>2, <1>6, <2>1 DEF WellFormed
<1>8. ch = f[k + 2]
  <2>1. SubSeq(f, k + 1, L)[2] = f[k + 2]
    BY <1>2, <1>7, RestElements
  <2> QED  BY <1>4, <2>1
<1>9. /\ k + 2 \in 0 .. L /\ rest = SubSeq(f, k + 3, L)
      /\ ch \in Conversions =>
            args \in Seq(Arguments) /\ text \in Strings /\ At(SubSeq(f, k + 3, L), args, text, out, asked, k + 2)
      /\ ch \notin Conversions => At(SubSeq(f, k + 3, L), call.ap, <<>>, out, asked, k + 2)
  <2>1. f[k + 2] # "%"
    BY <1>1, <1>8
  <2>2. /\ k + 2 \in 0 .. Len(f)
        /\ Tail(Tail(SubSeq(f, k + 1, Len(f)))) = SubSeq(f, k + 3, Len(f))
        /\ f[k + 2] \in Conversions =>
              /\ Tail(call.ap) \in Seq(Arguments)
              /\ Converted(f[k + 2], Head(call.ap)) \in Strings
              /\ At(SubSeq(f, k + 3, Len(f)), Tail(call.ap), Converted(f[k + 2], Head(call.ap)), out, asked, k + 2)
        /\ f[k + 2] \notin Conversions =>
              At(SubSeq(f, k + 3, Len(f)), call.ap, <<>>, out, asked, k + 2)
    BY <1>2, <1>5, <1>6, <2>1, ConvertStep
  <2> QED  BY <1>4, <1>8, <2>2
<1>10. rest \in Strings
  <2>1. k + 2 \in 0 .. L /\ (k + 2) + 1 = k + 3
    BY <1>4, <1>9
  <2>2. SubSeq(f, (k + 2) + 1, L) \in Seq(Chars)
    BY <1>2, <2>1, RestElements
  <2> QED  BY <1>9, <2>1, <2>2 DEF Strings
<1> HIDE DEF ch, rest, args, text
<1>11. /\ cl \in ScreenCalls \cup BufferCalls /\ cl.to = call.to /\ cl.retval = call.retval
       /\ cl.to = "buffer" => cl.buffer = call.buffer /\ cl.size = call.size
       /\ At(cl.format, cl.ap, cl.tmp_str, out, asked, k + 2)
  <2>1. CASE ch \in Conversions
    <3> DEFINE r == [call EXCEPT !.format = rest, !.ap = args, !.tmp_str = text]
    <3>1. cl = r
      BY <2>1
    <3>0. rest \in Strings /\ args \in Seq(Arguments) /\ text \in Strings /\ call \in ScreenCalls \cup BufferCalls
      BY <1>2, <1>9, <1>10, <2>1
    <3>2. /\ r.format = rest /\ r.ap = args /\ r.tmp_str = text
          /\ r \in ScreenCalls \cup BufferCalls /\ r.to = call.to /\ r.retval = call.retval
          /\ r.to = "buffer" => r.buffer = call.buffer /\ r.size = call.size
      <4>1. CASE call \in ScreenCalls
        BY <3>0, <4>1 DEF ScreenCalls
      <4>2. CASE call \in BufferCalls
        BY <3>0, <4>2 DEF BufferCalls
      <4> QED  BY <3>0, <4>1, <4>2
    <3> HIDE DEF r
    <3>4. At(r.format, r.ap, r.tmp_str, out, asked, k + 2)
      BY <1>9, <2>1, <3>2
    <3> QED  BY <3>1, <3>2, <3>4, Zenon
  <2>2. CASE ch \notin Conversions
    <3> DEFINE r == [call EXCEPT !.format = rest]
    <3>1. cl = r
      BY <2>2
    <3>2. r.format = rest /\ r.ap = call.ap /\ r.tmp_str = call.tmp_str
      BY <1>2, <1>10, ExceptFormat
    <3>3. /\ r \in ScreenCalls \cup BufferCalls /\ r.to = call.to /\ r.retval = call.retval
          /\ r.to = "buffer" => r.buffer = call.buffer /\ r.size = call.size
      BY <1>2, <1>10, ExceptFormat
    <3> HIDE DEF r
    <3>4. At(r.format, r.ap, r.tmp_str, out, asked, k + 2)
      BY <1>1, <1>9, <2>2, <3>2
    <3> QED  BY <3>1, <3>3, <3>4, Zenon
  <2> QED  BY <2>1, <2>2
<1> HIDE DEF cl
<1>12. /\ asked \in Calls /\ call.retval = Len(out)
       /\ call.to = "buffer" => call.buffer = SubSeq(out, 1, Held(Len(out), call.size))
       /\ ScrnInv
  BY <1>1 DEF PrintInv, CallInv
<1>13. ScrnInv'
  BY <1>1, <1>12, ScrnUnchanged
<1>14. CallInv'
  BY <1>1, <1>2, <1>9, <1>11, <1>12 DEF CallInv
<1> QED  BY <1>13, <1>14 DEF PrintInv

(* SPRINT_S prints the text of the conversion character by character. *)
LEMMA SprintSKeeps ==
    ASSUME PrintInv, SPRINT_S
    PROVE  PrintInv'
<1> DEFINE c == Head(call.tmp_str)
           rest == Tail(call.tmp_str)
           cl == [call EXCEPT !.tmp_str = rest]
<1>1. call # NoCall /\ call.tmp_str # <<>> /\ Output(c) /\ call' = SPRINT_C(cl, c)
  BY DEF SPRINT_S
<1>2. /\ call \in ScreenCalls \cup BufferCalls /\ call.tmp_str \in Strings /\ out \in Strings
      /\ call.format \in Strings /\ call.ap \in Seq(Arguments)
  BY <1>1, InCall
<1>3. PICK k \in 0 .. Len(asked.format) : At(call.format, call.ap, call.tmp_str, out, asked, k)
  BY <1>1, InCall
<1>4. c \in Chars /\ rest \in Strings
  BY <1>1, <1>2, HeadTailProperties DEF Strings
<1>5. call.tmp_str = <<c>> \o rest
  <2>1. call.tmp_str \in Seq(Chars) /\ Len(call.tmp_str) \in Nat /\ Len(call.tmp_str) > 0
    BY <1>1, <1>2 DEF Strings
  <2>2. 1 \in 1 .. Len(call.tmp_str) /\ Len(call.tmp_str) \in 1 .. Len(call.tmp_str) /\ 1 + 1 = 2
    BY <2>1
  <2>3. SubSeq(call.tmp_str, 1, Len(call.tmp_str)) = <<call.tmp_str[1]>> \o SubSeq(call.tmp_str, 1 + 1, Len(call.tmp_str))
    BY <2>1, <2>2, SubSeqRecursiveFirst
  <2>4. rest = SubSeq(call.tmp_str, 2, Len(call.tmp_str))
    BY <1>1, <2>1, TailIsSubSeq
  <2>5. SubSeq(call.tmp_str, 1, Len(call.tmp_str)) = call.tmp_str
    BY <2>1, SubSeqFull
  <2>6. c = call.tmp_str[1]
    BY <2>1
  <2> HIDE DEF c, rest
  <2> QED  BY <2>2, <2>3, <2>4, <2>5, <2>6, Zenon
<1> HIDE DEF c, rest
<1>6. Append(out, c) \o rest = out \o call.tmp_str
  <2>1. <<c>> \in Strings
    BY <1>4, Concat, Zenon
  <2>2. Append(out, c) = out \o <<c>>
    BY <1>2, <1>4, AppendIsConcat, Zenon DEF Strings
  <2>3. (out \o <<c>>) \o rest = out \o (<<c>> \o rest)
    <3>1. out \in Strings /\ rest \in Strings
      BY <1>2, <1>4, Zenon
    <3> QED  BY <2>1, <3>1, ConcatThree, Zenon
  <2> QED  BY <1>5, <2>2, <2>3, Zenon
<1>7. At(call.format, call.ap, rest, Append(out, c), asked, k)
  BY <1>3, <1>6 DEF At
<1>8. cl.format = call.format /\ cl.ap = call.ap /\ cl.tmp_str = rest
  BY <1>2, <1>4, ExceptTmp
<1>9. /\ cl \in ScreenCalls \cup BufferCalls /\ cl.to = call.to /\ cl.retval = call.retval
      /\ cl.to = "buffer" => cl.buffer = call.buffer /\ cl.size = call.size
  <2>1. rest \in Strings /\ call.format \in Strings /\ call.ap \in Seq(Arguments) /\ call \in ScreenCalls \cup BufferCalls
    BY <1>2, <1>4
  <2> QED  BY <2>1, ExceptTmp
<1> HIDE DEF cl
<1>10. At(cl.format, cl.ap, cl.tmp_str, Append(out, c), asked, k)
  BY <1>7, <1>8
<1> QED  BY <1>1, <1>3, <1>4, <1>9, <1>10, PrintedStep

(* A call begins with nothing printed and the whole format to come. *)
LEMMA CallBegins ==
    ASSUME ScrnInv, NEW c \in Calls, UNCHANGED <<cells, xpos, ypos, roll>>, out' = <<>>, asked' = c,
           \/ call' = [to |-> "screen", format |-> c.format, ap |-> c.ap, tmp_str |-> <<>>, retval |-> 0]
           \/ \E size \in BufferSizes :
                 call' = [to |-> "buffer", format |-> c.format, ap |-> c.ap, tmp_str |-> <<>>, retval |-> 0,
                          buffer |-> <<>>, size |-> size]
    PROVE  PrintInv'
<1>1. /\ c.format \in Strings /\ c.ap \in Seq(Arguments) /\ <<>> \in Strings
      /\ 0 \in 0 .. Len(c.format) /\ At(c.format, c.ap, <<>>, <<>>, c, 0)
  BY CallStarts
<1>2. ScrnInv'
  BY ScrnUnchanged
<1>3. BufferSizes \subseteq Nat
  BY PrintAssumption, SMT
<1>4. Len(<<>>) = 0
  OBVIOUS
<1>5. /\ call' \in ScreenCalls \cup BufferCalls /\ call'.retval = 0
      /\ call'.format = c.format /\ call'.ap = c.ap /\ call'.tmp_str = <<>>
      /\ call'.to = "buffer" => call'.buffer = SubSeq(<<>>, 1, Held(0, call'.size))
  <2>1. CASE call' = [to |-> "screen", format |-> c.format, ap |-> c.ap, tmp_str |-> <<>>, retval |-> 0]
    <3>1. call' \in ScreenCalls
      BY <1>1, <2>1 DEF ScreenCalls
    <3> QED  BY <2>1, <3>1
  <2>2. ASSUME NEW size \in BufferSizes,
               call' = [to |-> "buffer", format |-> c.format, ap |-> c.ap, tmp_str |-> <<>>, retval |-> 0,
                        buffer |-> <<>>, size |-> size]
        PROVE  /\ call' \in ScreenCalls \cup BufferCalls /\ call'.retval = 0
               /\ call'.format = c.format /\ call'.ap = c.ap /\ call'.tmp_str = <<>>
               /\ call'.to = "buffer" => call'.buffer = SubSeq(<<>>, 1, Held(0, call'.size))
    <3>1. call' \in BufferCalls
      BY <1>1, <1>3, <2>2 DEF BufferCalls
    <3>2. Held(0, size) = 0
      BY <1>3 DEF Held
    <3>3. SubSeq(<<>>, 1, 0) = <<>>
      BY SubSeqEmpty, 1 \in Int, 0 \in Int, 0 < 1
    <3> QED  BY <2>2, <3>1, <3>2, <3>3
  <2> QED  BY <2>1, <2>2
<1>6. /\ call'.retval = Len(out') /\ out' \in Strings
      /\ call'.to = "buffer" => call'.buffer = SubSeq(out', 1, Held(Len(out'), call'.size))
      /\ At(call'.format, call'.ap, call'.tmp_str, out', asked', 0) /\ 0 \in 0 .. Len(asked'.format)
  BY <1>1, <1>4, <1>5
<1>7. CallInv'
  BY <1>5, <1>6 DEF CallInv
<1> QED  BY <1>2, <1>7 DEF PrintInv

(* Every step keeps the invariant. *)
LEMMA PrintStepInv == PrintInv /\ [PrintNext]_printVars => PrintInv'
<1> SUFFICES ASSUME PrintInv, [PrintNext]_printVars PROVE PrintInv'
  OBVIOUS
<1>0. ScrnInv
  BY DEF PrintInv
<1>1. ASSUME NEW c \in Keys, PutOne(c) PROVE PrintInv'
  <2>1. call = NoCall /\ scrn_putc(c) /\ call' = call
    BY <1>1 DEF PutOne
  <2>2. c \in Chars
    BY PrintAssumption, SMT
  <2>3. ScrnInv'
    BY <1>0, <2>1, <2>2, PutcScrnInv
  <2> QED  BY <2>1, <2>3 DEF PrintInv, CallInv
<1>2. ASSUME NEW c \in Calls, printf(c) PROVE PrintInv'
  BY <1>0, <1>2, CallBegins DEF printf, scrnVars
<1>3. ASSUME NEW c \in Calls, NEW size \in BufferSizes, snprintf(c, size) PROVE PrintInv'
  BY <1>0, <1>3, CallBegins DEF snprintf, scrnVars
<1>4. CASE Literal
  BY <1>4, LiteralKeeps DEF Literal
<1>5. CASE Percent
  BY <1>5, LiteralKeeps DEF Percent
<1>6. CASE Convert
  BY <1>6, ConvertKeeps
<1>7. CASE SPRINT_S
  BY <1>7, SprintSKeeps
<1>8. CASE Return
  <2>1. call' = NoCall /\ UNCHANGED <<cells, xpos, ypos, roll>>
    BY <1>8 DEF Return, scrnVars
  <2>2. ScrnInv'
    BY <1>0, <2>1, ScrnUnchanged
  <2> QED  BY <2>1, <2>2 DEF PrintInv, CallInv
<1>9. CASE UNCHANGED printVars
  <2>1. call' = call /\ out' = out /\ asked' = asked /\ UNCHANGED <<cells, xpos, ypos, roll>>
    BY <1>9 DEF printVars, scrnVars
  <2>2. ScrnInv'
    BY <1>0, <2>1, ScrnUnchanged
  <2>3. CallInv'
    BY <2>1, Zenon DEF PrintInv, CallInv
  <2> QED  BY <2>2, <2>3 DEF PrintInv
<1> QED  BY <1>1, <1>2, <1>3, <1>4, <1>5, <1>6, <1>7, <1>8, <1>9 DEF PrintNext

(* The invariant always holds. *)
LEMMA PrintInvAlways == PrintSpec => []PrintInv
<1> QED  BY PrintInitInv, PrintStepInv, PTL DEF PrintSpec

(* A call that has come to a place in its format has printed the text up   *)
(* to there.                                                               *)
LEMMA AskedText == PrintInv => PrintsAsAsked
<1> SUFFICES ASSUME PrintInv, call # NoCall, Defined(asked)
             PROVE  /\ IsPrefix(out, Expected(asked))
                    /\ call.retval = Len(out)
                    /\ Done => out = Expected(asked)
                    /\ call.to = "buffer" =>
                          call.buffer = SubSeq(out, 1, IF Len(out) < call.size THEN Len(out) ELSE call.size)
  BY DEF PrintsAsAsked
<1> DEFINE f == asked.format
           L == Len(f)
           tmp == call.tmp_str
<1>1. /\ WellFormed(asked) /\ f \in Seq(Chars) /\ L \in Nat /\ tmp \in Strings /\ out \in Strings
  BY InCall
<1>2. PICK k \in 0 .. L : At(call.format, call.ap, tmp, out, asked, k)
  BY InCall
<1>3. out \o tmp = TextTo(asked, k) /\ call.format = SubSeq(f, k + 1, L)
  BY <1>2 DEF At
<1>4. IsPrefix(out, Expected(asked))
  <2>1. PICK r \in Strings : Expected(asked) = TextTo(asked, k) \o r
    BY <1>1, TextToText
  <2> HIDE DEF tmp
  <2>2. Expected(asked) = out \o (tmp \o r) /\ tmp \o r \in Strings
    <3> HIDE DEF f, L
    <3>1. (out \o tmp) \o r = out \o (tmp \o r) /\ tmp \o r \in Strings
      BY <1>1, ConcatThree
    <3> QED  BY <1>3, <2>1, <3>1, Zenon
  <2> QED  BY <1>1, <2>2, PrefixOf DEF Strings
<1>5. ASSUME Done PROVE out = Expected(asked)
  <2>1. tmp = <<>> /\ call.format = <<>>
    BY <1>5 DEF Done
  <2>2. ~(k < L)
    BY <1>1, <1>3, <2>1, RestElements
  <2>3. k = L
    BY <1>1, <2>2
  <2>4. out \o <<>> = out
    BY <1>1, Concat
  <2> QED  BY <1>3, <2>1, <2>3, <2>4 DEF Expected
<1>6. /\ call.retval = Len(out)
      /\ call.to = "buffer" => call.buffer = SubSeq(out, 1, IF Len(out) < call.size THEN Len(out) ELSE call.size)
  BY Zenon DEF PrintInv, CallInv, Held
<1> QED  BY <1>4, <1>5, <1>6

(* The screen shows the last rows of what was printed, whatever was        *)
(* wrapped, scrolled, overwritten or tabbed before (scrn.c:106-176), on a   *)
(* screen of any size.                                                     *)
THEOREM ShowsLastRowsAlways == PrintSpec => []ShowsLastRows
<1>1. PrintInv => ShowsLastRows
  <2> SUFFICES ASSUME PrintInv PROVE ShowsLastRows
    OBVIOUS
  <2>1. xpos = roll.x /\ Shows(cells, ypos, roll.rows)
    BY DEF PrintInv, ScrnInv
  <2> QED  BY <2>1, Zenon DEF ShowsLastRows, Shows
<1> QED  BY <1>1, PrintInvAlways, PTL

(* Every call of printf and snprintf that has no "%%" in its format and no  *)
(* INT_MIN among its arguments prints the text its format asks for and says *)
(* how long it is; a buffer gets as much of its front as it holds and no    *)
(* terminator (printf.c:183-229).                                          *)
THEOREM PrintsAsAskedAlways == PrintSpec => []PrintsAsAsked
<1> QED  BY AskedText, PrintInvAlways, PTL
=============================================================================
