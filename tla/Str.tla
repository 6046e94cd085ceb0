-------------------------------- MODULE Str --------------------------------
(***************************************************************************)
(* lib/c/string.c: what its loops do, in their order, to a memory m, a     *)
(* function from addresses to values.  A string is what lies at an address *)
(* up to the first NUL.                                                    *)
(***************************************************************************)
EXTENDS Integers, Sequences

CONSTANTS
    NUL,    \* the value of the terminating character
    FAULT   \* what is left of a memory when a loop does not end

(* The memory after the loop "for (i = 0; i < n; i++) dest[i] = Value(i)",  *)
(* where the value may be read from the memory as the loop has left it.    *)
Loop(m, dest, n, Value(_, _)) ==
    LET after[i \in 0 .. n] ==
            IF i = 0 THEN m
            ELSE [after[i - 1] EXCEPT ![dest + i - 1] = Value(after[i - 1], i - 1)]
    IN  after[n]

memcpy(m, dest, src, count) == Loop(m, dest, count, LAMBDA mem, i : mem[src + i])

(* The loop for a destination at or behind the source counts down and runs *)
(* while i >= 0, which an unsigned number always is.                       *)
memmove(m, dest, src, count) == IF src > dest THEN memcpy(m, dest, src, count) ELSE FAULT

memset(m, dest, val, count) == Loop(m, dest, count, LAMBDA mem, i : val)

(* memset_w counts words: here the values of m are words.                  *)
memset_w(m, dest, val, count) == Loop(m, dest, count, LAMBDA mem, i : val)

(* The offsets from an address in the memory. *)
Offsets(m, str) == {a - str : a \in {x \in DOMAIN m : x >= str}}

strlen(m, str) ==
    CHOOSE n \in Offsets(m, str) : /\ m[str + n] = NUL
                                   /\ \A i \in 0 .. n - 1 : m[str + i] # NUL

(* The characters are copied, and a terminator set behind them.            *)
Copied(m, dest, src, n) == [memcpy(m, dest, src, n) EXCEPT ![dest + n] = NUL]

strcpy(m, dest, src) == Copied(m, dest, src, strlen(m, src))

\* Bug: the terminator is not counted.
strcpy_n_long(m, dest, src, max_len) ==
    LET n == strlen(m, src)
    IN  Copied(m, dest, src, IF n > max_len THEN max_len ELSE n)

(* At most max_len - 1 characters; max_len is unsigned, so 0 is no limit.   *)
strcpy_n(m, dest, src, max_len) ==
    LET n == strlen(m, src)
    IN  Copied(m, dest, src, IF max_len > 0 /\ n > max_len - 1 THEN max_len - 1 ELSE n)

strcat(m, dest, src) == strcpy(m, dest + strlen(m, dest), src)

(* The difference at the first place where the strings differ.             *)
strcmp(m, s1, s2) ==
    LET i == CHOOSE n \in Offsets(m, s1) :
                /\ m[s1 + n] # m[s2 + n] \/ m[s1 + n] = NUL
                /\ \A k \in 0 .. n - 1 : m[s1 + k] = m[s2 + k] /\ m[s1 + k] # NUL
    IN  m[s1 + i] - m[s2 + i]

-----------------------------------------------------------------------------
(* The string at an address as a sequence.                                 *)
Text(m, str) == [i \in 1 .. strlen(m, str) |-> m[str + i - 1]]

(* What the string functions should do with the strings at a and b, which  *)
(* have size cells each, a before b: copies are whole or cut to max_len - 1,*)
(* concatenation joins, comparison tells the first difference, a move to   *)
(* lower addresses copies what was there, and nothing else is written.     *)
StringsRight(m, a, b, size) ==
    LET ta == Text(m, a)
        tb == Text(m, b)
        Outside(n) == {i \in DOMAIN m : i \notin a .. a + n}
        Only(mem, n) == \A i \in Outside(n) : mem[i] = m[i]
        Front(t, n) == [i \in 1 .. (IF Len(t) < n THEN Len(t) ELSE n) |-> t[i]]
    IN  /\ Text(strcpy(m, a, b), a) = tb /\ Only(strcpy(m, a, b), Len(tb))
        /\ \A n \in 1 .. size :
              LET r == strcpy_n(m, a, b, n)
              IN  Text(r, a) = Front(tb, n - 1) /\ Only(r, n - 1)
        /\ Len(ta) + Len(tb) < size => Text(strcat(m, a, b), a) = ta \o tb
        /\ (strcmp(m, a, b) = 0) = (ta = tb)
        /\ strcmp(m, a, b) = -strcmp(m, b, a)
        /\ \A d \in a .. b - 1, n \in 0 .. size :
              memmove(m, d, b, n) = [i \in DOMAIN m |-> IF i \in d .. d + n - 1 THEN m[b + i - d] ELSE m[i]]
        /\ \A n \in 0 .. size :
              memset(m, a, NUL, n) = [i \in DOMAIN m |-> IF i \in a .. a + n - 1 THEN NUL ELSE m[i]]
=============================================================================
