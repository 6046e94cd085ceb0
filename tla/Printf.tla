------------------------------- MODULE Printf -------------------------------
(***************************************************************************)
(* Formatted printing, lib/c/printf.c, onto the screen of module Scrn or    *)
(* into a buffer.  A format is a sequence of characters; _printf_helper     *)
(* goes through it, and every SPRINT_C is a step.  Calls are whole: see    *)
(* module Scrn.                                                            *)
(***************************************************************************)
EXTENDS Scrn, SequencesExt

CONSTANTS
    INT_MAX,     \* int is -INT_MAX - 1 .. INT_MAX
    KILO,        \* 1024 in the code
    Calls,       \* the formats and arguments that printf is called with
    BufferSizes, \* the sizes of buffer that snprintf is called with
    Keys         \* the characters that something else prints one by one

INT_MIN == -INT_MAX - 1
ULONG == 2 * (INT_MAX + 1)

VARIABLES
    call,   \* the call of _printf_helper that is running, or NoCall
    out,    \* history: the characters it has produced
    asked   \* history: its format and arguments

printVars == <<scrnVars, call, out, asked>>

NoCall == [to |-> "none"]

(* What scrn.c's functions for numbers and variables call printf with.      *)
scrn_putn(num) == [format |-> <<"%", "d">>, ap |-> <<[int |-> num]>>]
scrn_putn_16(num) == [format |-> <<"0", "x", "%", "X">>, ap |-> <<[int |-> num]>>]
scrn_putn_h(num) == [format |-> <<"%", "H">>, ap |-> <<[int |-> num]>>]
PutVar(name, value, how) ==
    [format |-> <<"%", "s", "tab", "=", Space>> \o how \o <<"lf">>, ap |-> <<[str |-> name], value>>]
scrn_put_var(name, num) == PutVar(name, [int |-> num], <<"%", "d">>)
scrn_put_var_16(name, num) == PutVar(name, [int |-> num], <<"0", "x", "%", "X">>)
scrn_put_var_h(name, num) == PutVar(name, [int |-> num], <<"%", "H">>)
scrn_put_var_str(name, str) == PutVar(name, [str |-> str], <<"%", "s">>)

-----------------------------------------------------------------------------
digit_str_l == <<"0", "1", "2", "3", "4", "5", "6", "7", "8", "9", "a", "b", "c", "d", "e", "f">>
digit_str_u == <<"0", "1", "2", "3", "4", "5", "6", "7", "8", "9", "A", "B", "C", "D", "E", "F">>

(* What lies before the digits in memory: read for a negative digit.       *)
Garbage == "?"

(* The digits of num from the last, as num % base and num / base give them. *)
Digits(num, base) ==
    LET rest[i \in 0 .. 12] == IF i = 0 THEN num ELSE rest[i - 1] \div base
    IN  [i \in 0 .. 11 |-> rest[i] % base]

(* int2str_10l, int2str_16l and int2str_16u.  -INT_MIN is INT_MIN again,   *)
(* whose digits come out negative.                                         *)
int2str(num, base, digit_str) ==
    LET size == IF num < 0 THEN -num ELSE num
        d == Digits(size, base)
        Char(i) == IF num = INT_MIN /\ d[i] # 0 THEN Garbage ELSE digit_str[d[i] + 1]
        used == {i \in 0 .. 11 : \E j \in i .. 11 : d[j] # 0} \cup {0}
        n == Cardinality(used)
    IN  (IF num < 0 THEN <<"-">> ELSE <<>>) \o [k \in 1 .. n |-> Char(n - k)]

(* One unit of long2str_10h, when there is something of it.                *)
WithUnit(str, num, unit, suffix) ==
    IF num < unit THEN str
    ELSE str \o (IF str = <<>> THEN <<>> ELSE <<"+">>)
             \o int2str(num \div unit, 10, digit_str_l) \o suffix

(* long2str_10h with a precision above 3; what is left is always printed.   *)
long2str_10h(num) ==
    LET M == KILO * KILO
        G == M * KILO
        g == WithUnit(<<>>, num, G, <<"G">>)
        m == WithUnit(g, num % G, M, <<"M">>)
        k == WithUnit(m, num % M, KILO, <<"k">>)
    IN  k \o (IF k = <<>> THEN <<>> ELSE <<"+">>) \o int2str(num % KILO, 10, digit_str_l)

(* What a conversion prints of its argument.                               *)
Converted(c, arg) ==
    CASE c \in {"i", "d"} -> int2str(arg.int, 10, digit_str_l)
      [] c = "x" -> int2str(arg.int, 16, digit_str_l)
      [] c = "X" -> int2str(arg.int, 16, digit_str_u)
      [] c = "H" -> long2str_10h(arg.int % ULONG)
      [] c = "s" -> arg.str

Conversions == {"i", "d", "x", "X", "H", "s"}

-----------------------------------------------------------------------------
(* What a conversion should print: the numeral of least length, and the    *)
(* sum of units, those that there are.                                     *)
Numeral(n, base) ==
    LET num[k \in 0 .. n] == IF k < base THEN <<k>> ELSE Append(num[k \div base], k % base)
    IN  num[n]

Spelled(num, digits) == [k \in DOMAIN num |-> digits[num[k] + 1]]

Signed(n, base, digits) ==
    IF n < 0 THEN <<"-">> \o Spelled(Numeral(-n, base), digits) ELSE Spelled(Numeral(n, base), digits)

Unit(n, suffix) == IF n = 0 THEN <<>> ELSE Signed(n, 10, digit_str_l) \o suffix \o <<"+">>

Units(n) ==
    Unit(n \div (KILO * KILO * KILO), <<"G">>) \o Unit((n \div (KILO * KILO)) % KILO, <<"M">>)
        \o Unit((n \div KILO) % KILO, <<"k">>) \o Signed(n % KILO, 10, digit_str_l)

Wanted(c, arg) ==
    CASE c \in {"i", "d"} -> Signed(arg.int, 10, digit_str_l)
      [] c = "x" -> Signed(arg.int, 16, digit_str_l)
      [] c = "X" -> Signed(arg.int, 16, digit_str_u)
      [] c = "H" -> Units(IF arg.int < 0 THEN arg.int + ULONG ELSE arg.int)
      [] OTHER -> arg.str

(* Where in a format f conversions end, and which argument the one that     *)
(* ends at k takes.                                                        *)
Converts(f) == {k \in DOMAIN f : k > 1 /\ f[k - 1] = "%" /\ f[k] \in Conversions}
Argument(f, k) == Cardinality({j \in Converts(f) : j <= k})

(* The text of a call, up to and with what the k-th character of its       *)
(* format asks for.                                                        *)
Piece(c, k) ==
    LET f == c.format
    IN  IF f[k] = "%" THEN IF k < Len(f) /\ f[k + 1] = "%" THEN <<"%">> ELSE <<>>
        ELSE IF k \in Converts(f) THEN Wanted(f[k], c.ap[Argument(f, k)])
        ELSE IF k > 1 /\ f[k - 1] = "%" THEN <<>> ELSE <<f[k]>>
TextTo(c, n) ==
    LET text[k \in 0 .. n] == IF k = 0 THEN <<>> ELSE text[k - 1] \o Piece(c, k)
    IN  text[n]
Expected(c) == TextTo(c, Len(c.format))

(* What a caller sees to: an argument of its kind for every conversion; a   *)
(* sign that ends a format would have the code read on behind it.          *)
Arguments == [int : INT_MIN .. INT_MAX] \cup [str : Seq(Chars)]
WellFormed(c) ==
    /\ c = [format |-> c.format, ap |-> c.ap]
    /\ c.format \in Seq(Chars) /\ c.ap \in Seq(Arguments)
    /\ \A k \in DOMAIN c.format : c.format[k] = "%" => k < Len(c.format)
    /\ \A k \in Converts(c.format) :
          /\ Argument(c.format, k) \in DOMAIN c.ap
          /\ c.ap[Argument(c.format, k)] \in IF c.format[k] = "s" THEN [str : Seq(Chars)] ELSE [int : INT_MIN .. INT_MAX]

Letters == {"-", "+", "%", "G", "M", "k", Garbage} \cup {digit_str_l[k] : k \in 1 .. 16} \cup {digit_str_u[k] : k \in 1 .. 16}

\* No number has more than twelve digits, for which 32 bits are not enough.
ASSUME PrintAssumption ==
    /\ INT_MAX \in Nat /\ INT_MAX \div 1000000 < 500000
    /\ KILO \in Nat \ {0, 1}
    /\ Keys \subseteq Chars /\ Letters \subseteq Printable
    /\ \A c \in Calls : WellFormed(c)
    /\ BufferSizes \subseteq Nat

-----------------------------------------------------------------------------
PrintInit ==
    /\ ScrnInit
    /\ call = NoCall
    /\ out = <<>>
    /\ asked = NoCall

(* printf: buffer is NULL.  A call is made while MaxPuts leaves room for    *)
(* its text.                                                               *)
printf(c) ==
    /\ call = NoCall
    /\ puts + Len(Expected(c)) <= MaxPuts
    /\ call' = [to |-> "screen", format |-> c.format, ap |-> c.ap, tmp_str |-> <<>>, retval |-> 0]
    /\ out' = <<>>
    /\ asked' = c
    /\ UNCHANGED scrnVars

snprintf(c, size) ==
    /\ call = NoCall
    /\ puts + Len(Expected(c)) <= MaxPuts
    /\ call' = [to |-> "buffer", format |-> c.format, ap |-> c.ap, tmp_str |-> <<>>, retval |-> 0,
                buffer |-> <<>>, size |-> size]
    /\ out' = <<>>
    /\ asked' = c
    /\ UNCHANGED scrnVars

\* Bug: one character more than the buffer holds.
SPRINT_C_Over(cl, c) ==
    IF cl.to = "buffer" /\ cl.retval <= cl.size
    THEN [cl EXCEPT !.buffer = Append(@, c), !.retval = @ + 1]
    ELSE [cl EXCEPT !.retval = @ + 1]

(* SPRINT_C, for the buffer, of the call cl.                               *)
SPRINT_C(cl, c) ==
    IF cl.to = "buffer" /\ cl.retval < cl.size
    THEN [cl EXCEPT !.buffer = Append(@, c), !.retval = @ + 1]
    ELSE [cl EXCEPT !.retval = @ + 1]

(* SPRINT_C, for the screen.                                               *)
Output(c) ==
    /\ out' = Append(out, c)
    /\ IF call.to = "screen" THEN scrn_putc(c)
       ELSE puts' = puts + 1 /\ UNCHANGED <<cells, xpos, ypos, roll>>
    /\ UNCHANGED asked

(* The position in the format, once what was converted has been printed.   *)
Active == call # NoCall /\ call.tmp_str = <<>> /\ call.format # <<>>

Literal ==
    /\ Active
    /\ Head(call.format) # "%"
    /\ Output(Head(call.format))
    /\ call' = SPRINT_C([call EXCEPT !.format = Tail(@)], Head(call.format))

(* "%%" prints one and stays in front of the other.                        *)
Percent ==
    /\ Active
    /\ Head(call.format) = "%"
    /\ call.format[2] = "%"
    /\ Output("%")
    /\ call' = SPRINT_C([call EXCEPT !.format = Tail(@)], "%")

Convert ==
    /\ Active
    /\ Head(call.format) = "%"
    /\ call.format[2] # "%"
    /\ call' = IF call.format[2] \in Conversions
               THEN [call EXCEPT !.format = Tail(Tail(@)), !.ap = Tail(@),
                                 !.tmp_str = Converted(call.format[2], Head(call.ap))]
               ELSE [call EXCEPT !.format = Tail(Tail(@))]
    /\ UNCHANGED <<scrnVars, out, asked>>

SPRINT_S ==
    /\ call # NoCall
    /\ call.tmp_str # <<>>
    /\ Output(Head(call.tmp_str))
    /\ call' = SPRINT_C([call EXCEPT !.tmp_str = Tail(@)], Head(call.tmp_str))

Done == call # NoCall /\ call.tmp_str = <<>> /\ call.format = <<>>

Return ==
    /\ Done
    /\ call' = NoCall
    /\ out' = <<>>
    /\ asked' = NoCall
    /\ UNCHANGED scrnVars

(* A character of scrn_puts or scrn_puta, or of the keyboard's handler.    *)
PutOne(c) ==
    /\ call = NoCall
    /\ scrn_putc(c)
    /\ UNCHANGED <<call, out, asked>>

PrintNext ==
    \/ \E c \in Keys : PutOne(c)
    \/ \E c \in Calls : printf(c)
    \/ \E c \in Calls, size \in BufferSizes : snprintf(c, size)
    \/ Literal \/ Percent \/ Convert \/ SPRINT_S
    \/ Return

PrintSpec == PrintInit /\ [][PrintNext]_printVars

-----------------------------------------------------------------------------
(* The calls that print what they should: after "%%" the second sign is     *)
(* looked at again (printf.c:199-201), and of INT_MIN memory in front of    *)
(* the digits is printed; both are left out.                                *)
Defined(c) ==
    /\ \A i \in 1 .. Len(c.format) - 1 : ~(c.format[i] = "%" /\ c.format[i + 1] = "%")
    /\ \A i \in DOMAIN c.ap : c.ap[i] # [int |-> INT_MIN]

(* printf.c:183-229: a finished call has printed the text its format asks  *)
(* for and returns that text's length; snprintf never writes more than     *)
(* size characters and keeps the front of the text when it is longer.      *)
(* Nothing is said of formats with "%%" and of INT_MIN (Defined), nor of a  *)
(* terminator: the buffer holds text only, and vsnprintf writes none.       *)
PrintsAsAsked ==
    call # NoCall /\ Defined(asked) =>
      /\ IsPrefix(out, Expected(asked))
      /\ call.retval = Len(out)
      /\ Done => out = Expected(asked)
      /\ call.to = "buffer" =>
            call.buffer = SubSeq(out, 1, IF Len(out) < call.size THEN Len(out) ELSE call.size)
=============================================================================
