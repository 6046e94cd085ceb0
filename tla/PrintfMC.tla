------------------------------ MODULE PrintfMC ------------------------------
(***************************************************************************)
(* Instances of module Printf for TLC:  int has ten bits and a kilo is 4,  *)
(* so that every unit of long2str_10h occurs.                              *)
(***************************************************************************)
EXTENDS Printf

CONSTANT VFS_FILENAME_LEN
INSTANCE Vfs

MCCalls ==
    { scrn_putn(-60), scrn_putn(INT_MIN), scrn_putn_16(171), scrn_put_var(<<"a">>, 7),
      scrn_put_var_16(<<>>, 10), scrn_put_var_h(<<"a">>, 3), scrn_put_var_str(<<"b">>, <<"a">>) }
    \cup { scrn_putn_h(n) : n \in {5, 64, 87, -1} }
    \cup { [format |-> <<"%", "x", "b">>, ap |-> <<[int |-> -171]>>],
           [format |-> <<"%", "%", "a", "b">>, ap |-> <<>>],
           [format |-> <<"%", "q", "%", "s", "%", "i">>, ap |-> <<[str |-> <<"cr">>], [int |-> 0]>>] }

(* lib/c/string.c on every pair of strings of at most two characters out   *)
(* of two, with anything behind their terminators; the paths of at most six *)
(* characters taken apart, where a component longer than VFS_FILENAME_LEN   *)
(* overflows its buffer by the one cell and no other does; and the         *)
(* permissions of every mode (string.c, vfs.c:67-123).  They depend on     *)
(* their arguments only, so one state is enough for them: before anything  *)
(* is printed.                                                              *)
FunctionsRight ==
    puts = 0 /\ call = NoCall =>
      /\ \A m \in {c \in [0 .. 5 -> 0 .. 2] : 0 \in {c[0], c[1], c[2]} /\ 0 \in {c[3], c[4], c[5]}} :
            StringsRight(m, 0, 3, 3)
      /\ PathsRight({"a", "b", "/"}, 6)
      /\ PermsRight
=============================================================================
