-------------------------------- MODULE Scrn --------------------------------
(***************************************************************************)
(* The text screen, lib/devs/scrn.c: one action, scrn_putc, from the state *)
(* scrn_clear leaves.  Everything that prints calls it: module Printf.     *)
(* Calls are whole: they come from main before interrupts are on, or from  *)
(* handlers, which run with interrupts off.  The one exception is main's   *)
(* last message, printed after sti; what an interrupt that prints in the   *)
(* middle of it does to the screen is not modelled.                        *)
(*                                                                         *)
(* roll is what was printed, as on a roll of paper that never scrolls: the *)
(* reference for what the screen should show.                              *)
(***************************************************************************)
EXTENDS Str

CONSTANTS
    SCREEN_WIDTH,
    SCREEN_HEIGHT,
    tab_width,
    Printable,  \* the characters that print
    MaxPuts     \* bound on the number of characters

ASSUME ScreenAssumption ==
    /\ SCREEN_WIDTH \in Nat \ {0}
    /\ SCREEN_HEIGHT \in Nat \ {0, 1}
    /\ tab_width \in Nat \ {0} /\ SCREEN_WIDTH % tab_width = 0
    /\ MaxPuts \in Nat
    /\ Printable \cap {"tab", "cr", "lf", "bs", "other"} = {}

VARIABLES
    cells,  \* the characters in video memory, by offset
    xpos,
    ypos,
    roll,   \* history: the rows printed, and the column of the cursor in the last
    puts    \* characters so far

scrnVars == <<cells, xpos, ypos, roll, puts>>

Space == " "
Chars == Printable \cup {"tab", "cr", "lf", "bs", "other"}
Columns == 0 .. SCREEN_WIDTH - 1
OnScreen == 0 .. SCREEN_WIDTH * SCREEN_HEIGHT - 1
\* What the code writes: one row more.
Cells == 0 .. SCREEN_WIDTH * (SCREEN_HEIGHT + 1) - 1

\* (xpos + tab_width) & ~(tab_width - 1): xpos is a byte, but never near 256.
TabStop(x) == ((x + tab_width) \div tab_width) * tab_width

\* Bug: the last character of the last row is not cleared.
ScrolledOneRow(cs) ==
    LET kept == SCREEN_WIDTH * (SCREEN_HEIGHT - 1)
    IN  memset_w(memmove(cs, 0, SCREEN_WIDTH, kept), kept, Space, SCREEN_WIDTH - 1)

(* scrn_scroll: the rows move up by one; memset_w counts words, so it       *)
(* clears the last row and the one beyond the screen.                       *)
Scrolled(cs) ==
    LET kept == SCREEN_WIDTH * (SCREEN_HEIGHT - 1)
    IN  memset_w(memmove(cs, 0, SCREEN_WIDTH, kept), kept, Space, SCREEN_WIDTH * 2)

(* The cursor and the screen, after what the character itself does.         *)
Placed(s, c) ==
    CASE c = "tab" -> [s EXCEPT !.x = TabStop(@)]
      [] c = "cr"  -> [s EXCEPT !.x = 0]
      [] c = "lf"  -> [s EXCEPT !.x = 0, !.y = @ + 1]
      [] c = "bs"  -> [s EXCEPT !.x = IF @ > 0 THEN @ - 1 ELSE @]
      [] c \in Printable ->
            [s EXCEPT !.cells[s.x + SCREEN_WIDTH * s.y] = c, !.x = @ + 1]
      [] OTHER -> s

Wrap(s) == IF s.x >= SCREEN_WIDTH THEN [s EXCEPT !.x = 0, !.y = @ + 1] ELSE s

Scroll(s) ==
    IF s.y >= SCREEN_HEIGHT THEN [s EXCEPT !.cells = Scrolled(@), !.y = @ - 1] ELSE s

-----------------------------------------------------------------------------
(* The roll of paper. *)
BlankRow == [x \in Columns |-> Space]

NewRow(p) == [rows |-> Append(p.rows, BlankRow), x |-> 0]

\* The first tab stop right of x.
NextStop(x) == CHOOSE t \in x + 1 .. x + tab_width : t % tab_width = 0

RollPut(p, c) ==
    CASE c = "tab" -> IF NextStop(p.x) \in Columns THEN [p EXCEPT !.x = NextStop(@)] ELSE NewRow(p)
      [] c = "cr"  -> [p EXCEPT !.x = 0]
      [] c = "lf"  -> NewRow(p)
      [] c = "bs"  -> IF p.x = 0 THEN p ELSE [p EXCEPT !.x = @ - 1]
      [] c = "other" -> p
      [] OTHER -> LET q == [p EXCEPT !.rows[Len(p.rows)][p.x] = c]
                  IN  IF p.x + 1 \in Columns THEN [q EXCEPT !.x = @ + 1] ELSE NewRow(q)

-----------------------------------------------------------------------------
(* scrn_clear *)
ScrnInit ==
    /\ cells = [i \in Cells |-> Space]
    /\ xpos = 0
    /\ ypos = 0
    /\ roll = [rows |-> <<BlankRow>>, x |-> 0]
    /\ puts = 0

scrn_putc(c) ==
    /\ puts < MaxPuts
    /\ puts' = puts + 1
    /\ LET s == Scroll(Wrap(Placed([cells |-> cells, x |-> xpos, y |-> ypos], c)))
       IN  cells' = s.cells /\ xpos' = s.x /\ ypos' = s.y
    /\ roll' = RollPut(roll, c)

-----------------------------------------------------------------------------
(* The screen shows the last rows that were printed, and the cursor is      *)
(* where the next character goes on the roll, whatever was wrapped,         *)
(* scrolled, overwritten or tabbed before.                                  *)
ShowsLastRows ==
    LET above == Len(roll.rows) - ypos - 1
    IN  /\ xpos = roll.x
        /\ above >= 0
        /\ above > 0 => ypos = SCREEN_HEIGHT - 1
        /\ \A i \in OnScreen :
              LET row == above + (i \div SCREEN_WIDTH) + 1
              IN  cells[i] = IF row <= Len(roll.rows)
                             THEN roll.rows[row][i % SCREEN_WIDTH] ELSE Space
=============================================================================
