-------------------------------- MODULE Kb ---------------------------------
(***************************************************************************)
(* The keyboard, lib/devs/kb.c, on the interrupts of module Irq.  Keys send *)
(* scan codes over a wire; the keyboard controller puts one at a time in   *)
(* port 0x60 and raises line 1; reading the port takes its request back    *)
(* and makes room for the next.  An empty port gives the last byte again.  *)
(*                                                                         *)
(* The handler runs with interrupts off, but the wire does not wait for    *)
(* it: kb_read polls the port for the byte after the prefix 0xE0.          *)
(***************************************************************************)
EXTENDS Irq, Sequences

CONSTANTS
    Plain,           \* keys with a code of their own
    Extended,        \* keys whose code follows the prefix 0xE0
    KB_BUFFER_SIZE,
    WireSize,        \* how many codes the keyboard can hold back
    MaxKeys,         \* bound on the times a key is pressed
    MaxToggles       \* bound on the times kb_print_to_screen is set

ASSUME KeysAssumption ==
    /\ Plain \subseteq 1 .. 95
    /\ Extended \subseteq 1 .. 95
    /\ KB_BUFFER_SIZE \in Nat
    /\ WireSize \in Nat \ {0, 1}
    /\ MaxKeys \in Nat /\ MaxToggles \in Nat
    /\ 1 \in Irqs

VARIABLES
    wire,                \* the codes sent and not yet in the port
    port,                \* the byte in port 0x60
    full,                \* whether the handler has still to read it
    add,                 \* what kb_read adds to the code: 128 per prefix, modulo 256
    kb_flags,
    kb_buffer,           \* its characters; buffer_pos is its length
    kb_print_to_screen,
    kb_err,              \* whether kb_err holds a message
    screen,              \* history: the characters given to scrn_putc
    down,                \* history: the keys held down
    typed,               \* history: what was typed, with the state of the shift key
    toggles              \* times kb_print_to_screen was set

devVars == <<wire, port, full>>
kbVars == <<add, kb_flags, kb_buffer, kb_print_to_screen, kb_err, screen>>
userVars == <<down, typed, toggles>>
allVars == <<irqVars, devVars, kbVars, userVars>>

PREFIX == 224
Release(c) == c + 128

-----------------------------------------------------------------------------
(* kb_layout and kb_layout_sh: the codes that have a character, which is    *)
(* named for its code.  The code's other entries are 0.                    *)
KBF_SHIFT == "shift"
KBF_CTL == "ctl"
KBF_ALT == "alt"
KBF_CAPS == "caps"
NoChar == <<0, {}>>
kb_layout(c) == IF c \in ((1 .. 57) \ {29, 42, 54, 56}) \cup {156, 181} THEN <<c, {}>> ELSE NoChar
kb_layout_sh(c) == IF c \in (1 .. 57) \ {29, 42, 54, 56} THEN <<c, {KBF_SHIFT}>> ELSE NoChar

(* The flag of a key that has one.                                         *)
FlagOf(c) ==
    CASE c \in {42, 54} -> {KBF_SHIFT}
      [] c = 29 -> {KBF_CTL}
      [] c = 56 -> {KBF_ALT}
      [] c = 58 -> {KBF_CAPS}
      [] OTHER -> {}

CharOf(c) == IF KBF_SHIFT \in kb_flags THEN kb_layout_sh(c) ELSE kb_layout(c)

(* kb_init, and the screen before the first key.                           *)
KbInit ==
    /\ Init
    /\ wire = <<>> /\ port = 0 /\ full = FALSE
    /\ add = 0
    /\ kb_flags = {}
    /\ kb_buffer = <<>>
    /\ kb_print_to_screen = FALSE
    /\ kb_err = FALSE
    /\ screen = <<>>
    /\ down = {} /\ typed = <<>> /\ toggles = 0

-----------------------------------------------------------------------------
(* The keyboard and its user; a key held down repeats.  What happens to a  *)
(* machine that is halted does not matter.                                 *)
Send(codes) == Len(wire \o codes) <= WireSize /\ wire' = wire \o codes

PressKey(k) ==
    /\ mode # "halted"
    /\ Len(typed) < MaxKeys
    /\ down' = down \cup {k}
    /\ Send(IF k \in Extended THEN <<PREFIX, k>> ELSE <<k>>)
    /\ typed' = Append(typed, <<k, IF 42 \in down THEN {KBF_SHIFT} ELSE {}>>)
    /\ UNCHANGED <<irqVars, port, full, kbVars, toggles>>

ReleaseKey(k) ==
    /\ mode # "halted"
    /\ k \in down
    /\ down' = down \ {k}
    /\ Send(IF k \in Extended THEN <<PREFIX, Release(k)>> ELSE <<Release(k)>>)
    /\ UNCHANGED <<irqVars, port, full, kbVars, typed, toggles>>

Load ==
    /\ mode # "halted"
    /\ ~full
    /\ wire # <<>>
    /\ port' = Head(wire)
    /\ wire' = Tail(wire)
    /\ full' = TRUE
    /\ requested' = requested \cup {1}
    /\ UNCHANGED <<mode, master_isr, slave_isr, serving, int_no, kbVars, userVars>>

-----------------------------------------------------------------------------
InKbHandler == mode = "handler" /\ irq_handlers[int_no] = "kb_handler"

(* inb(0x60)                                                               *)
ReadPort ==
    /\ full' = FALSE
    /\ requested' = requested \ {1}
    /\ UNCHANGED <<wire, port>>

(* kb_read finds a prefix and calls itself at once.                        *)
ReadPrefix ==
    /\ InKbHandler
    /\ port = PREFIX
    /\ ReadPort
    /\ add' = (add + 128) % 256
    /\ UNCHANGED <<mode, master_isr, slave_isr, serving, int_no, kb_flags, kb_buffer,
                   kb_print_to_screen, kb_err, screen, userVars>>

\* Bug: the buffer is not emptied when it is shown.
PutKeepsBuffer(ch) ==
    IF kb_print_to_screen
    THEN /\ screen' = screen \o kb_buffer \o <<ch>>
         /\ UNCHANGED <<kb_buffer, kb_err>>
    ELSE IF Len(kb_buffer) >= KB_BUFFER_SIZE
    THEN kb_err' = TRUE /\ UNCHANGED <<kb_buffer, screen>>
    ELSE kb_buffer' = Append(kb_buffer, ch) /\ UNCHANGED <<kb_err, screen>>

(* kb_handler with a character: the screen, the buffer or an error.         *)
Put(ch) ==
    IF kb_print_to_screen
    THEN /\ screen' = screen \o kb_buffer \o <<ch>>
         /\ kb_buffer' = <<>>
         /\ UNCHANGED kb_err
    ELSE IF Len(kb_buffer) >= KB_BUFFER_SIZE
    THEN kb_err' = TRUE /\ UNCHANGED <<kb_buffer, screen>>
    ELSE kb_buffer' = Append(kb_buffer, ch) /\ UNCHANGED <<kb_err, screen>>

(* kb_handler with the code that kb_read returns.  The top bit means a     *)
(* release, also for the keys whose code has 128 added.                    *)
Handle(c) ==
    IF c >= 128
    THEN /\ kb_flags' = kb_flags \ FlagOf(c - 128)
         /\ UNCHANGED <<kb_buffer, kb_err, screen>>
    ELSE IF FlagOf(c) # {}
    THEN /\ kb_flags' = kb_flags \cup FlagOf(c)
         /\ UNCHANGED <<kb_buffer, kb_err, screen>>
    ELSE /\ UNCHANGED kb_flags
         /\ Put(CharOf(c))

(* Bug: the interrupt of a key is ended in the second controller only. *)
KbHandlerNoEoi ==
    /\ InKbHandler
    /\ port # PREFIX
    /\ ReadPort
    /\ Handle((add + port) % 256)
    /\ add' = 0
    /\ Leave
    /\ UNCHANGED <<master_isr, slave_isr, kb_print_to_screen, userVars>>

(* The last read, the rest of kb_handler and the end of irq_handler.       *)
KbHandler ==
    /\ InKbHandler
    /\ port # PREFIX
    /\ ReadPort
    /\ Handle((add + port) % 256)
    /\ add' = 0
    /\ EndOfInterrupt(int_no)
    /\ Leave
    /\ UNCHANGED <<kb_print_to_screen, userVars>>

(* kb_print_to_screen is set by whoever includes kb.h: main sets it before *)
(* it enables interrupts.                                                  *)
SetPrintToScreen ==
    /\ mode = "boot"
    /\ kb_print_to_screen' = TRUE
    /\ UNCHANGED <<irqVars, devVars, add, kb_flags, kb_buffer, kb_err, screen, userVars>>

TogglePrintToScreen ==
    /\ mode = "thread"
    /\ toggles < MaxToggles
    /\ toggles' = toggles + 1
    /\ kb_print_to_screen' = ~kb_print_to_screen
    /\ UNCHANGED <<irqVars, devVars, add, kb_flags, kb_buffer, kb_err, screen, down, typed>>

(* What else the CPU and the controllers do leaves the keyboard alone.     *)
KbIdle == UNCHANGED <<devVars, kbVars, userVars>>

KbNext ==
    \/ \E k \in Plain \cup Extended : PressKey(k) \/ ReleaseKey(k)
    \/ Load
    \/ ReadPrefix
    \/ KbHandler
    \/ SetPrintToScreen
    \/ TogglePrintToScreen
    \/ /\ \/ \E n \in Irqs \ {1} : Raise(n)
          \/ EnableInterrupts /\ kb_print_to_screen
          \/ Accept
          \/ TimerHandler
          \/ OtherHandler /\ ~InKbHandler
          \/ Syscall \/ SyscallEnd
          \/ Exception
       /\ KbIdle

(* The handlers end, the keyboard puts its next code in an empty port, and *)
(* when the timer leaves gaps the keyboard's interrupt is taken in one.    *)
KbSpec ==
    /\ KbInit /\ [][KbNext]_allVars
    /\ WF_allVars(SetPrintToScreen)
    /\ WF_allVars(EnableInterrupts /\ kb_print_to_screen /\ KbIdle)
    /\ WF_allVars(Accept /\ KbIdle)
    /\ SF_allVars(Accept /\ serving' = 1 /\ KbIdle)
    /\ WF_allVars((TimerHandler \/ (OtherHandler /\ ~InKbHandler)) /\ KbIdle)
    /\ WF_allVars(ReadPrefix \/ KbHandler)
    /\ WF_allVars(Load)
    /\ WF_allVars(SyscallEnd /\ KbIdle)

-----------------------------------------------------------------------------
(* Text: what the keys with a character print.  Keys that share their code *)
(* with an extended key are left out: when that is released, the top bits  *)
(* of prefix and release cancel out and it counts as a press.              *)
TextKeys == {k \in Plain \ Extended : kb_layout(k) # NoChar}

(* The items of s at the places P. *)
Picked(s, P) ==
    LET f[i \in 0 .. Len(s)] ==
            IF i = 0 THEN <<>>
            ELSE IF i \in P THEN Append(f[i - 1], s[i]) ELSE f[i - 1]
    IN  f[Len(s)]

TextOf(s) == Picked(s, {i \in 1 .. Len(s) : s[i][1] \in TextKeys})

Received == TextOf(screen \o kb_buffer)
TypedText == TextOf(typed)

(* The bytes that kb_read has still to see, from the prefix on when it is  *)
(* waiting for the byte after one.                                         *)
Unread == (IF full \/ port = PREFIX THEN <<port>> ELSE <<>>) \o wire

(* The codes of text keys pressed among them.                              *)
UnreadText ==
    LET Pressed(i) == Unread[i] \in TextKeys /\ (i > 1 => Unread[i - 1] # PREFIX)
    IN  Picked(Unread, {i \in 1 .. Len(Unread) : Pressed(i)})

(* kb.c:107-133: what was typed on the plain keys comes out once, in order *)
(* and shifted as it was when the key went down, from the screen and the   *)
(* buffer together, whatever extended keys are used in between and however *)
(* often printing is turned on and off, until the buffer has overflowed.   *)
TextAsTyped ==
    ~kb_err =>
      LET r == Received
      IN  /\ Len(r) <= Len(TypedText)
          /\ r = SubSeq(TypedText, 1, Len(r))
          /\ UnreadText = [i \in 1 .. Len(TypedText) - Len(r) |-> TypedText[Len(r) + i][1]]

(* Every key is handled in the end, unless an exception stops the machine  *)
(* or timer interrupts follow each other without a gap: no interrupt of    *)
(* the keyboard is lost, and kb_read does not wait for ever for the byte   *)
(* after a prefix.                                                         *)
KeysHandled ==
    []<>(mode = "thread" /\ 0 \notin requested)
      => (wire # <<>> ~> Unread = <<>> \/ mode = "halted")
=============================================================================
