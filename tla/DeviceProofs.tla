---------------------------- MODULE DeviceProofs ----------------------------
(***************************************************************************)
(* Proofs about the devices the kernel talks to and the code that does.    *)
(*                                                                         *)
(* Irq and Kb: interrupts end, and the keyboard's text comes out as typed,  *)
(* for every set of lines that devices raise, of exceptions and of keys.   *)
(*                                                                         *)
(* Disks: main, the scan of the bus and the disk driver, for every machine *)
(* and however late or wrong it answers.                                   *)
(***************************************************************************)
EXTENDS Kb, Disks, OlistProofs, SequenceTheorems, FiniteSetTheorems

(* Inside a handler exactly one line is in service in the first controller, *)
(* so the non-specific end of interrupt ends that one.                     *)
OneInService ==
    /\ mode = "handler" => \E n \in 0 .. 7 : master_isr = {n}
    /\ mode \notin {"handler", "halted"} => master_isr = {}

IrqInv == TypeOK /\ OneInService

(* Every line has a place on its controller and a stub. *)
LEMMA LinesTyped ==
    \A n \in Irqs : /\ n \in 0 .. 15
                    /\ MasterLine(n) \in 0 .. 7
                    /\ StubAt(VectorOf(n)) \in 0 .. 15
<1> SUFFICES ASSUME NEW n \in Irqs
             PROVE  /\ n \in 0 .. 15
                    /\ MasterLine(n) \in 0 .. 7
                    /\ StubAt(VectorOf(n)) \in 0 .. 15
  OBVIOUS
<1>1. n \in 0 .. 15 /\ n # 8
  BY IrqsAssumption
<1> QED  BY <1>1 DEF MasterLine, StubAt, VectorOf, Slave, CASCADE

(* The lowest of one number is that number. *)
LEMMA LowestOfOne == \A n \in Int : LowestOf({n}) = n
BY DEF LowestOf

(* irq_end_of_interrupt takes the one interrupt out of service. *)
LEMMA EndsInterrupt ==
    ASSUME TypeOK, mode = "handler", OneInService, EndOfInterrupt(int_no)
    PROVE  master_isr' = {} /\ slave_isr' \subseteq Slave
<1>1. PICK n \in 0 .. 7 : master_isr = {n}
  BY DEF OneInService
<1>2. LowestOf(master_isr) = n
  BY <1>1, LowestOfOne
<1>3. master_isr' = {}
  BY <1>1, <1>2 DEF EndOfInterrupt
<1>4. slave_isr' \subseteq slave_isr
  BY DEF EndOfInterrupt
<1> QED  BY <1>3, <1>4 DEF TypeOK

(* IrqInv holds at boot. *)
LEMMA InitIrqInv == Init => IrqInv
BY DEF Init, IrqInv, TypeOK, OneInService, Slave

(* Accepting an interrupt puts one line in service. *)
LEMMA AcceptIrqInv == ASSUME IrqInv, Accept PROVE IrqInv'
<1>t. TypeOK /\ OneInService
  BY DEF IrqInv
<1>1. PICK n \in requested :
         /\ requested' = requested \ {n}
         /\ master_isr' = master_isr \cup {MasterLine(n)}
         /\ slave_isr' = IF n \in Slave THEN slave_isr \cup {n} ELSE slave_isr
         /\ serving' = n
         /\ int_no' = StubAt(VectorOf(n))
  BY DEF Accept
<1>2. n \in 0 .. 15 /\ MasterLine(n) \in 0 .. 7 /\ StubAt(VectorOf(n)) \in 0 .. 15
  BY <1>t, LinesTyped DEF TypeOK
<1>3. mode = "thread" /\ mode' = "handler"
  BY DEF Accept
<1>4. master_isr' = {MasterLine(n)}
  BY <1>t, <1>1, <1>3 DEF OneInService
<1>5. OneInService'
  BY <1>2, <1>3, <1>4 DEF OneInService
<1>6. TypeOK'
  BY <1>t, <1>1, <1>2, <1>3, <1>4 DEF TypeOK
<1> QED  BY <1>5, <1>6 DEF IrqInv

(* A handler that is left, whatever became of its line's request.          *)
LEMMA LeaveIrqInv ==
    ASSUME IrqInv, mode = "handler", EndOfInterrupt(int_no), Leave, requested' \subseteq requested
    PROVE  IrqInv'
<1>t. TypeOK /\ OneInService
  BY DEF IrqInv
<1>1. master_isr' = {} /\ slave_isr' \subseteq Slave
  BY <1>t, EndsInterrupt
<1>2. mode' = "thread" /\ serving' = 0 /\ int_no' = 0
  BY DEF Leave
<1> QED  BY <1>t, <1>1, <1>2 DEF IrqInv, TypeOK, OneInService

(* Every step keeps IrqInv. *)
LEMMA NextIrqInv == IrqInv /\ [Next]_irqVars => IrqInv'
<1> SUFFICES ASSUME IrqInv, [Next]_irqVars PROVE IrqInv'
  OBVIOUS
<1>t. TypeOK /\ OneInService
  BY DEF IrqInv
<1>1. ASSUME NEW n \in Irqs, Raise(n) PROVE IrqInv'
  BY <1>1, <1>t DEF Raise, IrqInv, TypeOK, OneInService
<1>2. CASE EnableInterrupts
  BY <1>2, <1>t DEF EnableInterrupts, IrqInv, TypeOK, OneInService
<1>3. CASE Accept
  BY <1>3, AcceptIrqInv
<1>4. CASE TimerHandler \/ OtherHandler
  BY <1>4, LeaveIrqInv DEF TimerHandler, OtherHandler
<1>5. CASE Syscall \/ SyscallEnd
  BY <1>5, <1>t DEF Syscall, SyscallEnd, IrqInv, TypeOK, OneInService
<1>6. CASE Exception
  BY <1>6, <1>t DEF Exception, IrqInv, TypeOK, OneInService
<1>7. CASE UNCHANGED irqVars
  BY <1>7, <1>t DEF irqVars, IrqInv, TypeOK, OneInService
<1> QED  BY <1>1, <1>2, <1>3, <1>4, <1>5, <1>6, <1>7 DEF Next

(* A step of module Kb is a step of module Irq, or leaves it alone, or      *)
(* changes its requests, or ends the keyboard's interrupt.                 *)
LEMMA KbNextIrqInv == IrqInv /\ [KbNext]_allVars => IrqInv'
<1> SUFFICES ASSUME IrqInv, [KbNext]_allVars PROVE IrqInv'
  OBVIOUS
<1>a. 1 \in Irqs
  BY KeysAssumption
<1>t. TypeOK /\ OneInService
  BY DEF IrqInv
<1>1. ASSUME NEW k \in Plain \cup Extended, PressKey(k) \/ ReleaseKey(k) PROVE IrqInv'
  <2>1. UNCHANGED irqVars
    BY <1>1 DEF PressKey, ReleaseKey
  <2> QED  BY <2>1, NextIrqInv
<1>2. CASE Load
  <2>1. /\ requested' = requested \cup {1}
        /\ UNCHANGED <<mode, master_isr, slave_isr, serving, int_no>>
    BY <1>2 DEF Load
  <2> QED  BY <2>1, <1>t, <1>a DEF IrqInv, TypeOK, OneInService
<1>3. CASE ReadPrefix
  <2>1. /\ requested' = requested \ {1}
        /\ UNCHANGED <<mode, master_isr, slave_isr, serving, int_no>>
    BY <1>3 DEF ReadPrefix, ReadPort
  <2> QED  BY <2>1, <1>t DEF IrqInv, TypeOK, OneInService
<1>4. CASE KbHandler
  <2>1. /\ requested' = requested \ {1} /\ mode = "handler"
        /\ EndOfInterrupt(int_no) /\ Leave
    BY <1>4 DEF KbHandler, InKbHandler, ReadPort
  <2> QED  BY <2>1, LeaveIrqInv
<1>5. CASE SetPrintToScreen \/ TogglePrintToScreen
  <2>1. UNCHANGED irqVars
    BY <1>5 DEF SetPrintToScreen, TogglePrintToScreen
  <2> QED  BY <2>1, NextIrqInv
<1>6. CASE \/ \E n \in Irqs \ {1} : Raise(n)
           \/ EnableInterrupts /\ kb_print_to_screen
           \/ Accept
           \/ TimerHandler
           \/ OtherHandler /\ ~InKbHandler
           \/ Syscall \/ SyscallEnd
           \/ Exception
  <2>1. Next
    BY <1>6 DEF Next
  <2> QED  BY <2>1, NextIrqInv
<1>7. CASE UNCHANGED allVars
  <2>1. UNCHANGED irqVars
    BY <1>7 DEF allVars
  <2> QED  BY <2>1, NextIrqInv
<1> QED  BY <1>1, <1>2, <1>3, <1>4, <1>5, <1>6, <1>7 DEF KbNext

(* However a handler is left, its interrupt has been ended in the first     *)
(* controller, for every set of devices, also with the keyboard's handler  *)
(* opened up.                                                              *)
THEOREM HandlersEndInterruptsAlways ==
    /\ Spec => []HandlersEndInterrupts
    /\ KbSpec => []HandlersEndInterrupts
<1>1. Spec => []IrqInv
  BY InitIrqInv, NextIrqInv, PTL DEF Spec
<1>2. IrqInv => HandlersEndInterrupts
  BY DEF IrqInv, OneInService, HandlersEndInterrupts
<1>3. KbInit => IrqInv
  BY InitIrqInv DEF KbInit
<1>4. KbSpec => []IrqInv
  BY <1>3, KbNextIrqInv, PTL DEF KbSpec
<1> QED  BY <1>1, <1>2, <1>4, PTL

-----------------------------------------------------------------------------
(* f collects, going through x, the items at the places P. *)
Collects(f, n, P, x) ==
    /\ f[0] = <<>>
    /\ \A ix \in 1 .. n : f[ix] = IF ix \in P THEN Append(f[ix - 1], x[ix]) ELSE f[ix - 1]

(* There is such a function ... *)
LEMMA CollectExists ==
    ASSUME NEW S, NEW n \in Nat, NEW x \in [1 .. n -> S], NEW P
    PROVE  \E f \in [0 .. n -> Seq(S)] : Collects(f, n, P, x)
<1> DEFINE Bad == {k \in 0 .. n : ~\E f \in [0 .. k -> Seq(S)] : Collects(f, k, P, x)}
<1>1. SUFFICES ASSUME Bad # {} PROVE FALSE
  OBVIOUS
<1>2. PICK k \in Bad : \A j \in Bad : k <= j
  <2>1. Bad \subseteq Nat
    OBVIOUS
  <2> HIDE DEF Bad
  <2> QED  BY <1>1, <2>1, LeastNat
<1>3. k # 0
  <2> SUFFICES ASSUME k = 0 PROVE FALSE
    OBVIOUS
  <2> DEFINE f == [ix \in 0 .. 0 |-> <<>>]
  <2>1. f \in [0 .. 0 -> Seq(S)] /\ Collects(f, 0, P, x)
    BY DEF Collects
  <2> QED  BY <1>2, <2>1
<1>4. k \in 1 .. n /\ k - 1 \in 0 .. n /\ k - 1 \notin Bad
  <2>1. k \in 0 .. n
    BY <1>2
  <2> HIDE DEF Bad
  <2> QED  BY <1>2, <1>3, <2>1
<1>5. PICK f \in [0 .. k - 1 -> Seq(S)] : Collects(f, k - 1, P, x)
  BY <1>4
<1> DEFINE e == IF k \in P THEN Append(f[k - 1], x[k]) ELSE f[k - 1]
           g == [ix \in 0 .. k |-> IF ix = k THEN e ELSE f[ix]]
<1>6. f[k - 1] \in Seq(S) /\ x[k] \in S /\ e \in Seq(S)
  BY <1>4
<1>7. g \in [0 .. k -> Seq(S)]
  BY <1>4, <1>6
<1>8. Collects(g, k, P, x)
  <2>1. g[0] = <<>>
    BY <1>4, <1>5 DEF Collects
  <2>2. ASSUME NEW ix \in 1 .. k PROVE g[ix] = IF ix \in P THEN Append(g[ix - 1], x[ix]) ELSE g[ix - 1]
    <3>1. ix - 1 \in 0 .. k /\ ix \in 0 .. k /\ ix - 1 # k
      BY <1>4
    <3>2. g[ix - 1] = f[ix - 1]
      BY <3>1
    <3>3. CASE ix = k
      BY <3>1, <3>2, <3>3
    <3>4. CASE ix # k
      <4>1. ix \in 1 .. k - 1
        BY <1>4, <3>4
      <4>2. f[ix] = IF ix \in P THEN Append(f[ix - 1], x[ix]) ELSE f[ix - 1]
        BY <1>5, <4>1 DEF Collects
      <4>3. g[ix] = f[ix]
        BY <3>1, <3>4
      <4> QED  BY <3>2, <4>2, <4>3
    <3> QED  BY <3>3, <3>4
  <2> HIDE DEF g
  <2> QED  BY <2>1, <2>2 DEF Collects
<1> QED  BY <1>2, <1>7, <1>8

(* ... and only one, which goes as far as its equations do. *)
LEMMA CollectUnique ==
    ASSUME NEW n \in Nat, NEW P, NEW x, NEW Q, NEW y, NEW f, NEW g,
           Collects(f, n, P, x), Collects(g, n, Q, y),
           \A ix \in 1 .. n : x[ix] = y[ix] /\ (ix \in P <=> ix \in Q)
    PROVE  \A ix \in 0 .. n : f[ix] = g[ix]
<1> DEFINE Bad == {k \in 0 .. n : f[k] # g[k]}
<1>1. SUFFICES ASSUME Bad # {} PROVE FALSE
  OBVIOUS
<1>2. PICK k \in Bad : \A j \in Bad : k <= j
  <2>1. Bad \subseteq Nat
    OBVIOUS
  <2> HIDE DEF Bad
  <2> QED  BY <1>1, <2>1, LeastNat
<1>3. k # 0
  BY <1>2 DEF Collects
<1>4. k \in 1 .. n /\ k - 1 \in 0 .. n /\ k - 1 \notin Bad
  <2>1. k \in 0 .. n
    BY <1>2
  <2> HIDE DEF Bad
  <2> QED  BY <1>2, <1>3, <2>1
<1>5. f[k - 1] = g[k - 1]
  BY <1>4
<1>6. f[k] # g[k]
  BY <1>2
<1> HIDE DEF Bad
<1> QED  BY <1>4, <1>5, <1>6 DEF Collects

(* Picked is what such a function comes to. *)
LEMMA PickedSpec ==
    ASSUME NEW S, NEW s \in Seq(S), NEW P
    PROVE  \E f \in [0 .. Len(s) -> Seq(S)] :
              Collects(f, Len(s), P, s) /\ Picked(s, P) = f[Len(s)]
<1> DEFINE n == Len(s)
           Is(f) == f = [ix \in 0 .. n |->
                  IF ix = 0 THEN <<>>
                  ELSE IF ix \in P THEN Append(f[ix - 1], s[ix]) ELSE f[ix - 1]]
           g == CHOOSE f : Is(f)
<1>n. n \in Nat /\ s \in [1 .. n -> S]
  OBVIOUS
<1>1. PICK f \in [0 .. n -> Seq(S)] : Collects(f, n, P, s)
  <2> HIDE DEF n
  <2> QED  BY <1>n, CollectExists
<1>2. Is(f)
  <2> DEFINE h == [ix \in 0 .. n |->
                  IF ix = 0 THEN <<>>
                  ELSE IF ix \in P THEN Append(f[ix - 1], s[ix]) ELSE f[ix - 1]]
  <2>1. ASSUME NEW ix \in 0 .. n PROVE f[ix] = h[ix]
    <3>1. CASE ix = 0
      BY <1>1, <3>1 DEF Collects
    <3>2. CASE ix # 0
      <4>1. ix \in 1 .. n
        BY <3>2
      <4> QED  BY <1>1, <3>2, <4>1 DEF Collects
    <3> QED  BY <3>1, <3>2
  <2>2. f = [ix \in 0 .. n |-> f[ix]] /\ h = [ix \in 0 .. n |-> h[ix]]
    OBVIOUS
  <2>3. f = h
    <3> HIDE DEF h
    <3> QED  BY <2>1, <2>2
  <2> QED  BY <2>3
<1>3. Is(g)
  <2> HIDE DEF Is
  <2> QED  BY <1>2
<1>4. Collects(g, n, P, s)
  <2> DEFINE e(ix) == IF ix = 0 THEN <<>>
                     ELSE IF ix \in P THEN Append(g[ix - 1], s[ix]) ELSE g[ix - 1]
  <2> HIDE DEF g
  <2>1. g = [ix \in 0 .. n |-> e(ix)]
    BY <1>3
  <2>2. \A ix \in 0 .. n : g[ix] = e(ix)
    <3> HIDE DEF e
    <3> QED  BY <2>1
  <2>3. 0 \in 0 .. n /\ \A ix \in 1 .. n : ix \in 0 .. n /\ ix # 0
    BY <1>n
  <2>4. g[0] = e(0) /\ \A ix \in 1 .. n : g[ix] = e(ix)
    <3> HIDE DEF e
    <3> QED  BY <2>2, <2>3
  <2>5. \A ix \in 1 .. n : e(ix) = IF ix \in P THEN Append(g[ix - 1], s[ix]) ELSE g[ix - 1]
    BY <2>3
  <2> QED  BY <2>4, <2>5 DEF Collects
<1>5. \A ix \in 0 .. n : g[ix] = f[ix]
  <2> HIDE DEF n, g
  <2> QED  BY <1>n, <1>1, <1>4, CollectUnique
<1>6. g[n] = f[n]
  <2> HIDE DEF n, g
  <2> QED  BY <1>n, <1>5
<1>7. Picked(s, P) = g[n]
  BY DEF Picked
<1> QED  BY <1>1, <1>6, <1>7

(* Nothing is picked of nothing. *)
LEMMA PickedEmpty == \A P : Picked(<<>>, P) = <<>>
<1> TAKE P
<1>1. PICK s : s = <<>>
  OBVIOUS
<1>2. s \in Seq({}) /\ Len(s) = 0
  BY <1>1
<1>3. PICK f : Collects(f, Len(s), P, s) /\ Picked(s, P) = f[Len(s)]
  BY <1>2, PickedSpec
<1>4. f[0] = <<>>
  BY <1>3 DEF Collects
<1> QED  BY <1>1, <1>2, <1>3, <1>4

(* One item more, picked or not. *)
LEMMA PickedAppend ==
    ASSUME NEW S, NEW s \in Seq(S), NEW x \in S, NEW P, NEW Q,
           \A ix \in 1 .. Len(s) : ix \in P <=> ix \in Q
    PROVE  Picked(Append(s, x), Q) =
             IF Len(s) + 1 \in Q THEN Append(Picked(s, P), x) ELSE Picked(s, P)
<1> DEFINE n == Len(s)
           t == Append(s, x)
<1>1. n \in Nat /\ t \in Seq(S) /\ Len(t) = n + 1 /\ t[n + 1] = x
      /\ \A ix \in 1 .. n : t[ix] = s[ix]
  OBVIOUS
<1>2. PICK f : Collects(f, n, P, s) /\ Picked(s, P) = f[n]
  BY PickedSpec
<1>3. PICK g : Collects(g, n + 1, Q, t) /\ Picked(t, Q) = g[n + 1]
  <2> HIDE DEF t, n
  <2> QED  BY <1>1, PickedSpec
<1> HIDE DEF t
<1>4. Collects(g, n, Q, t)
  BY <1>1, <1>3 DEF Collects
<1>5. \A ix \in 1 .. n : s[ix] = t[ix]
  BY <1>1
<1> HIDE DEF n
<1>6. \A ix \in 0 .. n : f[ix] = g[ix]
  BY <1>1, <1>2, <1>4, <1>5, CollectUnique DEF n
<1>7. f[n] = g[n]
  BY <1>1, <1>6
<1>8. g[n + 1] = IF n + 1 \in Q THEN Append(g[(n + 1) - 1], t[n + 1]) ELSE g[(n + 1) - 1]
  BY <1>1, <1>3 DEF Collects
<1>9. (n + 1) - 1 = n
  BY <1>1
<1> QED  BY <1>1, <1>2, <1>3, <1>7, <1>8, <1>9 DEF n, t

-----------------------------------------------------------------------------
(* Characters: a code and whether it was shifted. *)
Char == (0 .. 255) \X SUBSET {KBF_SHIFT}

(* Text is of characters. *)
LEMMA TextOfType == \A s \in Seq(Char) : TextOf(s) \in Seq(Char)
<1> TAKE s \in Seq(Char)
<1> DEFINE P == {ix \in 1 .. Len(s) : s[ix][1] \in TextKeys}
<1>1. PICK f \in [0 .. Len(s) -> Seq(Char)] : Picked(s, P) = f[Len(s)]
  <2> HIDE DEF P
  <2> QED  BY PickedSpec
<1>2. f[Len(s)] \in Seq(Char)
  OBVIOUS
<1> QED  BY <1>1, <1>2 DEF TextOf

(* A character more. *)
LEMMA TextOfAppend ==
    \A s \in Seq(Char), x \in Char :
       TextOf(Append(s, x)) = IF x[1] \in TextKeys THEN Append(TextOf(s), x) ELSE TextOf(s)
<1> TAKE s \in Seq(Char), x \in Char
<1> DEFINE t == Append(s, x)
           P == {ix \in 1 .. Len(s) : s[ix][1] \in TextKeys}
           Q == {ix \in 1 .. Len(t) : t[ix][1] \in TextKeys}
<1>1. /\ Len(s) \in Nat /\ Len(t) = Len(s) + 1 /\ t[Len(s) + 1] = x
      /\ \A ix \in 1 .. Len(s) : t[ix] = s[ix]
  OBVIOUS
<1> HIDE DEF t
<1>2. \A ix \in 1 .. Len(s) : ix \in 1 .. Len(t) /\ (ix \in P <=> ix \in Q)
  BY <1>1
<1>3. Len(s) + 1 \in Q <=> x[1] \in TextKeys
  BY <1>1
<1>4. TextOf(s) = Picked(s, P) /\ TextOf(t) = Picked(t, Q)
  BY DEF TextOf
<1> HIDE DEF P, Q
<1>5. Picked(t, Q) = IF Len(s) + 1 \in Q THEN Append(Picked(s, P), x) ELSE Picked(s, P)
  BY <1>2, PickedAppend DEF t
<1> QED  BY <1>3, <1>4, <1>5 DEF t

-----------------------------------------------------------------------------
(* Bytes on their way from the keyboard.                                   *)

(* One of the codes is the shift key's alone: there is no second shift key, *)
(* and no extended key shares its code.                                    *)
OneShift == 54 \notin Plain \cup Extended /\ 42 \notin Extended

ExtCodes == Extended \cup {Release(k) : k \in Extended}
PlainCodes == Plain \cup {Release(k) : k \in Plain}

(* A prefix is followed by the code of an extended key. *)
Framed(u) ==
    \A ix \in 1 .. Len(u) :
       \/ u[ix] = PREFIX /\ ix < Len(u) /\ u[ix + 1] \in ExtCodes
       \/ u[ix] \in PlainCodes \cup ExtCodes

(* What a byte makes of the shift key's state and of the text before it.    *)
Shift(h, b) == IF b = 42 THEN {KBF_SHIFT} ELSE IF b = Release(42) THEN {} ELSE h
Text(t, h, b) == IF b \in TextKeys THEN Append(t, <<b, h>>) ELSE t

(* From the state h0 and the text t0 the bytes u lead to h1 and t1.         *)
Follows(h, t, u) ==
    \A ix \in 1 .. Len(u) : h[ix] = Shift(h[ix - 1], u[ix]) /\ t[ix] = Text(t[ix - 1], h[ix - 1], u[ix])
Leads(u, h0, t0, h1, t1) ==
    \E h, t : /\ h[0] = h0 /\ t[0] = t0
              /\ Follows(h, t, u)
              /\ h[Len(u)] = h1 /\ t[Len(u)] = t1

(* Codes are bytes. *)
LEMMA CodesTyped ==
    /\ ExtCodes \subseteq 1 .. 223 /\ PlainCodes \subseteq 1 .. 223
    /\ \A k \in Plain \cup Extended : k \in 1 .. 95 /\ Release(k) \in 129 .. 223
    /\ PREFIX = 224 /\ TextKeys \subseteq 1 .. 57
    /\ Release(42) = 170 /\ 42 \notin TextKeys
<1>1. \A k \in Plain \cup Extended : k \in 1 .. 95 /\ Release(k) \in 129 .. 223
  BY KeysAssumption DEF Release
<1>2. ExtCodes \subseteq 1 .. 223 /\ PlainCodes \subseteq 1 .. 223
  BY <1>1 DEF ExtCodes, PlainCodes
<1>3. \A k \in TextKeys : k \in 1 .. 95 /\ kb_layout(k) # NoChar
  BY <1>1 DEF TextKeys
<1>4. \A k \in TextKeys : k \in ((1 .. 57) \ {29, 42, 54, 56}) \cup {156, 181}
  BY <1>3 DEF kb_layout
<1>5. TextKeys \subseteq 1 .. 57 /\ 42 \notin TextKeys
  BY <1>3, <1>4
<1> QED  BY <1>1, <1>2, <1>5 DEF Release, PREFIX

(* What is not shift's code leaves its state alone, what is no text key's   *)
(* the text.                                                               *)
LEMMA OtherCodes ==
    ASSUME OneShift
    PROVE  /\ \A c \in ExtCodes : c \notin TextKeys
           /\ \A h, t : Shift(h, PREFIX) = h /\ Text(t, h, PREFIX) = t
           /\ \A h, t : \A c \in ExtCodes : Shift(h, c) = h /\ Text(t, h, c) = t
<1>1. \A c \in ExtCodes : c # 42 /\ c # 170 /\ c \notin TextKeys
  <2>1. \A k \in Extended : k # 42 /\ k # 170 /\ k \notin TextKeys
    BY CodesTyped DEF OneShift, TextKeys
  <2>2. \A k \in Extended : Release(k) # 42 /\ Release(k) # 170 /\ Release(k) \notin TextKeys
    BY <2>1, CodesTyped DEF Release
  <2> QED  BY <2>1, <2>2 DEF ExtCodes
<1>2. 224 \notin TextKeys
  BY CodesTyped
<1> QED  BY <1>1, <1>2, CodesTyped DEF Shift, Text

-----------------------------------------------------------------------------
(* Sequences of bytes.                                                     *)
LEMMA Prefixed ==
    ASSUME NEW S, NEW x \in S, NEW w \in Seq(S)
    PROVE  /\ <<x>> \o w \in Seq(S) /\ Len(<<x>> \o w) = Len(w) + 1
           /\ (<<x>> \o w)[1] = x
           /\ \A ix \in 1 .. Len(w) : (<<x>> \o w)[ix + 1] = w[ix]
           /\ Tail(<<x>> \o w) = w
<1>1. /\ <<x>> \o w \in Seq(S) /\ Len(<<x>> \o w) = Len(w) + 1
      /\ (<<x>> \o w)[1] = x
      /\ \A ix \in 1 .. Len(w) : (<<x>> \o w)[ix + 1] = w[ix]
  OBVIOUS
<1>2. PICK u \in Seq(S) : u = <<x>> \o w
  BY <1>1
<1>3. Len(u) = Len(w) + 1 /\ \A ix \in 1 .. Len(w) : u[ix + 1] = w[ix]
  BY <1>1, <1>2
<1>4. u # <<>>
  BY <1>3
<1>5. Tail(u) \in Seq(S) /\ Len(Tail(u)) = Len(w) /\ \A ix \in 1 .. Len(w) : Tail(u)[ix] = u[ix + 1]
  BY <1>3, <1>4
<1>6. Tail(u) = w
  BY <1>3, <1>5, SeqEqual
<1> QED  BY <1>1, <1>2, <1>6

LEMMA HeadTail ==
    ASSUME NEW S, NEW w \in Seq(S), w # <<>>
    PROVE  Head(w) \in S /\ Tail(w) \in Seq(S) /\ <<Head(w)>> \o Tail(w) = w
<1>1. Head(w) = w[1] /\ w[1] \in S /\ Tail(w) \in Seq(S) /\ Len(Tail(w)) = Len(w) - 1
      /\ \A ix \in 1 .. Len(w) - 1 : Tail(w)[ix] = w[ix + 1]
  OBVIOUS
<1>2. PICK u \in Seq(S) : u = Tail(w)
  BY <1>1
<1>3. PICK v \in Seq(S) : v = <<Head(w)>> \o u
  BY <1>1, Prefixed
<1>4. Len(v) = Len(u) + 1 /\ v[1] = Head(w) /\ \A ix \in 1 .. Len(u) : v[ix + 1] = u[ix]
  BY <1>1, <1>3, Prefixed
<1>5. \A ix \in 1 .. Len(w) : v[ix] = w[ix]
  <2> SUFFICES ASSUME NEW ix \in 1 .. Len(w) PROVE v[ix] = w[ix]
    OBVIOUS
  <2>1. CASE ix = 1
    BY <2>1, <1>1, <1>4
  <2>2. CASE ix # 1
    <3>1. ix - 1 \in 1 .. Len(w) - 1 /\ (ix - 1) + 1 = ix
      BY <2>2
    <3> QED  BY <3>1, <1>1, <1>2, <1>4
  <2> QED  BY <2>1, <2>2
<1>6. v = w
  BY <1>1, <1>2, <1>4, <1>5, SeqEqual
<1> QED  BY <1>1, <1>2, <1>3, <1>6

-----------------------------------------------------------------------------
(* No bytes, one more at the end, one fewer in front. *)
LEMMA LeadsEmpty == \A h, t : Leads(<<>>, h, t, h, t)
<1> SUFFICES ASSUME NEW h0, NEW t0 PROVE Leads(<<>>, h0, t0, h0, t0)
  OBVIOUS
<1>1. PICK u : u = <<>>
  OBVIOUS
<1> DEFINE h == [ix \in {0} |-> h0]
           t == [ix \in {0} |-> t0]
<1>2. h[0] = h0 /\ t[0] = t0 /\ Len(u) = 0
  BY <1>1
<1>3. Follows(h, t, u)
  BY <1>2 DEF Follows
<1> HIDE DEF h, t
<1>4. Leads(u, h0, t0, h0, t0)
  BY <1>2, <1>3 DEF Leads
<1> QED  BY <1>1, <1>4

LEMMA LeadsAppend ==
    ASSUME NEW u \in Seq(Nat), NEW b \in Nat, NEW h0, NEW t0, NEW h1, NEW t1,
           Leads(u, h0, t0, h1, t1)
    PROVE  Leads(Append(u, b), h0, t0, Shift(h1, b), Text(t1, h1, b))
<1>1. PICK h, t : /\ h[0] = h0 /\ t[0] = t0
                  /\ Follows(h, t, u)
                  /\ h[Len(u)] = h1 /\ t[Len(u)] = t1
  BY DEF Leads
<1>2. PICK n \in Nat : n = Len(u)
  OBVIOUS
<1>3. PICK v \in Seq(Nat) : v = Append(u, b)
  <2>1. Append(u, b) \in Seq(Nat)
    OBVIOUS
  <2> QED  BY <2>1
<1>4. Len(v) = n + 1 /\ v[n + 1] = b /\ \A ix \in 1 .. n : v[ix] = u[ix]
  BY <1>2, <1>3
<1> DEFINE h2 == [ix \in 0 .. n + 1 |-> IF ix = n + 1 THEN Shift(h1, b) ELSE h[ix]]
           t2 == [ix \in 0 .. n + 1 |-> IF ix = n + 1 THEN Text(t1, h1, b) ELSE t[ix]]
<1>5. /\ \A ix \in 0 .. n : h2[ix] = h[ix] /\ t2[ix] = t[ix]
      /\ h2[n + 1] = Shift(h1, b) /\ t2[n + 1] = Text(t1, h1, b)
  <2>1. \A ix \in 0 .. n : ix \in 0 .. n + 1 /\ ix # n + 1
    OBVIOUS
  <2>2. n + 1 \in 0 .. n + 1
    OBVIOUS
  <2> QED  BY <2>1, <2>2
<1> HIDE DEF h2, t2
<1>6. Follows(h2, t2, v)
  <2> SUFFICES ASSUME NEW ix \in 1 .. n + 1
               PROVE  h2[ix] = Shift(h2[ix - 1], v[ix]) /\ t2[ix] = Text(t2[ix - 1], h2[ix - 1], v[ix])
    BY <1>4 DEF Follows
  <2>1. ix - 1 \in 0 .. n
    OBVIOUS
  <2>2. CASE ix = n + 1
    <3>1. ix - 1 = n
      BY <2>2
    <3> QED  BY <2>1, <2>2, <3>1, <1>1, <1>2, <1>4, <1>5
  <2>3. CASE ix # n + 1
    <3>1. ix \in 1 .. n /\ ix \in 0 .. n
      BY <2>3
    <3>2. h[ix] = Shift(h[ix - 1], u[ix]) /\ t[ix] = Text(t[ix - 1], h[ix - 1], u[ix])
      BY <3>1, <1>1, <1>2 DEF Follows
    <3> QED  BY <2>1, <3>1, <3>2, <1>4, <1>5
  <2> QED  BY <2>2, <2>3
<1>7. h2[0] = h0 /\ t2[0] = t0
  BY <1>1, <1>5
<1>8. Leads(v, h0, t0, Shift(h1, b), Text(t1, h1, b))
  BY <1>4, <1>5, <1>6, <1>7 DEF Leads
<1> QED  BY <1>3, <1>8

LEMMA LeadsTail ==
    ASSUME NEW u \in Seq(Nat), u # <<>>, NEW h0, NEW t0, NEW h1, NEW t1,
           Leads(u, h0, t0, h1, t1)
    PROVE  Leads(Tail(u), Shift(h0, u[1]), Text(t0, h0, u[1]), h1, t1)
<1>1. PICK h, t : /\ h[0] = h0 /\ t[0] = t0
                  /\ Follows(h, t, u)
                  /\ h[Len(u)] = h1 /\ t[Len(u)] = t1
  BY DEF Leads
<1>2. PICK n \in Nat : Len(u) = n + 1
  <2>1. Len(u) \in Nat /\ Len(u) # 0
    OBVIOUS
  <2>2. Len(u) - 1 \in Nat /\ Len(u) = (Len(u) - 1) + 1
    BY <2>1
  <2> QED  BY <2>2
<1>3. PICK v \in Seq(Nat) : v = Tail(u)
  <2>1. Tail(u) \in Seq(Nat)
    OBVIOUS
  <2> QED  BY <2>1
<1>4. Len(v) = n /\ \A ix \in 1 .. n : v[ix] = u[ix + 1]
  BY <1>2, <1>3
<1> DEFINE h2 == [ix \in 0 .. n |-> h[ix + 1]]
           t2 == [ix \in 0 .. n |-> t[ix + 1]]
<1>5. \A ix \in 0 .. n : h2[ix] = h[ix + 1] /\ t2[ix] = t[ix + 1]
  OBVIOUS
<1> HIDE DEF h2, t2
<1>6. Follows(h2, t2, v)
  <2> SUFFICES ASSUME NEW ix \in 1 .. n
               PROVE  h2[ix] = Shift(h2[ix - 1], v[ix]) /\ t2[ix] = Text(t2[ix - 1], h2[ix - 1], v[ix])
    BY <1>4 DEF Follows
  <2>1. ix - 1 \in 0 .. n /\ ix \in 0 .. n /\ (ix - 1) + 1 = ix /\ (ix + 1) - 1 = ix /\ ix + 1 \in 1 .. n + 1
    OBVIOUS
  <2>2. h[ix + 1] = Shift(h[ix], u[ix + 1]) /\ t[ix + 1] = Text(t[ix], h[ix], u[ix + 1])
    BY <2>1, <1>1, <1>2 DEF Follows
  <2>3. h2[ix - 1] = h[ix] /\ t2[ix - 1] = t[ix] /\ h2[ix] = h[ix + 1] /\ t2[ix] = t[ix + 1]
    BY <2>1, <1>5
  <2> QED  BY <2>2, <2>3, <1>4
<1>7. h2[0] = Shift(h0, u[1]) /\ t2[0] = Text(t0, h0, u[1])
  <2>1. 1 \in 1 .. Len(u) /\ 1 - 1 = 0 /\ 0 \in 0 .. n /\ 0 + 1 = 1
    BY <1>2
  <2>2. h[1] = Shift(h[1 - 1], u[1]) /\ t[1] = Text(t[1 - 1], h[1 - 1], u[1])
    BY <2>1, <1>1 DEF Follows
  <2> QED  BY <2>1, <2>2, <1>1, <1>5
<1>8. h2[n] = h1 /\ t2[n] = t1
  BY <1>1, <1>2, <1>5
<1>9. Leads(v, Shift(h0, u[1]), Text(t0, h0, u[1]), h1, t1)
  BY <1>4, <1>6, <1>7, <1>8 DEF Leads
<1> QED  BY <1>3, <1>9

-----------------------------------------------------------------------------
(* Framed bytes stay framed. *)
LEMMA FramedAppend ==
    ASSUME NEW u \in Seq(Nat), Framed(u), NEW c \in PlainCodes \cup ExtCodes
    PROVE  /\ Framed(Append(u, c))
           /\ c \in ExtCodes => Framed(Append(Append(u, PREFIX), c))
<1>c. c \in Nat /\ PREFIX \in Nat
  BY CodesTyped
<1>1. ASSUME NEW v, v = Append(u, c) PROVE Framed(v)
  <2>1. Len(v) = Len(u) + 1 /\ v[Len(u) + 1] = c /\ \A ix \in 1 .. Len(u) : v[ix] = u[ix]
    BY <1>1, <1>c
  <2> SUFFICES ASSUME NEW ix \in 1 .. Len(u) + 1
               PROVE  \/ v[ix] = PREFIX /\ ix < Len(v) /\ v[ix + 1] \in ExtCodes
                      \/ v[ix] \in PlainCodes \cup ExtCodes
    BY <2>1 DEF Framed
  <2>2. CASE ix = Len(u) + 1
    BY <2>1, <2>2
  <2>3. CASE ix # Len(u) + 1
    <3>1. ix \in 1 .. Len(u)
      BY <2>3
    <3>2. \/ u[ix] = PREFIX /\ ix < Len(u) /\ u[ix + 1] \in ExtCodes
          \/ u[ix] \in PlainCodes \cup ExtCodes
      BY <3>1 DEF Framed
    <3>3. ix < Len(u) => ix + 1 \in 1 .. Len(u)
      BY <3>1
    <3> QED  BY <2>1, <3>1, <3>2, <3>3
  <2> QED  BY <2>2, <2>3
<1>2. ASSUME NEW v, v = Append(Append(u, PREFIX), c), c \in ExtCodes PROVE Framed(v)
  <2>1. /\ Len(v) = Len(u) + 2 /\ v[Len(u) + 1] = PREFIX /\ v[Len(u) + 2] = c
        /\ \A ix \in 1 .. Len(u) : v[ix] = u[ix]
    BY <1>2, <1>c
  <2> SUFFICES ASSUME NEW ix \in 1 .. Len(u) + 2
               PROVE  \/ v[ix] = PREFIX /\ ix < Len(v) /\ v[ix + 1] \in ExtCodes
                      \/ v[ix] \in PlainCodes \cup ExtCodes
    BY <2>1 DEF Framed
  <2>2. CASE ix = Len(u) + 2
    BY <2>1, <2>2
  <2>3. CASE ix = Len(u) + 1
    <3>1. ix + 1 = Len(u) + 2 /\ ix < Len(v)
      BY <2>1, <2>3
    <3> QED  BY <2>1, <2>3, <3>1, <1>2
  <2>4. CASE ix \in 1 .. Len(u)
    <3>1. \/ u[ix] = PREFIX /\ ix < Len(u) /\ u[ix + 1] \in ExtCodes
          \/ u[ix] \in PlainCodes \cup ExtCodes
      BY <2>4 DEF Framed
    <3>2. ix < Len(u) => ix + 1 \in 1 .. Len(u)
      BY <2>4
    <3> QED  BY <2>1, <2>4, <3>1, <3>2
  <2> QED  BY <2>2, <2>3, <2>4
<1> QED  BY <1>1, <1>2

LEMMA FramedTail ==
    ASSUME NEW u \in Seq(Nat), Framed(u), u # <<>>
    PROVE  /\ Framed(Tail(u))
           /\ u[1] = PREFIX => Tail(u) # <<>> /\ Tail(u)[1] \in ExtCodes
           /\ u[1] # PREFIX => u[1] \in PlainCodes \cup ExtCodes
<1>1. ASSUME NEW v, v = Tail(u)
      PROVE  Framed(v) /\ (u[1] = PREFIX => v # <<>> /\ v[1] \in ExtCodes)
  <2>1. Len(u) \in Nat \ {0} /\ Len(v) = Len(u) - 1 /\ \A ix \in 1 .. Len(u) - 1 : v[ix] = u[ix + 1]
    BY <1>1
  <2>2. ASSUME NEW ix \in 1 .. Len(u) - 1
        PROVE  \/ v[ix] = PREFIX /\ ix < Len(v) /\ v[ix + 1] \in ExtCodes
               \/ v[ix] \in PlainCodes \cup ExtCodes
    <3>1. ix + 1 \in 1 .. Len(u)
      BY <2>1
    <3>2. \/ u[ix + 1] = PREFIX /\ ix + 1 < Len(u) /\ u[(ix + 1) + 1] \in ExtCodes
          \/ u[ix + 1] \in PlainCodes \cup ExtCodes
      BY <3>1 DEF Framed
    <3>3. ix + 1 < Len(u) => ix < Len(v) /\ ix + 1 \in 1 .. Len(u) - 1
      BY <2>1
    <3> QED  BY <2>1, <3>2, <3>3
  <2>3. Framed(v)
    BY <2>1, <2>2 DEF Framed
  <2>4. ASSUME u[1] = PREFIX PROVE v # <<>> /\ v[1] \in ExtCodes
    <3>1. 1 \in 1 .. Len(u) /\ PREFIX \notin PlainCodes \cup ExtCodes
      BY <2>1, CodesTyped
    <3>2. 1 < Len(u) /\ u[1 + 1] \in ExtCodes
      BY <2>4, <3>1 DEF Framed
    <3>3. Len(v) # 0 /\ 1 \in 1 .. Len(u) - 1
      BY <2>1, <3>2
    <3>4. v[1] = u[1 + 1]
      BY <2>1, <3>3
    <3> QED  BY <3>2, <3>3, <3>4
  <2> QED  BY <2>3, <2>4
<1>2. ASSUME u[1] # PREFIX PROVE u[1] \in PlainCodes \cup ExtCodes
  <2>1. 1 \in 1 .. Len(u)
    OBVIOUS
  <2> QED  BY <1>2, <2>1 DEF Framed
<1> QED  BY <1>1, <1>2

-----------------------------------------------------------------------------
(* The invariant. *)
KbTyped ==
    /\ wire \in Seq(Nat) /\ port \in Nat /\ full \in BOOLEAN /\ add \in {0, 128}
    /\ kb_buffer \in Seq(Char) /\ screen \in Seq(Char) /\ typed \in Seq(Char)
    /\ kb_err \in BOOLEAN

(* The keyboard's request lasts until its byte is read; in its handler      *)
(* there is one to read, or the byte after a prefix is awaited; 128 is     *)
(* added to the code of an extended key only.                              *)
PortInv ==
    /\ 1 \in requested => full
    /\ InKbHandler => full \/ port = PREFIX
    /\ add # 0 => port = PREFIX \/ (full /\ port \in ExtCodes)

(* The state of the shift key as the driver has it, and as the user has it. *)
ShiftNow == kb_flags \cap {KBF_SHIFT}
ShiftHeld == IF 42 \in down THEN {KBF_SHIFT} ELSE {}

(* Until the buffer overflows, the bytes not yet read lead from what was    *)
(* received to what was typed.                                             *)
TextInv == ~kb_err => Leads(Unread, ShiftNow, Received, ShiftHeld, TypedText)

KbInv == IrqInv /\ KbTyped /\ PortInv /\ Framed(Unread) /\ TextInv

(* The unread bytes are bytes. *)
LEMMA UnreadTyped ==
    ASSUME KbTyped
    PROVE  /\ Unread \in Seq(Nat)
           /\ (full \/ port = PREFIX) => /\ Unread = <<port>> \o wire /\ Unread # <<>>
                                        /\ Unread[1] = port /\ Tail(Unread) = wire
           /\ ~(full \/ port = PREFIX) => Unread = wire
<1>1. wire \in Seq(Nat) /\ port \in Nat
  BY DEF KbTyped
<1>2. ASSUME full \/ port = PREFIX
      PROVE  /\ Unread \in Seq(Nat) /\ Unread = <<port>> \o wire /\ Unread # <<>>
             /\ Unread[1] = port /\ Tail(Unread) = wire
  <2>1. Unread = <<port>> \o wire
    BY <1>2 DEF Unread
  <2>2. /\ <<port>> \o wire \in Seq(Nat) /\ Len(<<port>> \o wire) = Len(wire) + 1
        /\ (<<port>> \o wire)[1] = port /\ Tail(<<port>> \o wire) = wire
    BY <1>1, Prefixed
  <2>3. Len(<<port>> \o wire) # 0
    BY <1>1, <2>2
  <2>4. <<port>> \o wire # <<>>
    BY <2>3
  <2> QED  BY <2>1, <2>2, <2>4
<1>3. ASSUME ~(full \/ port = PREFIX) PROVE Unread = wire
  <2>1. Unread = <<>> \o wire
    BY <1>3 DEF Unread
  <2> QED  BY <1>1, <2>1, ConcatEmptySeq
<1> QED  BY <1>1, <1>2, <1>3

(* What is received is text, and so is what was typed. *)
LEMMA ReceivedTyped == ASSUME KbTyped PROVE Received \in Seq(Char) /\ TypedText \in Seq(Char)
<1>1. screen \o kb_buffer \in Seq(Char) /\ typed \in Seq(Char)
  BY DEF KbTyped
<1> QED  BY <1>1, TextOfType DEF Received, TypedText

-----------------------------------------------------------------------------
(* Which handler runs. *)
LEMMA KbLine == TypeOK => (InKbHandler <=> mode = "handler" /\ int_no = 1)
<1> SUFFICES ASSUME TypeOK PROVE InKbHandler <=> mode = "handler" /\ int_no = 1
  OBVIOUS
<1>1. int_no \in 0 .. 15
  BY DEF TypeOK
<1>2. irq_handlers[int_no] = CASE int_no = 0 -> "time_irq_handler"
                               [] int_no = 1 -> "kb_handler"
                               [] int_no \in {14, 15} -> "ata_irq_handler"
                               [] OTHER -> "none"
  BY <1>1 DEF irq_handlers
<1>3. irq_handlers[int_no] = "kb_handler" <=> int_no = 1
  <2>1. CASE int_no = 0
    BY <1>2, <2>1
  <2>2. CASE int_no = 1
    BY <1>2, <2>2
  <2>3. CASE int_no \in {14, 15}
    BY <1>2, <2>3
  <2>4. CASE int_no \notin {0, 1, 14, 15}
    BY <1>2, <2>4
  <2> QED  BY <2>1, <2>2, <2>3, <2>4
<1> QED  BY <1>3 DEF InKbHandler

LEMMA KbLineNext == TypeOK' => (InKbHandler' <=> mode' = "handler" /\ int_no' = 1)
<1>1. (TypeOK => (InKbHandler <=> mode = "handler" /\ int_no = 1))'
  BY KbLine, PTL
<1> QED  BY <1>1

(* What the keyboard sends comes behind what is unread. *)
LEMMA Sent ==
    ASSUME KbTyped, UNCHANGED <<port, full>>, NEW c \in Nat
    PROVE  /\ Send(<<c>>) => wire' \in Seq(Nat) /\ Unread' = Append(Unread, c)
           /\ Send(<<PREFIX, c>>) => wire' \in Seq(Nat) /\ Unread' = Append(Append(Unread, PREFIX), c)
<1> DEFINE p == IF full \/ port = PREFIX THEN <<port>> ELSE <<>>
<1>1. p \in Seq(Nat) /\ wire \in Seq(Nat) /\ PREFIX \in Nat
  BY DEF KbTyped, PREFIX
<1>2. Unread = p \o wire /\ Unread' = p \o wire' /\ Unread \in Seq(Nat)
  BY UnreadTyped DEF Unread
<1> HIDE DEF p
<1>3. ASSUME NEW s \in Seq(Nat), Send(s) PROVE wire' \in Seq(Nat) /\ Unread' = Unread \o s
  <2>1. wire' = wire \o s /\ wire \o s \in Seq(Nat)
    BY <1>1, <1>3 DEF Send
  <2>2. PICK w \in Seq(Nat) : w = wire
    BY <1>1
  <2>3. (p \o w) \o s = p \o (w \o s)
    BY <1>1, ConcatAssociative, SMTT(30)
  <2> QED  BY <1>2, <2>1, <2>2, <2>3
<1>4. ASSUME NEW u \in Seq(Nat)
      PROVE  u \o <<c>> = Append(u, c) /\ u \o <<PREFIX, c>> = Append(Append(u, PREFIX), c)
  <2>1. u \o <<c>> = Append(u, c)
    BY AppendIsConcat
  <2>2. Append(Append(u, PREFIX), c) = (u \o <<PREFIX>>) \o <<c>>
    BY <1>1, AppendIsConcat, AppendProperties
  <2>3. (u \o <<PREFIX>>) \o <<c>> = u \o (<<PREFIX>> \o <<c>>)
    BY <1>1, ConcatAssociative
  <2>4. <<PREFIX>> \o <<c>> = <<PREFIX, c>>
    <3>2. Len(<<c>>) = 1 /\ <<c>>[1] = c /\ <<c>> \in Seq(Nat)
      OBVIOUS
    <3>0. <<PREFIX>> \o <<c>> \in Seq(Nat) /\ <<PREFIX, c>> \in Seq(Nat)
      BY <1>1, <3>2, Prefixed
    <3>1. PICK v \in Seq(Nat) : v = <<PREFIX>> \o <<c>>
      BY <3>0
    <3>3. Len(v) = 1 + 1 /\ v[1] = PREFIX /\ v[1 + 1] = c
      BY <1>1, <3>1, <3>2, Prefixed
    <3>4. PICK w \in Seq(Nat) : w = <<PREFIX, c>>
      BY <3>0
    <3>5. Len(w) = 2 /\ w[1] = PREFIX /\ w[2] = c
      BY <3>4
    <3>6. Len(v) = Len(w) /\ \A ix \in 1 .. Len(v) : v[ix] = w[ix]
      BY <3>3, <3>5
    <3>7. v = w
      BY <3>6, SeqEqual
    <3> QED  BY <3>1, <3>4, <3>7
  <2> QED  BY <2>1, <2>2, <2>3, <2>4
<1>5. <<c>> \in Seq(Nat) /\ <<PREFIX, c>> \in Seq(Nat)
  BY <1>1
<1> QED  BY <1>2, <1>3, <1>4, <1>5

(* An extended key's bytes change neither text nor shift. *)
LEMMA LeadsExt ==
    ASSUME OneShift, NEW u \in Seq(Nat), NEW c \in ExtCodes, NEW h0, NEW t0, NEW h1, NEW t1,
           Leads(u, h0, t0, h1, t1)
    PROVE  Leads(Append(Append(u, PREFIX), c), h0, t0, h1, t1)
<1>1. PREFIX \in Nat /\ c \in Nat
  BY CodesTyped
<1>2. PICK v \in Seq(Nat) : v = Append(u, PREFIX)
  <2>1. Append(u, PREFIX) \in Seq(Nat)
    BY <1>1
  <2> QED  BY <2>1
<1>3. Leads(v, h0, t0, h1, t1)
  <2>1. Leads(Append(u, PREFIX), h0, t0, Shift(h1, PREFIX), Text(t1, h1, PREFIX))
    BY <1>1, LeadsAppend
  <2> QED  BY <2>1, <1>2, OtherCodes
<1>4. Leads(Append(v, c), h0, t0, Shift(h1, c), Text(t1, h1, c))
  BY <1>1, <1>3, LeadsAppend
<1> QED  BY <1>2, <1>4, OtherCodes

(* What a step that reads nothing leaves in order. *)
LEMMA PortKept ==
    ASSUME PortInv, UNCHANGED <<mode, requested, int_no, port, full, add>>
    PROVE  PortInv'
BY DEF PortInv, InKbHandler

(* A key pressed: its codes, and with them what it types. *)
LEMMA PressStep ==
    ASSUME OneShift, KbInv, NEW k \in Plain \cup Extended, PressKey(k)
    PROVE  KbTyped' /\ PortInv' /\ Framed(Unread') /\ TextInv'
<1> DEFINE x == <<k, IF 42 \in down THEN {KBF_SHIFT} ELSE {}>>
<1>1. KbTyped /\ PortInv /\ Framed(Unread) /\ TextInv
  BY DEF KbInv
<1>2. /\ down' = down \cup {k}
      /\ Send(IF k \in Extended THEN <<PREFIX, k>> ELSE <<k>>)
      /\ typed' = Append(typed, x)
      /\ UNCHANGED <<irqVars, port, full, kbVars>>
  BY DEF PressKey
<1>3. k \in 1 .. 95 /\ k \in Nat /\ k # PREFIX /\ x \in Char /\ x[1] = k /\ x = <<k, ShiftHeld>>
  BY CodesTyped DEF Char, ShiftHeld
<1> HIDE DEF x
<1>u. UNCHANGED <<mode, requested, int_no, add, kb_flags, kb_buffer, screen, kb_err>>
  BY <1>2 DEF irqVars, kbVars
<1>4. PortInv'
  BY <1>1, <1>2, <1>u, PortKept
<1>5. wire' \in Seq(Nat)
  BY <1>1, <1>2, <1>3, Sent
<1>6. KbTyped'
  BY <1>1, <1>2, <1>3, <1>5, <1>u DEF KbTyped
<1>7. TypedText' = IF k \in TextKeys THEN Append(TypedText, x) ELSE TypedText
  BY <1>1, <1>2, <1>3, TextOfAppend DEF TypedText, KbTyped
<1>8. Received' = Received /\ ShiftNow' = ShiftNow
  BY <1>u DEF Received, ShiftNow
<1>9. Unread \in Seq(Nat)
  BY <1>1, UnreadTyped
<1>10. CASE k \in Extended
  <2>1. k \in ExtCodes /\ k # 42 /\ k \notin TextKeys /\ PREFIX \in Nat
    BY <1>10 DEF ExtCodes, OneShift, TextKeys, PREFIX
  <2>2. Unread' = Append(Append(Unread, PREFIX), k)
    BY <1>1, <1>2, <1>3, <1>10, Sent
  <2>3. Framed(Unread')
    BY <1>1, <1>9, <2>1, <2>2, FramedAppend
  <2>4. ShiftHeld' = ShiftHeld /\ TypedText' = TypedText
    BY <1>2, <1>7, <2>1 DEF ShiftHeld
  <2>5. ASSUME ~kb_err' PROVE Leads(Unread', ShiftNow', Received', ShiftHeld', TypedText')
    <3>1. Leads(Unread, ShiftNow, Received, ShiftHeld, TypedText)
      BY <1>1, <1>u, <2>5 DEF TextInv
    <3>2. Leads(Append(Append(Unread, PREFIX), k), ShiftNow, Received, ShiftHeld, TypedText)
      BY <3>1, <1>9, <2>1, LeadsExt
    <3> QED  BY <3>2, <1>8, <2>2, <2>4
  <2> QED  BY <1>4, <1>6, <2>3, <2>5 DEF TextInv
<1>11. CASE k \notin Extended
  <2>1. k \in PlainCodes
    BY <1>11 DEF PlainCodes
  <2>2. Unread' = Append(Unread, k)
    BY <1>1, <1>2, <1>3, <1>11, Sent
  <2>3. Framed(Unread')
    BY <1>1, <1>9, <2>1, <2>2, FramedAppend
  <2>4. ShiftHeld' = Shift(ShiftHeld, k) /\ TypedText' = Text(TypedText, ShiftHeld, k)
    <3>1. 42 \in down' <=> 42 \in down \/ k = 42
      BY <1>2
    <3>2. k # Release(42)
      BY <1>3, CodesTyped
    <3> QED  BY <1>3, <1>7, <3>1, <3>2 DEF ShiftHeld, Shift, Text
  <2>5. ASSUME ~kb_err' PROVE Leads(Unread', ShiftNow', Received', ShiftHeld', TypedText')
    <3>1. Leads(Unread, ShiftNow, Received, ShiftHeld, TypedText)
      BY <1>1, <1>u, <2>5 DEF TextInv
    <3>2. Leads(Append(Unread, k), ShiftNow, Received, Shift(ShiftHeld, k), Text(TypedText, ShiftHeld, k))
      BY <3>1, <1>3, <1>9, LeadsAppend
    <3> QED  BY <3>2, <1>8, <2>2, <2>4
  <2> QED  BY <1>4, <1>6, <2>3, <2>5 DEF TextInv
<1> QED  BY <1>10, <1>11

(* A key let go: its codes, and the state of the shift key. *)
LEMMA ReleaseStep ==
    ASSUME OneShift, KbInv, NEW k \in Plain \cup Extended, ReleaseKey(k)
    PROVE  KbTyped' /\ PortInv' /\ Framed(Unread') /\ TextInv'
<1> DEFINE r == Release(k)
<1>1. KbTyped /\ PortInv /\ Framed(Unread) /\ TextInv
  BY DEF KbInv
<1>2. /\ down' = down \ {k}
      /\ Send(IF k \in Extended THEN <<PREFIX, r>> ELSE <<r>>)
      /\ UNCHANGED <<irqVars, port, full, kbVars, typed>>
  BY DEF ReleaseKey
<1>3. r \in 129 .. 223 /\ r \in Nat /\ r \notin TextKeys /\ r # 42 /\ (r = Release(42) <=> k = 42)
  <2>1. r \in 129 .. 223 /\ k \in 1 .. 95 /\ r = k + 128
    BY CodesTyped DEF Release
  <2> QED  BY <2>1, CodesTyped
<1>x. k \in Extended => r \in ExtCodes /\ k # 42
  BY DEF ExtCodes, OneShift
<1>p. k \notin Extended => r \in PlainCodes
  BY DEF PlainCodes
<1> HIDE DEF r
<1>u. UNCHANGED <<mode, requested, int_no, add, kb_flags, kb_buffer, screen, kb_err>>
  BY <1>2 DEF irqVars, kbVars
<1>4. PortInv'
  BY <1>1, <1>2, <1>u, PortKept
<1>5. wire' \in Seq(Nat)
  BY <1>1, <1>2, <1>3, Sent
<1>6. KbTyped'
  BY <1>1, <1>2, <1>5, <1>u DEF KbTyped
<1>8. Received' = Received /\ ShiftNow' = ShiftNow /\ TypedText' = TypedText
  BY <1>2, <1>u DEF Received, ShiftNow, TypedText
<1>9. Unread \in Seq(Nat) /\ PREFIX \in Nat
  BY <1>1, UnreadTyped DEF PREFIX
<1>10. CASE k \in Extended
  <2>2. Unread' = Append(Append(Unread, PREFIX), r)
    BY <1>1, <1>2, <1>3, <1>10, Sent
  <2>3. Framed(Unread')
    BY <1>1, <1>9, <1>x, <1>10, <2>2, FramedAppend
  <2>4. ShiftHeld' = ShiftHeld
    BY <1>2, <1>x, <1>10 DEF ShiftHeld
  <2>5. ASSUME ~kb_err' PROVE Leads(Unread', ShiftNow', Received', ShiftHeld', TypedText')
    <3>1. Leads(Unread, ShiftNow, Received, ShiftHeld, TypedText)
      BY <1>1, <1>u, <2>5 DEF TextInv
    <3>2. Leads(Append(Append(Unread, PREFIX), r), ShiftNow, Received, ShiftHeld, TypedText)
      BY <3>1, <1>9, <1>x, <1>10, LeadsExt
    <3> QED  BY <3>2, <1>8, <2>2, <2>4
  <2> QED  BY <1>4, <1>6, <2>3, <2>5 DEF TextInv
<1>11. CASE k \notin Extended
  <2>2. Unread' = Append(Unread, r)
    BY <1>1, <1>2, <1>3, <1>11, Sent
  <2>3. Framed(Unread')
    BY <1>1, <1>9, <1>p, <1>11, <2>2, FramedAppend
  <2>4. ShiftHeld' = Shift(ShiftHeld, r) /\ TypedText = Text(TypedText, ShiftHeld, r)
    <3>1. 42 \in down' <=> 42 \in down /\ k # 42
      BY <1>2
    <3> QED  BY <1>3, <3>1 DEF ShiftHeld, Shift, Text
  <2>5. ASSUME ~kb_err' PROVE Leads(Unread', ShiftNow', Received', ShiftHeld', TypedText')
    <3>1. Leads(Unread, ShiftNow, Received, ShiftHeld, TypedText)
      BY <1>1, <1>u, <2>5 DEF TextInv
    <3>2. Leads(Append(Unread, r), ShiftNow, Received, Shift(ShiftHeld, r), Text(TypedText, ShiftHeld, r))
      BY <3>1, <1>3, <1>9, LeadsAppend
    <3> QED  BY <3>2, <1>8, <2>2, <2>4
  <2> QED  BY <1>4, <1>6, <2>3, <2>5 DEF TextInv
<1> QED  BY <1>10, <1>11

(* The controller puts the next byte in the port; it takes the place of a   *)
(* prefix that kb_read has seen.                                           *)
LEMMA LoadStep ==
    ASSUME OneShift, KbInv, Load
    PROVE  KbTyped' /\ PortInv' /\ Framed(Unread') /\ TextInv'
<1>1. KbTyped /\ PortInv /\ Framed(Unread) /\ TextInv
  BY DEF KbInv
<1>2. /\ ~full /\ wire # <<>> /\ port' = Head(wire) /\ wire' = Tail(wire) /\ full' = TRUE
      /\ UNCHANGED <<kbVars, userVars>>
  BY DEF Load
<1>u. UNCHANGED <<add, kb_flags, kb_buffer, screen, kb_err, down, typed>>
  BY <1>2 DEF kbVars, userVars
<1>3. wire \in Seq(Nat) /\ Head(wire) \in Nat /\ Tail(wire) \in Seq(Nat)
      /\ <<Head(wire)>> \o Tail(wire) = wire
  BY <1>1, <1>2, HeadTail DEF KbTyped
<1>4. KbTyped'
  BY <1>1, <1>2, <1>3, <1>u DEF KbTyped
<1>5. Unread' = wire
  BY <1>2, <1>3 DEF Unread
<1>6. /\ ShiftNow' = ShiftNow /\ Received' = Received
      /\ ShiftHeld' = ShiftHeld /\ TypedText' = TypedText
  BY <1>u DEF ShiftNow, Received, ShiftHeld, TypedText
<1>7. CASE port = PREFIX
  <2>1. Unread \in Seq(Nat) /\ Unread # <<>> /\ Unread[1] = PREFIX /\ Tail(Unread) = wire
    BY <1>1, <1>7, UnreadTyped
  <2>2. Framed(wire) /\ wire[1] \in ExtCodes
    BY <1>1, <2>1, FramedTail
  <2>3. port' \in ExtCodes
    BY <1>2, <1>3, <2>2
  <2>4. PortInv'
    BY <1>2, <2>3 DEF PortInv
  <2>5. ASSUME ~kb_err' PROVE Leads(Unread', ShiftNow', Received', ShiftHeld', TypedText')
    <3>1. Leads(Unread, ShiftNow, Received, ShiftHeld, TypedText)
      BY <1>1, <1>u, <2>5 DEF TextInv
    <3>2. Leads(Tail(Unread), Shift(ShiftNow, PREFIX), Text(Received, ShiftNow, PREFIX), ShiftHeld, TypedText)
      BY <2>1, <3>1, LeadsTail
    <3> QED  BY <3>2, <1>5, <1>6, <2>1, OtherCodes
  <2> QED  BY <1>4, <1>5, <2>2, <2>4, <2>5 DEF TextInv
<1>8. CASE port # PREFIX
  <2>1. Unread' = Unread
    BY <1>1, <1>2, <1>5, <1>8, UnreadTyped
  <2>2. add' = 0
    BY <1>1, <1>2, <1>8, <1>u DEF PortInv
  <2>3. PortInv'
    BY <1>2, <2>2 DEF PortInv
  <2> QED  BY <1>1, <1>4, <1>6, <1>u, <2>1, <2>3 DEF TextInv
<1> QED  BY <1>7, <1>8

(* kb_read sees a prefix, which stays in the port until the next byte. *)
LEMMA PrefixStep ==
    ASSUME OneShift, KbInv, ReadPrefix
    PROVE  KbTyped' /\ PortInv' /\ Framed(Unread') /\ TextInv'
<1>1. KbTyped /\ PortInv /\ Framed(Unread) /\ TextInv
  BY DEF KbInv
<1>2. /\ port = PREFIX /\ full' = FALSE /\ requested' = requested \ {1}
      /\ wire' = wire /\ port' = port /\ add' = (add + 128) % 256
      /\ UNCHANGED <<kb_flags, kb_buffer, screen, kb_err, userVars>>
  BY DEF ReadPrefix, ReadPort
<1>3. add' \in {0, 128}
  BY <1>1, <1>2 DEF KbTyped
<1>4. KbTyped'
  BY <1>1, <1>2, <1>3 DEF KbTyped, userVars
<1>5. PortInv'
  BY <1>2 DEF PortInv
<1>6. Unread' = Unread
  BY <1>2 DEF Unread
<1>7. /\ ShiftNow' = ShiftNow /\ Received' = Received
      /\ ShiftHeld' = ShiftHeld /\ TypedText' = TypedText
  BY <1>2 DEF ShiftNow, Received, ShiftHeld, TypedText, userVars
<1> QED  BY <1>1, <1>2, <1>4, <1>5, <1>6, <1>7 DEF TextInv

-----------------------------------------------------------------------------
(* kb_handler with a character: unless it has no place, it is the next one  *)
(* of the screen and the buffer together.                                  *)
LEMMA PutSpec ==
    ASSUME KbTyped, NEW ch \in Char, Put(ch)
    PROVE  /\ kb_buffer' \in Seq(Char) /\ screen' \in Seq(Char) /\ kb_err' \in BOOLEAN
           /\ ~kb_err' => ~kb_err /\ Received' = TextOf(Append(screen \o kb_buffer, ch))
<1>1. kb_buffer \in Seq(Char) /\ screen \in Seq(Char) /\ screen \o kb_buffer \in Seq(Char)
      /\ kb_err \in BOOLEAN /\ <<ch>> \in Seq(Char)
  BY DEF KbTyped
<1>2. Append(screen \o kb_buffer, ch) = (screen \o kb_buffer) \o <<ch>>
      /\ (screen \o kb_buffer) \o <<ch>> \in Seq(Char)
  BY <1>1, AppendIsConcat, ConcatProperties
<1>3. CASE kb_print_to_screen
  <2>1. screen' = (screen \o kb_buffer) \o <<ch>> /\ kb_buffer' = <<>> /\ kb_err' = kb_err
    BY <1>3 DEF Put
  <2>2. screen' \o kb_buffer' = screen'
    BY <1>2, <2>1, ConcatEmptySeq
  <2>3. kb_buffer' \in Seq(Char) /\ screen' \in Seq(Char)
    BY <1>2, <2>1
  <2> QED  BY <1>1, <1>2, <2>1, <2>2, <2>3 DEF Received
<1>4. CASE ~kb_print_to_screen /\ Len(kb_buffer) >= KB_BUFFER_SIZE
  <2>1. kb_err' = TRUE /\ kb_buffer' = kb_buffer /\ screen' = screen
    BY <1>4 DEF Put
  <2> QED  BY <1>1, <2>1
<1>5. CASE ~kb_print_to_screen /\ ~(Len(kb_buffer) >= KB_BUFFER_SIZE)
  <2>1. kb_buffer' = Append(kb_buffer, ch) /\ screen' = screen /\ kb_err' = kb_err
    BY <1>5 DEF Put
  <2>2. Append(kb_buffer, ch) \in Seq(Char) /\ Append(kb_buffer, ch) = kb_buffer \o <<ch>>
    BY <1>1, AppendIsConcat, AppendProperties
  <2>3. screen \o (kb_buffer \o <<ch>>) = (screen \o kb_buffer) \o <<ch>>
    BY <1>1, ConcatAssociative
  <2> QED  BY <1>1, <1>2, <2>1, <2>2, <2>3 DEF Received
<1> QED  BY <1>3, <1>4, <1>5

(* The character of a code, with the state of the shift key. *)
LEMMA CharSpec ==
    ASSUME NEW k \in Plain \cup Extended
    PROVE  /\ CharOf(k) \in Char
           /\ CharOf(k)[1] \in {0, k}
           /\ k \in TextKeys => CharOf(k) = <<k, ShiftNow>>
<1>1. k \in 1 .. 95
  BY CodesTyped
<1>2. /\ kb_layout(k) = IF k \in (1 .. 57) \ {29, 42, 54, 56} THEN <<k, {}>> ELSE <<0, {}>>
      /\ kb_layout_sh(k) = IF k \in (1 .. 57) \ {29, 42, 54, 56} THEN <<k, {KBF_SHIFT}>> ELSE <<0, {}>>
  BY <1>1 DEF kb_layout, kb_layout_sh, NoChar
<1>3. /\ KBF_SHIFT \in kb_flags => ShiftNow = {KBF_SHIFT}
      /\ KBF_SHIFT \notin kb_flags => ShiftNow = {}
  BY DEF ShiftNow
<1>4. CASE k \in (1 .. 57) \ {29, 42, 54, 56}
  <2>1. CharOf(k) = <<k, ShiftNow>>
    BY <1>2, <1>3, <1>4 DEF CharOf
  <2>2. ShiftNow \in SUBSET {KBF_SHIFT}
    BY DEF ShiftNow
  <2> QED  BY <1>1, <2>1, <2>2 DEF Char
<1>5. CASE k \notin (1 .. 57) \ {29, 42, 54, 56}
  <2>1. CharOf(k) = <<0, {}>>
    BY <1>2, <1>5 DEF CharOf
  <2>2. k \notin TextKeys
    BY <1>2, <1>5 DEF TextKeys, NoChar
  <2> QED  BY <1>1, <2>1, <2>2 DEF Char
<1> QED  BY <1>4, <1>5

(* The flags of codes. *)
LEMMA FlagSpec ==
    ASSUME OneShift, NEW k \in Plain \cup Extended
    PROVE  /\ FlagOf(k) \cap {KBF_SHIFT} = IF k = 42 THEN {KBF_SHIFT} ELSE {}
           /\ FlagOf(k) # {} => k \notin TextKeys
<1>1. k # 54 /\ k \in 1 .. 95
  BY CodesTyped DEF OneShift
<1>2. ASSUME k \in {29, 42, 54, 56, 58} PROVE k \notin TextKeys
  <2>1. kb_layout(k) = NoChar
    BY <1>2 DEF kb_layout
  <2> QED  BY <2>1 DEF TextKeys
<1>3. CASE k = 42
  <2>1. FlagOf(k) = {KBF_SHIFT}
    BY <1>3 DEF FlagOf
  <2> QED  BY <1>2, <1>3, <2>1
<1>4. CASE k = 29
  <2>1. FlagOf(k) = {KBF_CTL}
    BY <1>4 DEF FlagOf
  <2> QED  BY <1>2, <1>4, <2>1 DEF KBF_SHIFT, KBF_CTL
<1>5. CASE k = 56
  <2>1. FlagOf(k) = {KBF_ALT}
    BY <1>5 DEF FlagOf
  <2> QED  BY <1>2, <1>5, <2>1 DEF KBF_SHIFT, KBF_ALT
<1>6. CASE k = 58
  <2>1. FlagOf(k) = {KBF_CAPS}
    BY <1>6 DEF FlagOf
  <2> QED  BY <1>2, <1>6, <2>1 DEF KBF_SHIFT, KBF_CAPS
<1>7. CASE k \notin {29, 42, 54, 56, 58}
  <2>1. FlagOf(k) = {}
    BY <1>7 DEF FlagOf
  <2> QED  BY <1>7, <2>1
<1> QED  BY <1>1, <1>3, <1>4, <1>5, <1>6, <1>7

(* kb_handler with the code of a key that went down or up. *)
LEMMA HandleSpec ==
    ASSUME OneShift, KbTyped, NEW k \in Plain \cup Extended, NEW c, c \in {k, k + 128}, Handle(c)
    PROVE  /\ kb_buffer' \in Seq(Char) /\ screen' \in Seq(Char) /\ kb_err' \in BOOLEAN
           /\ ~kb_err' =>
                /\ ~kb_err
                /\ ShiftNow' = IF k = 42 THEN (IF c = k THEN {KBF_SHIFT} ELSE {}) ELSE ShiftNow
                /\ Received' = IF c = k THEN Text(Received, ShiftNow, k) ELSE Received
<1>1. k \in 1 .. 95
  BY CodesTyped
<1>2. kb_buffer \in Seq(Char) /\ screen \in Seq(Char) /\ kb_err \in BOOLEAN
  BY DEF KbTyped
<1>3. CASE c = k + 128
  <2>1. c >= 128 /\ c - 128 = k /\ c # k
    BY <1>1, <1>3
  <2>2. kb_flags' = kb_flags \ FlagOf(k) /\ UNCHANGED <<kb_buffer, kb_err, screen>>
    BY <2>1 DEF Handle
  <2>3. ShiftNow' = IF k = 42 THEN {} ELSE ShiftNow
    BY <2>2, FlagSpec DEF ShiftNow
  <2> QED  BY <1>2, <2>1, <2>2, <2>3 DEF Received
<1>4. CASE c = k /\ FlagOf(k) # {}
  <2>1. ~(c >= 128)
    BY <1>1, <1>4
  <2>2. kb_flags' = kb_flags \cup FlagOf(k) /\ UNCHANGED <<kb_buffer, kb_err, screen>>
    BY <1>4, <2>1 DEF Handle
  <2>3. ShiftNow' = IF k = 42 THEN {KBF_SHIFT} ELSE ShiftNow
    BY <2>2, FlagSpec DEF ShiftNow
  <2>4. k \notin TextKeys
    BY <1>4, FlagSpec
  <2> QED  BY <1>2, <1>4, <2>2, <2>3, <2>4 DEF Received, Text
<1>5. CASE c = k /\ FlagOf(k) = {}
  <2>1. ~(c >= 128)
    BY <1>1, <1>5
  <2>2. kb_flags' = kb_flags /\ Put(CharOf(k))
    BY <1>5, <2>1 DEF Handle
  <2>3. k # 42
    BY <1>5, FlagSpec
  <2>4. /\ kb_buffer' \in Seq(Char) /\ screen' \in Seq(Char) /\ kb_err' \in BOOLEAN
        /\ ~kb_err' => ~kb_err /\ Received' = TextOf(Append(screen \o kb_buffer, CharOf(k)))
    BY <2>2, PutSpec, CharSpec
  <2>5. TextOf(Append(screen \o kb_buffer, CharOf(k))) =
           IF CharOf(k)[1] \in TextKeys THEN Append(Received, CharOf(k)) ELSE Received
    <3>1. screen \o kb_buffer \in Seq(Char)
      BY <1>2
    <3> QED  BY <3>1, CharSpec, TextOfAppend DEF Received
  <2>6. 0 \notin TextKeys
    BY CodesTyped
  <2>7. ShiftNow' = ShiftNow
    BY <2>2 DEF ShiftNow
  <2>8. k \in TextKeys => CharOf(k) = <<k, ShiftNow>> /\ CharOf(k)[1] = k
    BY CharSpec
  <2>9. k \notin TextKeys => CharOf(k)[1] \notin TextKeys
    BY <2>6, CharSpec
  <2> QED  BY <1>5, <2>3, <2>4, <2>5, <2>7, <2>8, <2>9 DEF Text
<1> QED  BY <1>3, <1>4, <1>5

(* kb_handler reads the first of the unread bytes and does what it says. *)
LEMMA HandlerStep ==
    ASSUME OneShift, KbInv, KbHandler
    PROVE  KbTyped' /\ PortInv' /\ Framed(Unread') /\ TextInv'
<1> DEFINE c == (add + port) % 256
<1>1. KbTyped /\ PortInv /\ Framed(Unread) /\ TextInv
  BY DEF KbInv
<1>2. /\ InKbHandler /\ port # PREFIX
      /\ full' = FALSE /\ requested' = requested \ {1} /\ wire' = wire /\ port' = port
      /\ Handle(c) /\ add' = 0 /\ mode' = "thread"
      /\ UNCHANGED userVars
  BY DEF KbHandler, ReadPort, Leave
<1>3. full
  BY <1>1, <1>2 DEF PortInv
<1>4. Unread \in Seq(Nat) /\ Unread # <<>> /\ Unread[1] = port /\ Tail(Unread) = wire
  BY <1>1, <1>3, UnreadTyped
<1>5. Framed(wire) /\ port \in PlainCodes \cup ExtCodes
  BY <1>1, <1>2, <1>4, FramedTail
<1>6. PICK k \in Plain \cup Extended :
         /\ port \in {k, k + 128} /\ c \in {k, k + 128}
         /\ (k \in Extended /\ port \in ExtCodes) \/ c = port
  <2>1. add \in {0, 128}
    BY <1>1 DEF KbTyped
  <2>2. CASE port \in ExtCodes
    <3>1. PICK k \in Extended : port \in {k, k + 128}
      BY <2>2 DEF ExtCodes, Release
    <3>2. k \in 1 .. 95
      BY CodesTyped
    <3>3. c \in {k, k + 128}
      BY <2>1, <3>1, <3>2
    <3> HIDE DEF c
    <3> QED  BY <2>2, <3>1, <3>3
  <2>3. CASE port \notin ExtCodes
    <3>1. PICK k \in Plain : port \in {k, k + 128}
      BY <1>5, <2>3 DEF PlainCodes, Release
    <3>2. k \in 1 .. 95
      BY CodesTyped
    <3>3. add = 0
      BY <1>1, <1>2, <2>3 DEF PortInv
    <3>4. c = port
      BY <3>1, <3>2, <3>3
    <3> HIDE DEF c
    <3> QED  BY <3>1, <3>4
  <2> QED  BY <2>2, <2>3
<1>7. k \in 1 .. 95
  BY CodesTyped
<1> HIDE DEF c
<1>8. /\ kb_buffer' \in Seq(Char) /\ screen' \in Seq(Char) /\ kb_err' \in BOOLEAN
      /\ ~kb_err' =>
           /\ ~kb_err
           /\ ShiftNow' = IF k = 42 THEN (IF c = k THEN {KBF_SHIFT} ELSE {}) ELSE ShiftNow
           /\ Received' = IF c = k THEN Text(Received, ShiftNow, k) ELSE Received
  BY <1>1, <1>2, <1>6, HandleSpec
<1>9. ~kb_err' => ShiftNow' = Shift(ShiftNow, port) /\ Received' = Text(Received, ShiftNow, port)
  <2> SUFFICES ASSUME ~kb_err'
               PROVE  ShiftNow' = Shift(ShiftNow, port) /\ Received' = Text(Received, ShiftNow, port)
    OBVIOUS
  <2>1. CASE k \in Extended /\ port \in ExtCodes
    <3>1. k # 42 /\ k \notin TextKeys
      BY <2>1 DEF OneShift, TextKeys
    <3>2. ShiftNow' = ShiftNow /\ Received' = Received
      BY <1>8, <3>1 DEF Text
    <3> QED  BY <2>1, <3>2, OtherCodes
  <2>2. CASE c = port /\ port = k
    <3>1. k # 170
      BY <1>7
    <3> QED  BY <1>8, <2>2, <3>1, CodesTyped DEF Shift
  <2>3. CASE c = port /\ port = k + 128
    <3>1. c # k /\ port # 42 /\ (port = 170 <=> k = 42) /\ port \notin 1 .. 57
      BY <1>7, <2>3
    <3>2. TextKeys \subseteq 1 .. 57 /\ Release(42) = 170
      BY CodesTyped
    <3>3. port \notin TextKeys
      BY <3>1, <3>2
    <3>4. Text(Received, ShiftNow, port) = Received
      BY <3>3 DEF Text
    <3>5. Shift(ShiftNow, port) = IF k = 42 THEN {} ELSE ShiftNow
      BY <3>1, <3>2 DEF Shift
    <3>6. ShiftNow' = IF k = 42 THEN {} ELSE ShiftNow
      BY <1>8, <3>1
    <3>7. Received' = Received
      BY <1>8, <3>1
    <3> QED  BY <3>4, <3>5, <3>6, <3>7
  <2> QED  BY <1>6, <2>1, <2>2, <2>3
<1>10. KbTyped'
  BY <1>1, <1>2, <1>8 DEF KbTyped, userVars
<1>11. PortInv'
  BY <1>2 DEF PortInv, InKbHandler
<1>12. Unread' = wire
  <2>1. Unread' = <<>> \o wire
    BY <1>2 DEF Unread
  <2>2. wire \in Seq(Nat)
    BY <1>1 DEF KbTyped
  <2> QED  BY <2>1, <2>2, ConcatEmptySeq
<1>13. ShiftHeld' = ShiftHeld /\ TypedText' = TypedText
  BY <1>2 DEF ShiftHeld, TypedText, userVars
<1>14. ASSUME ~kb_err' PROVE Leads(Unread', ShiftNow', Received', ShiftHeld', TypedText')
  <2>1. Leads(Unread, ShiftNow, Received, ShiftHeld, TypedText)
    BY <1>1, <1>8, <1>14 DEF TextInv
  <2>2. Leads(Tail(Unread), Shift(ShiftNow, port), Text(Received, ShiftNow, port), ShiftHeld, TypedText)
    BY <1>4, <2>1, LeadsTail
  <2> QED  BY <2>2, <1>4, <1>9, <1>12, <1>13, <1>14
<1> QED  BY <1>5, <1>10, <1>11, <1>12, <1>14 DEF TextInv

(* The other steps leave the keyboard alone; an interrupt that is taken and *)
(* leads to the keyboard's handler is the keyboard's.                      *)
LEMMA OtherStep ==
    ASSUME KbInv, TypeOK',
           UNCHANGED <<devVars, add, kb_flags, kb_buffer, kb_err, screen, down, typed>>,
           \/ UNCHANGED irqVars
           \/ \E n \in Irqs \ {1} : Raise(n)
           \/ EnableInterrupts \/ Accept \/ TimerHandler \/ OtherHandler
           \/ Syscall \/ SyscallEnd \/ Exception
    PROVE  KbTyped' /\ PortInv' /\ Framed(Unread') /\ TextInv'
<1>1. KbTyped /\ PortInv /\ Framed(Unread) /\ TextInv /\ TypeOK
  BY DEF KbInv, IrqInv
<1>2. KbTyped' /\ Unread' = Unread
  BY <1>1 DEF KbTyped, Unread, devVars
<1>3. TextInv'
  <2>1. /\ ShiftNow' = ShiftNow /\ Received' = Received
        /\ ShiftHeld' = ShiftHeld /\ TypedText' = TypedText
    BY DEF ShiftNow, Received, ShiftHeld, TypedText
  <2> QED  BY <1>1, <1>2, <2>1 DEF TextInv
<1>4. ASSUME 1 \in requested' => 1 \in requested,
             mode' = "handler" /\ int_no' = 1 => 1 \in requested \/ (mode = "handler" /\ int_no = 1)
      PROVE  PortInv'
  <2>1. InKbHandler' => 1 \in requested \/ InKbHandler
    BY <1>1, <1>4, KbLine, KbLineNext
  <2>2. InKbHandler' => full \/ port = PREFIX
    BY <1>1, <2>1 DEF PortInv
  <2>3. full' = full /\ port' = port /\ add' = add
    BY DEF devVars
  <2> QED  BY <1>1, <1>4, <2>2, <2>3 DEF PortInv
<1>5. CASE Accept
  <2>1. PICK n \in requested : requested' = requested \ {n} /\ int_no' = StubAt(VectorOf(n))
    BY <1>5 DEF Accept
  <2>2. n \in 0 .. 15
    BY <1>1, IrqsAssumption DEF TypeOK
  <2>3. int_no' = 1 => n = 1
    BY <2>1, <2>2 DEF StubAt, VectorOf, Slave
  <2> QED  BY <1>2, <1>3, <1>1, <1>4, <2>1, <2>3
<1>6. CASE TimerHandler \/ OtherHandler
  <2>1. mode' = "thread" /\ requested' = requested
    BY <1>6 DEF TimerHandler, OtherHandler, Leave
  <2> QED  BY <1>1, <1>2, <1>3, <1>4, <2>1
<1>7. CASE \E n \in Irqs \ {1} : Raise(n)
  <2>1. PICK n \in Irqs \ {1} : Raise(n)
    BY <1>7
  <2>2. mode' = mode /\ int_no' = int_no /\ requested' = requested \cup {n}
    BY <2>1 DEF Raise
  <2> QED  BY <1>1, <1>2, <1>3, <1>4, <2>2
<1>8. CASE EnableInterrupts \/ Syscall \/ SyscallEnd \/ Exception
  <2>1. mode' # "handler" /\ requested' = requested
    BY <1>8 DEF EnableInterrupts, Syscall, SyscallEnd, Exception
  <2> QED  BY <1>1, <1>2, <1>3, <1>4, <2>1
<1>9. CASE UNCHANGED irqVars
  <2>1. mode' = mode /\ int_no' = int_no /\ requested' = requested
    BY <1>9 DEF irqVars
  <2> QED  BY <1>1, <1>2, <1>3, <1>4, <2>1
<1> QED  BY <1>5, <1>6, <1>7, <1>8, <1>9

(* Nothing typed, nothing received. *)
LEMMA InitKbInv == ASSUME KbInit PROVE KbInv
<1>1. IrqInv
  BY InitIrqInv DEF KbInit
<1>2. /\ wire = <<>> /\ port = 0 /\ full = FALSE /\ add = 0 /\ kb_flags = {} /\ kb_buffer = <<>>
      /\ kb_err = FALSE /\ screen = <<>> /\ down = {} /\ typed = <<>>
      /\ requested = {} /\ mode = "boot"
  BY DEF KbInit, Init
<1>3. KbTyped
  <2>1. <<>> \in Seq(Nat) /\ <<>> \in Seq(Char)
    OBVIOUS
  <2>2. /\ wire \in Seq(Nat) /\ kb_buffer \in Seq(Char) /\ screen \in Seq(Char)
        /\ typed \in Seq(Char)
    BY <1>2, <2>1
  <2> QED  BY <1>2, <2>2 DEF KbTyped
<1>4. PortInv
  BY <1>2 DEF PortInv, InKbHandler
<1>5. Unread = <<>>
  <2>1. ~(full \/ port = PREFIX)
    BY <1>2 DEF PREFIX
  <2> QED  BY <1>2, <1>3, <2>1, UnreadTyped
<1>6. Framed(<<>>)
  BY DEF Framed
<1>7. ShiftNow = {} /\ ShiftHeld = {}
  BY <1>2 DEF ShiftNow, ShiftHeld
<1>8. Received = <<>> /\ TypedText = <<>>
  <2>1. screen \o kb_buffer = <<>>
    BY <1>2
  <2> QED  BY <1>2, <2>1, PickedEmpty DEF Received, TypedText, TextOf
<1>9. TextInv
  BY <1>5, <1>7, <1>8, LeadsEmpty DEF TextInv
<1> QED  BY <1>1, <1>3, <1>4, <1>5, <1>6, <1>9 DEF KbInv

LEMMA NextKbInv == ASSUME OneShift PROVE KbInv /\ [KbNext]_allVars => KbInv'
<1> SUFFICES ASSUME KbInv, [KbNext]_allVars PROVE KbInv'
  OBVIOUS
<1>1. IrqInv'
  BY KbNextIrqInv DEF KbInv
<1>t. TypeOK'
  BY <1>1 DEF IrqInv
<1>2. KbTyped' /\ PortInv' /\ Framed(Unread') /\ TextInv'
  <2>1. ASSUME NEW k \in Plain \cup Extended, PressKey(k) \/ ReleaseKey(k)
        PROVE  KbTyped' /\ PortInv' /\ Framed(Unread') /\ TextInv'
    BY <2>1, PressStep, ReleaseStep
  <2>2. CASE Load
    BY <2>2, LoadStep
  <2>3. CASE ReadPrefix
    BY <2>3, PrefixStep
  <2>4. CASE KbHandler
    BY <2>4, HandlerStep
  <2>5. CASE SetPrintToScreen \/ TogglePrintToScreen
    <3>1. UNCHANGED <<irqVars, devVars, add, kb_flags, kb_buffer, kb_err, screen, down, typed>>
      BY <2>5 DEF SetPrintToScreen, TogglePrintToScreen, userVars
    <3> QED  BY <1>t, <3>1, OtherStep
  <2>6. CASE /\ \/ \E n \in Irqs \ {1} : Raise(n)
                \/ EnableInterrupts /\ kb_print_to_screen
                \/ Accept
                \/ TimerHandler
                \/ OtherHandler /\ ~InKbHandler
                \/ Syscall \/ SyscallEnd
                \/ Exception
             /\ KbIdle
    <3>1. UNCHANGED <<devVars, add, kb_flags, kb_buffer, kb_err, screen, down, typed>>
      BY <2>6 DEF KbIdle, kbVars, userVars
    <3> QED  BY <1>t, <2>6, <3>1, OtherStep
  <2>7. CASE UNCHANGED allVars
    <3>1. UNCHANGED <<irqVars, devVars, add, kb_flags, kb_buffer, kb_err, screen, down, typed>>
      BY <2>7 DEF allVars, kbVars, userVars
    <3> QED  BY <1>t, <3>1, OtherStep
  <2> QED  BY <2>1, <2>2, <2>3, <2>4, <2>5, <2>6, <2>7 DEF KbNext
<1> QED  BY <1>1, <1>2 DEF KbInv

-----------------------------------------------------------------------------
(* t is t0 and behind it characters with the codes g. *)
Extends(t, t0, g) ==
    /\ t \in Seq(Char) /\ g \in Seq(Nat)
    /\ Len(t) = Len(t0) + Len(g)
    /\ \A j \in 1 .. Len(t0) : t[j] = t0[j]
    /\ \A j \in 1 .. Len(g) : t[Len(t0) + j][1] = g[j]

LEMMA ExtendsMore ==
    ASSUME NEW t0 \in Seq(Char), NEW t, NEW g, Extends(t, t0, g), NEW x \in Char
    PROVE  Extends(Append(t, x), t0, Append(g, x[1]))
<1>1. /\ t \in Seq(Char) /\ g \in Seq(Nat) /\ Len(t) = Len(t0) + Len(g)
      /\ \A j \in 1 .. Len(t0) : t[j] = t0[j]
      /\ \A j \in 1 .. Len(g) : t[Len(t0) + j][1] = g[j]
  BY DEF Extends
<1>2. PICK y \in Nat : y = x[1]
  BY DEF Char
<1>3. /\ Append(t, x) \in Seq(Char) /\ Append(g, y) \in Seq(Nat)
      /\ Len(Append(t, x)) = Len(t) + 1 /\ Len(Append(g, y)) = Len(g) + 1
      /\ Append(t, x)[Len(t) + 1] = x /\ Append(g, y)[Len(g) + 1] = y
      /\ \A j \in 1 .. Len(t) : Append(t, x)[j] = t[j]
      /\ \A j \in 1 .. Len(g) : Append(g, y)[j] = g[j]
  <2>0. t \in Seq(Char) /\ g \in Seq(Nat)
    BY <1>1
  <2>1. /\ Append(t, x) \in Seq(Char) /\ Len(Append(t, x)) = Len(t) + 1
        /\ Append(t, x)[Len(t) + 1] = x /\ \A j \in 1 .. Len(t) : Append(t, x)[j] = t[j]
    BY <2>0, AppendProperties
  <2>2. /\ Append(g, y) \in Seq(Nat) /\ Len(Append(g, y)) = Len(g) + 1
        /\ Append(g, y)[Len(g) + 1] = y /\ \A j \in 1 .. Len(g) : Append(g, y)[j] = g[j]
    BY <2>0, AppendProperties
  <2> QED  BY <2>1, <2>2
<1>4. PICK t2, g2, n0, n, m :
         /\ t2 = Append(t, x) /\ g2 = Append(g, y) /\ n0 = Len(t0) /\ n = Len(t) /\ m = Len(g)
  OBVIOUS
<1>5. n0 \in Nat /\ n \in Nat /\ m \in Nat /\ n = n0 + m
  BY <1>1, <1>4
<1>6. \A j \in 1 .. n0 : t2[j] = t0[j]
  <2>1. \A j \in 1 .. n0 : j \in 1 .. n
    BY <1>5
  <2> QED  BY <1>1, <1>3, <1>4, <2>1
<1>7. ASSUME NEW j \in 1 .. m + 1 PROVE t2[n0 + j][1] = g2[j]
  <2>1. CASE j = m + 1
    <3>1. n0 + j = n + 1
      BY <1>5, <2>1
    <3> QED  BY <1>2, <1>3, <1>4, <2>1, <3>1
  <2>2. CASE j # m + 1
    <3>1. j \in 1 .. m /\ n0 + j \in 1 .. n
      BY <1>5, <2>2
    <3> QED  BY <1>1, <1>3, <1>4, <3>1
  <2> QED  BY <2>1, <2>2
<1>8. Len(t2) = n0 + (m + 1) /\ Len(g2) = m + 1
  BY <1>3, <1>4, <1>5
<1>9. Extends(t2, t0, g2)
  BY <1>3, <1>4, <1>6, <1>7, <1>8 DEF Extends
<1> QED  BY <1>2, <1>4, <1>9

(* Framed bytes that lead from one text to another hold what is missing.    *)
LEMMA LeadsExtends ==
    ASSUME NEW u \in Seq(Nat), Framed(u), NEW P,
           \A ix \in 1 .. Len(u) : ix \in P <=> u[ix] \in TextKeys /\ (ix > 1 => u[ix - 1] # PREFIX),
           \A c \in ExtCodes : c \notin TextKeys,
           NEW h0 \in SUBSET {KBF_SHIFT}, NEW t0 \in Seq(Char), NEW h1, NEW t1,
           Leads(u, h0, t0, h1, t1)
    PROVE  Extends(t1, t0, Picked(u, P))
<1>1. PICK h, t : /\ h[0] = h0 /\ t[0] = t0
                  /\ Follows(h, t, u)
                  /\ h[Len(u)] = h1 /\ t[Len(u)] = t1
  BY DEF Leads
<1>2. PICK g : Collects(g, Len(u), P, u) /\ Picked(u, P) = g[Len(u)]
  BY PickedSpec
<1>3. PICK n \in Nat : n = Len(u)
  OBVIOUS
<1> DEFINE Good(ix) == h[ix] \in SUBSET {KBF_SHIFT} /\ Extends(t[ix], t0, g[ix])
           Bad == {k \in 0 .. n : ~Good(k)}
<1>4. Good(0)
  <2>1. g[0] = <<>>
    BY <1>2 DEF Collects
  <2>2. Extends(t0, t0, <<>>)
    BY DEF Extends
  <2> QED  BY <1>1, <2>1, <2>2
<1>5. ASSUME NEW ix \in 1 .. n, Good(ix - 1) PROVE Good(ix)
  <2>1. h[ix] = Shift(h[ix - 1], u[ix]) /\ t[ix] = Text(t[ix - 1], h[ix - 1], u[ix])
    BY <1>1, <1>3 DEF Follows
  <2>2. g[ix] = IF ix \in P THEN Append(g[ix - 1], u[ix]) ELSE g[ix - 1]
    BY <1>2, <1>3 DEF Collects
  <2>3. h[ix] \in SUBSET {KBF_SHIFT}
    BY <1>5, <2>1 DEF Shift
  <2>4. ix \in P <=> u[ix] \in TextKeys
    <3>1. ix > 1 /\ u[ix - 1] = PREFIX => u[ix] \in ExtCodes
      <4>1. ix > 1 => ix - 1 \in 1 .. Len(u) /\ (ix - 1) + 1 = ix
        BY <1>3
      <4>2. PREFIX \notin PlainCodes \cup ExtCodes
        BY CodesTyped
      <4> QED  BY <4>1, <4>2 DEF Framed
    <3> QED  BY <1>3, <3>1
  <2>5. CASE u[ix] \in TextKeys
    <3>1. <<u[ix], h[ix - 1]>> \in Char /\ <<u[ix], h[ix - 1]>>[1] = u[ix]
      <4>1. u[ix] \in 0 .. 255
        <5>1. TextKeys \subseteq 1 .. 57
          BY CodesTyped
        <5>2. \A c \in TextKeys : c \in 0 .. 255
          BY <5>1
        <5> QED  BY <2>5, <5>2, Zenon
      <4> QED  BY <1>5, <4>1 DEF Char
    <3>2. Extends(Append(t[ix - 1], <<u[ix], h[ix - 1]>>), t0, Append(g[ix - 1], u[ix]))
      BY <1>5, <3>1, ExtendsMore
    <3> QED  BY <2>1, <2>2, <2>3, <2>4, <2>5, <3>2 DEF Text
  <2>6. CASE u[ix] \notin TextKeys
    BY <1>5, <2>1, <2>2, <2>3, <2>4, <2>6 DEF Text
  <2> QED  BY <2>5, <2>6
<1> HIDE DEF Good
<1>6. Bad = {}
  <2> SUFFICES ASSUME Bad # {} PROVE FALSE
    OBVIOUS
  <2>1. PICK k \in Bad : \A j \in Bad : k <= j
    <3>1. Bad \subseteq Nat
      OBVIOUS
    <3> HIDE DEF Bad
    <3> QED  BY <3>1, LeastNat
  <2>2. k \in 0 .. n /\ ~Good(k)
    BY <2>1
  <2>3. k # 0
    BY <1>4, <2>2
  <2>4. k \in 1 .. n /\ k - 1 \in 0 .. n
    BY <2>2, <2>3
  <2>5. k - 1 \notin Bad
    <3> HIDE DEF Bad
    <3> QED  BY <2>1, <2>4
  <2>6. Good(k - 1)
    BY <2>4, <2>5
  <2> QED  BY <1>5, <2>2, <2>4, <2>6
<1>7. Good(n)
  BY <1>6
<1> QED  BY <1>1, <1>2, <1>3, <1>7 DEF Good

(* So text comes out as it was typed. *)
LEMMA KbInvTextAsTyped == ASSUME OneShift, KbInv PROVE TextAsTyped
<1> SUFFICES ASSUME ~kb_err
             PROVE  /\ Len(Received) <= Len(TypedText)
                    /\ Received = SubSeq(TypedText, 1, Len(Received))
                    /\ UnreadText = [ix \in 1 .. Len(TypedText) - Len(Received) |->
                                        TypedText[Len(Received) + ix][1]]
  BY DEF TextAsTyped
<1>1. KbTyped /\ Framed(Unread) /\ Leads(Unread, ShiftNow, Received, ShiftHeld, TypedText)
  BY DEF KbInv, TextInv
<1>2. Unread \in Seq(Nat) /\ Received \in Seq(Char) /\ TypedText \in Seq(Char)
      /\ ShiftNow \in SUBSET {KBF_SHIFT}
  BY <1>1, UnreadTyped, ReceivedTyped DEF ShiftNow
<1>3. PICK u \in Seq(Nat), r \in Seq(Char), t \in Seq(Char) :
         u = Unread /\ r = Received /\ t = TypedText
  BY <1>2
<1> DEFINE P == {ix \in 1 .. Len(u) : u[ix] \in TextKeys /\ (ix > 1 => u[ix - 1] # PREFIX)}
<1>4. UnreadText = Picked(u, P)
  BY <1>3 DEF UnreadText
<1>5. \A ix \in 1 .. Len(u) : ix \in P <=> u[ix] \in TextKeys /\ (ix > 1 => u[ix - 1] # PREFIX)
  OBVIOUS
<1> HIDE DEF P
<1>6. Framed(u) /\ Leads(u, ShiftNow, r, ShiftHeld, t)
  BY <1>1, <1>3
<1>7. Extends(t, r, Picked(u, P))
  BY <1>2, <1>5, <1>6, OtherCodes, LeadsExtends
<1>8. PICK g \in Seq(Nat) : g = Picked(u, P)
  BY <1>7 DEF Extends
<1>9. /\ Len(t) = Len(r) + Len(g)
      /\ \A j \in 1 .. Len(r) : t[j] = r[j]
      /\ \A j \in 1 .. Len(g) : t[Len(r) + j][1] = g[j]
  BY <1>7, <1>8 DEF Extends
<1>10. Len(r) \in Nat /\ Len(g) \in Nat /\ Len(t) \in Nat
  OBVIOUS
<1>11. Len(r) <= Len(t)
  BY <1>9, <1>10
<1>12. r = SubSeq(t, 1, Len(r))
  <2>1. PICK s \in Seq(Char) : s = SubSeq(t, 1, Len(r))
    <3>1. SubSeq(t, 1, Len(r)) \in Seq(Char)
      BY <1>10, <1>11
    <3> QED  BY <3>1
  <2>2. Len(s) = Len(r) /\ \A ix \in 1 .. Len(r) : s[ix] = t[ix]
    BY <1>10, <1>11, <2>1
  <2>3. Len(s) = Len(r) /\ \A ix \in 1 .. Len(s) : s[ix] = r[ix]
    BY <1>9, <2>2
  <2>4. s = r
    BY <2>3, SeqEqual
  <2> QED  BY <2>1, <2>4
<1>13. g = [ix \in 1 .. Len(t) - Len(r) |-> t[Len(r) + ix][1]]
  <2>1. Len(t) - Len(r) = Len(g)
    BY <1>9, <1>10
  <2>2. g = [ix \in 1 .. Len(g) |-> g[ix]]
    OBVIOUS
  <2>3. [ix \in 1 .. Len(g) |-> g[ix]] = [ix \in 1 .. Len(g) |-> t[Len(r) + ix][1]]
    BY <1>9
  <2> QED  BY <2>1, <2>2, <2>3
<1> QED  BY <1>3, <1>4, <1>8, <1>11, <1>12, <1>13

(* kb_read, kb_handler: what is typed on plain keys comes out once, in      *)
(* order and shifted as it was when the key went down, for every set of    *)
(* plain and extended keys, devices and exceptions, however large the      *)
(* buffer and however interrupts are mixed, as long as one key shifts and   *)
(* no extended key shares its code.                                        *)
THEOREM TextAsTypedAlways == ASSUME OneShift PROVE KbSpec => []TextAsTyped
<1>1. KbInit => KbInv
  BY InitKbInv
<1>2. KbInv /\ [KbNext]_allVars => KbInv'
  BY NextKbInv
<1>3. KbInv => TextAsTyped
  BY KbInvTextAsTyped
<1> QED  BY <1>1, <1>2, <1>3, PTL DEF KbSpec


-----------------------------------------------------------------------------
(* The scan.  What it has found lies before the place it is at; the IDE     *)
(* controllers are on their list in the order of the bus, so no two are    *)
(* one.                                                                    *)
IdePlaces == {l \in (Nat \X Nat) \cap DOMAIN machine.pci : machine.pci[l] # NULL /\ IsIde(machine.pci[l])}
IdeDevs == {pci_dev_t(l[1], l[2], machine.pci[l]) : l \in IdePlaces}

ScanInv ==
    /\ machine \in Machines
    /\ fails \in Int /\ fails <= MaxFails
    /\ at \in Nat \X Nat
    /\ ide_ctlrs \in Seq(IdeDevs)
    /\ \A k \in DOMAIN ide_ctlrs : Before(Place(ide_ctlrs[k]), at)
    /\ \A k, m \in DOMAIN ide_ctlrs : k < m => Before(Place(ide_ctlrs[k]), Place(ide_ctlrs[m]))

\* The parts main initialises before the disks.
BeforeDisks == {"scrn", "gdt", "idt", "isr", "irq", "syscall", "mem", "time", "kb", "pci"}

-----------------------------------------------------------------------------
(* The driver's variables. *)
Drives == Index \X Devs
Partitions == {ptbl_entry_parse(Own(x)[n]) : x \in Drives, n \in 1 .. 4}
DevType == [sem : {1}, atapi : BOOLEAN, use_dma : BOOLEAN, id : Drives \cup {NULL}, sec_cnt_28 : {0, Sectors},
            parts : Seq(Partitions)]
CtlrType == [sem : {0, 1}, busmaster : Nat, prdt : Nat, devs : [Devs -> DevType \cup {NULL}], sel_dev : Devs]
HwType == [sel : Devs, srst : BOOLEAN, cmd : {NULL, "IDENTIFY_DRIVE", "READ_SECTORS"}, lba : {0}]

(* The places in the driver where it looks at one device: before, in and    *)
(* after its reset.                                                        *)
InReset == {"reset", "wait_bsy", "release", "wait_not_bsy", "wait_rdy", "reselect"}
AfterReset == {"identify", "wait_id", "id", "no_id", "read", "wait_sector", "sector", "next"}
AtDevice == InReset \cup AfterReset

AtaTyped ==
    /\ i \in 0 .. CTLRS /\ d \in 0 .. 2
    /\ pc \in AtDevice \cup {"ctlr", "dev", "prdt"}
    /\ pc # "ctlr" => i \in Index /\ ctlrs[i] \in CtlrType
    /\ pc \in AtDevice => d \in Devs
    /\ pc = "ctlr" => d = 0
    /\ ctlrs \in [Index -> CtlrType \cup {NULL}]
    /\ hw \in [Index -> HwType]
    /\ resets \in SUBSET Drives

(* A device is reset once, when the driver comes to it.                     *)
ResetsPast ==
    \A x \in resets : \/ Before(x, <<i, d>>)
                      \/ x = <<i, d>> /\ pc \in AfterReset

(* The device the driver is looking at.                                     *)
IdIsOwn(x, dev, done) == dev.id # NULL /\ done => dev.id = x
DevInv ==
    pc \in AtDevice =>
        /\ Dev \in DevType
        /\ ~Dev.use_dma /\ Dev.parts = <<>>
        /\ IdIsOwn(<<i, d>>, Dev, <<i, d>> \in resets)
        /\ pc \in InReset => Dev.id = NULL

(* What the driver believes of the device that is selected, and what is     *)
(* true.  In and after a reset the two agree if it succeeded; if it did    *)
(* not, the reset may still be held and then no data ever comes.           *)
Reg == hw[i]
SelectInv ==
    /\ pc \in AtDevice => Ctlr.sel_dev = d
    /\ pc = "wait_bsy" => Reg.srst
    /\ pc \in {"wait_bsy", "release", "wait_not_bsy", "wait_rdy", "reselect"} => Reg.sel = 0
    /\ pc \in {"wait_not_bsy", "wait_rdy", "reselect", "id", "sector"} => ~Reg.srst
    /\ pc \in {"identify", "wait_id", "id"} /\ <<i, d>> \in resets => ~Reg.srst /\ Reg.sel = d
    /\ pc \in {"wait_sector", "sector"} => Reg.srst \/ Reg.sel = d

(* Who uses DMA: a controller without a bus master has no device that does; *)
(* one with it has the one of its channel and a descriptor table that      *)
(* ata_prdt_new made.                                                       *)
Master(c) == ide_ctlrs[1 + (c \div 2)].bar4
HasMaster(c, ctlr) ==
    /\ 1 + (c \div 2) \in DOMAIN ide_ctlrs
    /\ Master(c) # 0
    /\ ctlr.busmaster = Master(c) - (Master(c) % 16) + 8 * (c % 2)
MadeTable(prdt) == InOnePage(prdt) /\ \E tmp \in Addresses : prdt = PrdtAt(tmp)
UsesDma(ctlr) == \E n \in Devs : ctlr.devs[n] # NULL /\ ctlr.devs[n].use_dma
DmaOk(c, ctlr) ==
    /\ HasMaster(c, ctlr) \/ (ctlr.busmaster = 0 /\ ~UsesDma(ctlr))
    /\ UsesDma(ctlr) => MadeTable(ctlr.prdt)
DevOk(x, dev, done, all) == PartsAreOwn(x, dev.parts, all) /\ IdIsOwn(x, dev, done)

Live(c) == ctlrs[c] # NULL \/ (c = i /\ pc # "ctlr")
DmaInv == \A c \in Index : Live(c) => DmaOk(c, ctlrs[c])
DevsInv ==
    \A c \in Index, n \in Devs :
        Live(c) /\ ctlrs[c].devs[n] # NULL =>
            DevOk(<<c, n>>, ctlrs[c].devs[n], <<c, n>> \in resets, fails = MaxFails)

DriverInv == AtaTyped /\ ResetsPast /\ DevInv /\ SelectInv /\ DmaInv /\ DevsInv

DisksInv == /\ ScanInv
            /\ boot \in BeforeDisks => pc = "ctlr" /\ ctlrs = [c \in Index |-> NULL]
            /\ DriverInv

-----------------------------------------------------------------------------
(* ptbl_parse.  After n entries the list has those of the first n that      *)
(* describe a partition, all of them unless memory ran out.                *)
Places(x, n, r, place) ==
    LET L == Len(r.list)
    IN  /\ place \in [1 .. L -> {k \in Entries(x) : k <= n}]
        /\ \A k \in 1 .. L : Describes(r.list[k], Own(x)[place[k]])
        /\ \A k, m \in 1 .. L : k < m => place[k] < place[m]
        /\ \A e \in Entries(x), k \in 1 .. L : e < place[k] => \E m \in 1 .. L : place[m] = e
        /\ r.ok => \A e \in Entries(x) : e <= n => \E m \in 1 .. L : place[m] = e
Reading(x, n, room, r) ==
    /\ r \in [ok : BOOLEAN, list : Seq(Partitions)]
    /\ Len(r.list) <= n
    /\ r.ok \/ (Len(r.list) < 4 /\ Len(r.list) = room)
    /\ \E place : Places(x, n, r, place)

LEMMA AddStep ==
    ASSUME NEW x \in Drives, NEW n \in 0 .. 3, NEW room \in 0 .. 4, NEW r, Reading(x, n, room, r)
    PROVE  Reading(x, n + 1, room, Add(r, Own(x)[n + 1], room))
<1> DEFINE e == Own(x)[n + 1]
           s == Add(r, e, room)
           L == Len(r.list)
<1>r. r \in [ok : BOOLEAN, list : Seq(Partitions)] /\ L \in Nat /\ L <= n
  BY DEF Reading
<1>1. n + 1 \in 1 .. 4 /\ x \in Index \X Devs
  BY DEF Drives
<1>2. Partition(e) # NULL
  BY <1>1, DisksAssumption
<1>3. n + 1 \in Entries(x) <=> IsPartition(e)
  BY <1>1 DEF Entries, IsPartition
<1>4. ptbl_entry_parse(e) = IF IsPartition(e) THEN Partition(e) ELSE NULL
  BY DEF ptbl_entry_parse
<1>p. PICK place : Places(x, n, r, place)
  BY DEF Reading
<1>5. /\ place \in [1 .. L -> {k \in Entries(x) : k <= n}]
      /\ \A k \in 1 .. L : Describes(r.list[k], Own(x)[place[k]])
      /\ \A k, m \in 1 .. L : k < m => place[k] < place[m]
      /\ \A f \in Entries(x), k \in 1 .. L : f < place[k] => \E m \in 1 .. L : place[m] = f
      /\ r.ok => \A f \in Entries(x) : f <= n => \E m \in 1 .. L : place[m] = f
  BY <1>p DEF Places
<1>6. Entries(x) \subseteq 1 .. 4
  BY DEF Entries
<1> HIDE DEF L
<1>7. CASE ~r.ok \/ ~IsPartition(e)
  <2>1. s = r
    BY <1>7, <1>4 DEF Add
  <2>2. place \in [1 .. L -> {k \in Entries(x) : k <= n + 1}]
    BY <1>5, <1>6
  <2>3. r.ok => \A f \in Entries(x) : f <= n + 1 => \E m \in 1 .. L : place[m] = f
    <3> SUFFICES ASSUME r.ok, NEW f \in Entries(x), f <= n + 1 PROVE \E m \in 1 .. L : place[m] = f
      OBVIOUS
    <3>1. f # n + 1
      BY <1>3, <1>7
    <3>2. f <= n
      BY <1>6, <3>1
    <3> QED  BY <1>5, <3>2
  <2>4. Places(x, n + 1, r, place)
    BY <1>5, <2>2, <2>3 DEF Places, L
  <2>5. Reading(x, n + 1, room, r)
    BY <1>r, <2>4 DEF Reading, L
  <2> QED  BY <2>1, <2>5
<1>8. CASE r.ok /\ IsPartition(e) /\ L = room
  <2>1. s = [r EXCEPT !.ok = FALSE]
    BY <1>8, <1>2, <1>4 DEF Add, L
  <2>2. s \in [ok : BOOLEAN, list : Seq(Partitions)] /\ s.list = r.list /\ s.ok = FALSE
    BY <1>r, <2>1
  <2>3. place \in [1 .. L -> {k \in Entries(x) : k <= n + 1}]
    BY <1>5, <1>6
  <2> HIDE DEF s
  <2>4. Places(x, n + 1, s, place)
    BY <1>5, <2>2, <2>3 DEF Places, L
  <2>5. Reading(x, n + 1, room, s)
    BY <1>r, <1>8, <2>2, <2>4 DEF Reading, L
  <2> QED  BY <2>5 DEF s
<1>9. CASE r.ok /\ IsPartition(e) /\ L # room
  <2> DEFINE q == [k \in 1 .. L + 1 |-> IF k = L + 1 THEN n + 1 ELSE place[k]]
             part == Partition(e)
  <2>1. s = [r EXCEPT !.list = Append(@, part)]
    BY <1>9, <1>2, <1>4 DEF Add, L
  <2>2. part \in Partitions /\ Describes(part, e)
    <3>1. part = ptbl_entry_parse(Own(x)[n + 1])
      BY <1>9, <1>4
    <3>2. part \in Partitions
      BY <3>1, <1>1 DEF Partitions
    <3>3. Describes(part, e)
      BY DEF Describes, Partition, partition_t
    <3> QED  BY <3>2, <3>3
  <2> HIDE DEF part
  <2>3. /\ s \in [ok : BOOLEAN, list : Seq(Partitions)] /\ s.ok /\ s.list = Append(r.list, part)
        /\ Len(s.list) = L + 1 /\ s.list[L + 1] = part /\ \A k \in 1 .. L : s.list[k] = r.list[k]
    <3>1. s.list = Append(r.list, part) /\ s.ok = r.ok /\ s = [ok |-> s.ok, list |-> s.list]
      BY <1>r, <2>1
    <3>2. Append(r.list, part) \in Seq(Partitions) /\ Len(Append(r.list, part)) = L + 1
      BY <1>r, <2>2 DEF L
    <3>3. Append(r.list, part)[L + 1] = part /\ \A k \in 1 .. L : Append(r.list, part)[k] = r.list[k]
      BY <1>r, <2>2 DEF L
    <3> HIDE DEF s
    <3>4. s \in [ok : BOOLEAN, list : Seq(Partitions)]
      BY <1>9, <3>1, <3>2
    <3> QED  BY <1>9, <3>1, <3>2, <3>3, <3>4
  <2>4. q \in [1 .. L + 1 -> {k \in Entries(x) : k <= n + 1}]
    <3> SUFFICES ASSUME NEW k \in 1 .. L + 1
                 PROVE  (IF k = L + 1 THEN n + 1 ELSE place[k]) \in {m \in Entries(x) : m <= n + 1}
      BY <1>r
    <3>1. CASE k = L + 1
      BY <1>3, <1>9, <3>1
    <3>2. CASE k # L + 1
      <4>1. k \in 1 .. L
        BY <1>r, <3>2
      <4>2. place[k] \in Entries(x) /\ place[k] <= n
        BY <1>5, <4>1
      <4>3. place[k] \in Int
        BY <1>6, <4>2
      <4> QED  BY <3>2, <4>2, <4>3
    <3> QED  BY <3>1, <3>2
  <2>5. q[L + 1] = n + 1 /\ \A k \in 1 .. L : q[k] = place[k] /\ q[k] <= n /\ q[k] \in Int
    <3>1. L + 1 \in 1 .. L + 1 /\ \A k \in 1 .. L : k \in 1 .. L + 1 /\ k # L + 1
      BY <1>r
    <3>2. \A k \in 1 .. L : place[k] \in Entries(x) /\ place[k] <= n
      BY <1>5
    <3>3. \A k \in 1 .. L : place[k] \in Int
      BY <1>6, <3>2
    <3> HIDE DEF s, part, e
    <3> QED  BY <3>1, <3>2, <3>3
  <2> HIDE DEF q, s, e
  <2>6. \A k \in 1 .. L + 1 : Describes(s.list[k], Own(x)[q[k]])
    <3> SUFFICES ASSUME NEW k \in 1 .. L + 1 PROVE Describes(s.list[k], Own(x)[q[k]])
      OBVIOUS
    <3>1. k = L + 1 \/ k \in 1 .. L
      BY <1>r
    <3> QED  BY <1>5, <2>2, <2>3, <2>5, <3>1 DEF e
  <2>7. \A k, m \in 1 .. L + 1 : k < m => q[k] < q[m]
    <3> SUFFICES ASSUME NEW k \in 1 .. L + 1, NEW m \in 1 .. L + 1, k < m PROVE q[k] < q[m]
      OBVIOUS
    <3>1. k \in 1 .. L /\ (m = L + 1 \/ m \in 1 .. L)
      BY <1>r
    <3> QED  BY <1>5, <2>5, <3>1
  <2>8. \A f \in Entries(x) : f <= n + 1 => \E m \in 1 .. L + 1 : q[m] = f
    <3> SUFFICES ASSUME NEW f \in Entries(x), f <= n + 1 PROVE \E m \in 1 .. L + 1 : q[m] = f
      OBVIOUS
    <3>1. L + 1 \in 1 .. L + 1 /\ 1 .. L \subseteq 1 .. L + 1
      BY <1>r
    <3>2. CASE f = n + 1
      BY <2>5, <3>1, <3>2
    <3>3. CASE f # n + 1
      <4>1. f <= n
        BY <1>6, <3>3
      <4>2. PICK m \in 1 .. L : place[m] = f
        BY <1>5, <1>9, <4>1
      <4> QED  BY <2>5, <3>1, <4>2
    <3> QED  BY <3>2, <3>3
  <2>9. \A f \in Entries(x), k \in 1 .. L + 1 : f < q[k] => \E m \in 1 .. L + 1 : q[m] = f
    <3> SUFFICES ASSUME NEW f \in Entries(x), NEW k \in 1 .. L + 1, f < q[k]
                 PROVE  f <= n + 1
      BY <2>8
    <3>1. q[k] <= n + 1 /\ q[k] \in Int /\ f \in Int
      BY <1>6, <2>4
    <3> QED  BY <3>1
  <2>10. Len(s.list) <= n + 1
    BY <1>r, <2>3
  <2> QED
    <3>1. s.ok \/ (Len(s.list) < 4 /\ Len(s.list) = room)
      BY <2>3
    <3>2. Places(x, n + 1, s, q)
      BY <2>3, <2>4, <2>6, <2>7, <2>8, <2>9 DEF Places
    <3>3. Reading(x, n + 1, room, s)
      BY <2>3, <2>10, <3>1, <3>2 DEF Reading
    <3> QED  BY <3>3 DEF s, e
<1> QED  BY <1>7, <1>8, <1>9

(* What ptbl_parse returns.  Enough room means the whole table. *)
LEMMA ParseSpec ==
    ASSUME NEW x \in Drives, NEW room \in 0 .. 4, NEW all \in BOOLEAN,
           all => ptbl_parse(Own(x), room).ok
    PROVE  LET r == ptbl_parse(Own(x), room)
           IN  /\ r \in [ok : BOOLEAN, list : Seq(Partitions)]
               /\ PartsAreOwn(x, r.list, all)
<1> DEFINE t == Own(x)
           e(f, n) == IF n = 0 THEN [ok |-> TRUE, list |-> <<>>] ELSE Add(f[n - 1], t[n], room)
           Is(f) == f = [n \in 0 .. 4 |-> e(f, n)]
           r0 == [ok |-> TRUE, list |-> <<>>]
           r1 == Add(r0, t[1], room)
           r2 == Add(r1, t[2], room)
           r3 == Add(r2, t[3], room)
           r4 == Add(r3, t[4], room)
           g == [n \in 0 .. 4 |-> CASE n = 0 -> r0 [] n = 1 -> r1 [] n = 2 -> r2 [] n = 3 -> r3 [] OTHER -> r4]
           p == CHOOSE f : Is(f)
<1>1. Is(g)
  <2>1. g[0] = r0 /\ g[1] = r1 /\ g[2] = r2 /\ g[3] = r3 /\ g[4] = r4
    <3> HIDE DEF r0, r1, r2, r3, r4
    <3> QED  OBVIOUS
  <2> HIDE DEF g
  <2>2. e(g, 0) = r0 /\ e(g, 1) = r1 /\ e(g, 2) = r2 /\ e(g, 3) = r3 /\ e(g, 4) = r4
    BY <2>1
  <2> HIDE DEF r0, r1, r2, r3, r4, e
  <2>3. \A n \in 0 .. 4 : n = 0 \/ n = 1 \/ n = 2 \/ n = 3 \/ n = 4
    OBVIOUS
  <2>4. [n \in 0 .. 4 |-> e(g, n)] = g
    <3>1. \A n \in 0 .. 4 : e(g, n) = g[n]
      BY <2>1, <2>2, <2>3
    <3>2. g = [n \in 0 .. 4 |-> g[n]]
      BY DEF g
    <3> QED  BY <3>1, <3>2
  <2> QED  BY <2>4
<1>2. Is(p)
  <2> HIDE DEF Is
  <2> QED  BY <1>1
<1>3. p[0] = r0 /\ p[1] = r1 /\ p[2] = r2 /\ p[3] = r3 /\ p[4] = r4
  <2>1. p = [n \in 0 .. 4 |-> e(p, n)]
    BY <1>2
  <2> HIDE DEF p
  <2>2. \A n \in 0 .. 4 : p[n] = e(p, n)
    <3> HIDE DEF e
    <3> QED  BY <2>1
  <2>3. p[0] = e(p, 0) /\ p[1] = e(p, 1) /\ p[2] = e(p, 2) /\ p[3] = e(p, 3) /\ p[4] = e(p, 4)
    <3> HIDE DEF e
    <3> QED  BY <2>2
  <2> QED  BY <2>3
<1>4. ptbl_parse(Own(x), room) = p[4]
  BY DEF ptbl_parse
<1> HIDE DEF p
<1>5. Reading(x, 0, room, r0)
  <2>1. r0 \in [ok : BOOLEAN, list : Seq(Partitions)] /\ Len(r0.list) = 0 /\ r0.ok
    OBVIOUS
  <2> DEFINE q == [k \in 1 .. 0 |-> 0]
  <2>2. q \in [1 .. Len(r0.list) -> {k \in Entries(x) : k <= 0}]
    BY <2>1
  <2>3. \A k \in 1 .. Len(r0.list) : FALSE
    BY <2>1
  <2>4. \A f \in Entries(x) : f > 0
    BY DEF Entries
  <2> HIDE DEF r0, q
  <2>5. Places(x, 0, r0, q)
    BY <2>1, <2>2, <2>3, <2>4, 1 .. 0 = {} DEF Places, Entries
  <2> QED  BY <2>1, <2>5 DEF Reading
<1> HIDE DEF r0
<1>6. Reading(x, 1, room, r1)
  BY <1>5, AddStep, 0 \in 0 .. 3, 0 + 1 = 1
<1> HIDE DEF r1
<1>7. Reading(x, 2, room, r2)
  BY <1>6, AddStep, 1 \in 0 .. 3, 1 + 1 = 2
<1> HIDE DEF r2
<1>8. Reading(x, 3, room, r3)
  BY <1>7, AddStep, 2 \in 0 .. 3, 2 + 1 = 3
<1> HIDE DEF r3
<1>9. Reading(x, 4, room, r4)
  BY <1>8, AddStep, 3 \in 0 .. 3, 3 + 1 = 4
<1> HIDE DEF r4
<1> DEFINE r == ptbl_parse(Own(x), room)
<1>10. Reading(x, 4, room, r)
  BY <1>3, <1>4, <1>9
<1>11. all => r.ok
  OBVIOUS
<1> HIDE DEF r
<1>12. DOMAIN r.list = 1 .. Len(r.list) /\ {k \in Entries(x) : k <= 4} = Entries(x)
  BY <1>10 DEF Reading, Entries
<1>13. PartsAreOwn(x, r.list, all)
  <2>1. PICK place : Places(x, 4, r, place)
    BY <1>10 DEF Reading
  <2>2. r.ok => \A f \in Entries(x) : \E m \in DOMAIN r.list : place[m] = f
    BY <1>12, <2>1 DEF Places, Entries
  <2>3. place \in [DOMAIN r.list -> Entries(x)]
    BY <1>12, <2>1 DEF Places
  <2> QED  BY <1>11, <1>12, <2>1, <2>2, <2>3 DEF Places, PartsAreOwn
<1> QED  BY <1>10, <1>13 DEF r, Reading
-----------------------------------------------------------------------------
(* Numbers. *)
LEMMA DivMod ==
    ASSUME NEW a \in Nat, NEW b \in Nat, b > 0
    PROVE  a \div b \in Nat /\ a % b \in 0 .. b - 1 /\ a = (a \div b) * b + (a % b)
OBVIOUS

(* What starts on a page and has room there ends on that page. *)
LEMMA SamePage ==
    ASSUME NEW a \in Nat, NEW b \in Nat, b > 0, NEW e \in Nat, (a % b) + e < b
    PROVE  (a + e) \div b = a \div b
<1> DEFINE q == a \div b
           c == (a + e) \div b
           r == (a % b) + e
           m == (a + e) % b
<1>1. q \in Nat /\ r \in 0 .. b - 1 /\ a + e = q * b + r
  BY DivMod
<1>2. c \in Nat /\ m \in 0 .. b - 1 /\ a + e = c * b + m
  <2>1. a + e \in Nat
    OBVIOUS
  <2> QED  BY <2>1, DivMod
<1> HIDE DEF q, c, r, m
<1>3. (q - c) * b = m - r
  <2>1. q * b \in Int /\ c * b \in Int /\ (q - c) * b = q * b - c * b
    BY <1>1, <1>2
  <2>2. q * b + r = c * b + m
    BY <1>1, <1>2
  <2>3. r \in Int /\ m \in Int
    BY <1>1, <1>2
  <2> DEFINE u == q * b
             v == c * b
  <2>4. u \in Int /\ v \in Int /\ (q - c) * b = u - v /\ u + r = v + m
    BY <2>1, <2>2
  <2> HIDE DEF u, v
  <2> QED  BY <2>3, <2>4
<1>4. ~(q - c >= 1)
  <2> SUFFICES ASSUME q - c >= 1 PROVE FALSE
    OBVIOUS
  <2>1. (q - c) * b >= b
    BY <1>1, <1>2
  <2> QED  BY <1>1, <1>2, <1>3, <2>1
<1>5. ~(c - q >= 1)
  <2> SUFFICES ASSUME c - q >= 1 PROVE FALSE
    OBVIOUS
  <2>1. (q - c) * b <= -b
    BY <1>1, <1>2
  <2> QED  BY <1>1, <1>2, <1>3, <2>1
<1>6. q = c
  BY <1>1, <1>2, <1>4, <1>5
<1> QED  BY <1>6 DEF q, c

-----------------------------------------------------------------------------
(* The IDE controllers that the scan found have addresses of their own. *)
LEMMA IdeDevSpec ==
    ASSUME NEW dev \in IdeDevs
    PROVE  /\ Place(dev) \in DOMAIN machine.pci /\ Place(dev) \in Nat \X Nat
           /\ dev.bar4 = IdeAddress(machine, Place(dev))
<1>1. PICK l \in IdePlaces : dev = pci_dev_t(l[1], l[2], machine.pci[l])
  BY DEF IdeDevs
<1>2. l \in Nat \X Nat /\ l \in DOMAIN machine.pci /\ machine.pci[l] # NULL /\ IsIde(machine.pci[l])
  BY DEF IdePlaces
<1>3. l = <<l[1], l[2]>>
  BY <1>2
<1>4. Place(dev) = l
  BY <1>1, <1>3 DEF Place, pci_dev_t
<1>5. dev.bar4 = IF machine.pci[l].header_type = 0 THEN machine.pci[l].bar4 ELSE 0
  BY <1>1 DEF pci_dev_t
<1> QED  BY <1>2, <1>4, <1>5 DEF IdeAddress

LEMMA MastersApart ==
    ASSUME ScanInv, NEW k \in DOMAIN ide_ctlrs, NEW m \in DOMAIN ide_ctlrs
    PROVE  /\ ide_ctlrs[k].bar4 \in Nat
           /\ k # m /\ ide_ctlrs[k].bar4 \div 16 # 0 =>
                 ide_ctlrs[k].bar4 \div 16 # ide_ctlrs[m].bar4 \div 16
<1>1. machine \in Machines /\ ide_ctlrs \in Seq(IdeDevs)
  BY DEF ScanInv
<1>2. ide_ctlrs[k] \in IdeDevs /\ ide_ctlrs[m] \in IdeDevs /\ k \in Nat /\ m \in Nat
  BY <1>1
<1> DEFINE l == Place(ide_ctlrs[k])
           o == Place(ide_ctlrs[m])
<1>3. /\ l \in DOMAIN machine.pci /\ l \in Nat \X Nat /\ ide_ctlrs[k].bar4 = IdeAddress(machine, l)
      /\ o \in DOMAIN machine.pci /\ o \in Nat \X Nat /\ ide_ctlrs[m].bar4 = IdeAddress(machine, o)
  BY <1>2, IdeDevSpec
<1>4. k # m => Before(l, o) \/ Before(o, l)
  BY <1>2 DEF ScanInv
<1> HIDE DEF l, o
<1>5. k # m => l # o
  <2>1. \A p \in Nat \X Nat : ~Before(p, p)
    BY DEF Before
  <2> QED  BY <1>3, <1>4, <2>1
<1> QED  BY <1>1, <1>3, <1>5, DisksAssumption

LEMMA BeforeTransitive ==
    \A l, m, o \in Nat \X Nat : Before(l, m) /\ Before(m, o) => Before(l, o)
BY DEF Before

LEMMA ScanStep ==
    ASSUME ScanInv, PciNext, boot = "pci"
    PROVE  ScanInv' /\ fails' <= fails /\ boot' \in {"pci", "ata", "halted"}
<1>1. /\ machine \in Machines /\ fails \in Int /\ fails <= MaxFails /\ MaxFails \in Int
      /\ at \in Nat \X Nat /\ ide_ctlrs \in Seq(IdeDevs)
  BY PciAssumption DEF ScanInv
<1>2. machine' = machine /\ IdeDevs' = IdeDevs
  BY DEF PciNext, IdeDevs, IdePlaces
<1>3. \A dev \in IdeDevs : Place(dev) \in Nat \X Nat
  BY IdeDevSpec
<1>4. \A k \in DOMAIN ide_ctlrs : ide_ctlrs[k] \in IdeDevs
  BY <1>1
<1>5. ASSUME NEW to \in Nat \X Nat, Before(at, to), at' = to, ide_ctlrs' = ide_ctlrs, fails' = fails
      PROVE  ScanInv'
  <2>1. \A k \in DOMAIN ide_ctlrs : Before(Place(ide_ctlrs[k]), to)
    <3>1. \A k \in DOMAIN ide_ctlrs : Before(Place(ide_ctlrs[k]), at)
      BY DEF ScanInv
    <3> QED  BY <1>1, <1>3, <1>4, <1>5, <3>1, BeforeTransitive
  <2> QED  BY <1>1, <1>2, <1>5, <2>1 DEF ScanInv
<1>6. NextSlot \in Nat \X Nat /\ Before(at, NextSlot) /\ NextFunc \in Nat \X Nat /\ Before(at, NextFunc)
  BY <1>1 DEF NextSlot, NextFunc, Before
<1>7. CASE PciAbsent
  BY <1>1, <1>5, <1>6, <1>7 DEF PciAbsent
<1>8. CASE PciFound
  <2> DEFINE dev == pci_dev_get_info(at[1], at[2])
  <2>1. PICK lost \in SUBSET {"devs", "ide", "head", "tree"} :
           /\ dev # NULL
           /\ ide_ctlrs' = Added(ide_ctlrs, dev, IsIde(dev) /\ "ide" \notin lost)
           /\ fails' = fails - Cardinality(lost)
           /\ at' = NextFunc /\ boot' = boot
    BY <1>8 DEF PciFound
  <2>2. Cardinality(lost) \in Nat
    <3>a. IsFiniteSet({"devs"})
      BY FS_Singleton
    <3>b. IsFiniteSet({"devs"} \cup {"ide"})
      BY <3>a, FS_AddElement
    <3>c. IsFiniteSet(({"devs"} \cup {"ide"}) \cup {"head"})
      BY <3>b, FS_AddElement
    <3>d. IsFiniteSet((({"devs"} \cup {"ide"}) \cup {"head"}) \cup {"tree"})
      BY <3>c, FS_AddElement
    <3>1. IsFiniteSet({"devs", "ide", "head", "tree"})
      <4>1. {"devs", "ide", "head", "tree"} = (({"devs"} \cup {"ide"}) \cup {"head"}) \cup {"tree"}
        OBVIOUS
      <4> QED  BY <3>d, <4>1
    <3> QED  BY <3>1, FS_Subset, FS_CardinalityType
  <2>3. fails' \in Int /\ fails' <= fails
    BY <1>1, <2>1, <2>2
  <2>4. CASE ide_ctlrs' = ide_ctlrs
    <3>1. \A k \in DOMAIN ide_ctlrs : Before(Place(ide_ctlrs[k]), NextFunc)
      <4>1. \A k \in DOMAIN ide_ctlrs : Before(Place(ide_ctlrs[k]), at)
        BY DEF ScanInv
      <4> QED  BY <1>1, <1>3, <1>4, <1>6, <4>1, BeforeTransitive
    <3>2. ScanInv'
      BY <1>1, <1>2, <1>6, <2>1, <2>3, <2>4, <3>1 DEF ScanInv
    <3> QED  BY <1>8, <2>1, <2>3, <3>2
  <2>5. CASE ide_ctlrs' # ide_ctlrs
    <3>1. IsIde(dev) /\ ide_ctlrs' = Append(ide_ctlrs, dev)
      BY <2>1, <2>5 DEF Added
    <3>2. dev \in IdeDevs /\ Place(dev) = at
      <4> DEFINE h == pci_config_read(at[1], at[2])
      <4>1. h # NULL /\ dev = pci_dev_t(at[1], at[2], h)
        BY <2>1 DEF pci_dev_get_info
      <4>2. at = <<at[1], at[2]>>
        BY <1>1
      <4>3. at \in DOMAIN machine.pci /\ h = machine.pci[at]
        BY <4>1, <4>2 DEF pci_config_read, inl, outl
      <4> HIDE DEF h, dev
      <4>4. IsIde(h)
        BY <3>1, <4>1 DEF IsIde, pci_dev_t
      <4>5. at \in IdePlaces
        BY <1>1, <4>1, <4>3, <4>4 DEF IdePlaces
      <4>6. dev \in IdeDevs
        BY <4>1, <4>3, <4>5 DEF IdeDevs
      <4>7. Place(dev) = at
        BY <4>1, <4>2 DEF Place, pci_dev_t
      <4> QED  BY <4>6, <4>7
    <3> HIDE DEF dev
    <3> DEFINE L == Len(ide_ctlrs)
    <3>3. /\ ide_ctlrs' \in Seq(IdeDevs) /\ DOMAIN ide_ctlrs = 1 .. L /\ DOMAIN ide_ctlrs' = 1 .. L + 1 /\ L \in Nat
          /\ ide_ctlrs'[L + 1] = dev /\ \A k \in 1 .. L : ide_ctlrs'[k] = ide_ctlrs[k]
      BY <1>1, <3>1, <3>2
    <3>4. \A k \in 1 .. L : Before(Place(ide_ctlrs[k]), at)
      BY <3>3 DEF ScanInv
    <3>5. \A k \in 1 .. L : Before(Place(ide_ctlrs[k]), NextFunc)
      BY <1>1, <1>3, <1>4, <1>6, <3>3, <3>4, BeforeTransitive
    <3>6. \A k, m \in 1 .. L : k < m => Before(Place(ide_ctlrs[k]), Place(ide_ctlrs[m]))
      BY <3>3 DEF ScanInv
    <3> HIDE DEF L
    <3>7. \A k \in 1 .. L + 1 : k = L + 1 \/ k \in 1 .. L
      BY <3>3
    <3>8. \A k, m \in 1 .. L + 1 : k < m => k \in 1 .. L
      BY <3>3
    <3>9. \A k \in 1 .. L + 1 : Before(Place(ide_ctlrs'[k]), NextFunc)
      BY <1>6, <3>2, <3>3, <3>5, <3>7
    <3>10. \A k, m \in 1 .. L + 1 : k < m => Before(Place(ide_ctlrs'[k]), Place(ide_ctlrs'[m]))
      BY <3>2, <3>3, <3>4, <3>6, <3>7, <3>8
    <3>11. ScanInv'
      <4>1. fails' \in Int /\ fails' <= MaxFails
        BY <1>1, <2>3
      <4> QED  BY <1>1, <1>2, <1>6, <2>1, <3>3, <3>9, <3>10, <4>1 DEF ScanInv, Place
    <3> QED  BY <1>8, <2>1, <2>3, <3>11
  <2> QED  BY <2>4, <2>5
<1>9. CASE PciPanics
  BY <1>1, <1>2, <1>9 DEF PciPanics, pciVars, ScanInv
<1>10. CASE PciDone
  BY <1>1, <1>2, <1>10 DEF PciDone, pciVars, ScanInv
<1> QED  BY <1>7, <1>8, <1>9, <1>10 DEF PciNext
-----------------------------------------------------------------------------
(* The registers.  A reset selects device 0; while it is held no other      *)
(* write gets through.                                                     *)
LEMMA WriteControl ==
    ASSUME NEW c, NEW h \in HwType
    PROVE  LET held == outb(c, h, "ATA_CTL", "RESET")
               free == outb(c, h, "ATA_CTL", "NONE")
           IN  /\ held \in HwType /\ held.srst /\ held.sel = 0
               /\ free \in HwType /\ ~free.srst /\ free.sel = h.sel
BY DEF outb, HwType, Devs

LEMMA WriteDrive ==
    ASSUME NEW c, NEW h \in HwType, NEW n \in Devs
    PROVE  LET g == outb(c, h, "ATA_DRIVE_SELECT", n)
           IN  /\ g \in HwType /\ g.srst = h.srst
               /\ g.srst => g.sel = h.sel
               /\ ~g.srst => g.sel = n
BY DEF outb, HwType, Devs

LEMMA WriteCommand ==
    ASSUME NEW c, NEW h \in HwType, NEW command \in {"IDENTIFY_DRIVE", "READ_SECTORS"}
    PROVE  LET g == outb(c, h, "ATA_CMD", command)
           IN  g \in HwType /\ g.srst = h.srst /\ g.sel = h.sel
BY DEF outb, HwType, Devs

LEMMA WriteAddress ==
    ASSUME NEW c, NEW h \in HwType
    PROVE  LET g == outb(c, h, "ATA_LBA", 0)
           IN  g \in HwType /\ g.srst = h.srst /\ g.sel = h.sel
BY DEF outb, HwType, Devs

(* Selecting a device does so, unless a reset is held, if the driver is     *)
(* right about the device that was selected or wrong about this one.       *)
LEMMA SelectDev ==
    ASSUME NEW h \in HwType, NEW believed \in Devs, NEW n \in Devs
    PROVE  LET g == ata_ctlr_select_dev(h, believed, n)
           IN  /\ g \in HwType /\ g.srst = h.srst
               /\ ~g.srst /\ (h.sel = believed \/ believed # n) => g.sel = n
<1>1. CASE believed = n
  BY <1>1 DEF ata_ctlr_select_dev, HwType
<1>2. CASE believed # n
  BY <1>2, WriteDrive DEF ata_ctlr_select_dev, HwType
<1> QED  BY <1>1, <1>2

(* One poll: the driver stays, goes on or gives up.  It sees data only when *)
(* no reset is held.                                                       *)
Polled(l, next, failed) ==
    /\ pc = l /\ pc' \in {l, next, failed}
    /\ UNCHANGED <<boot, fails, pciVars, i, d, ctlrs, prdt_tries, hw, resets>>

LEMMA NoDataInReset ==
    ASSUME NEW c, NEW status \in inb_status(c), "DRQ" \in status
    PROVE  ~hw[c].srst
BY DEF inb_status

LEMMA Waits ==
    /\ ata_ctlr_wait_bsy => Polled("wait_bsy", "release", "identify")
    /\ ata_ctlr_wait_not_bsy => Polled("wait_not_bsy", "wait_rdy", "identify")
    /\ ata_ctlr_wait_rdy => Polled("wait_rdy", "reselect", "identify")
    /\ ata_ctlr_wait_drq =>
          \/ Polled("wait_id", "id", "no_id") /\ (pc' = "id" => ~Reg.srst)
          \/ Polled("wait_sector", "sector", "next") /\ (pc' = "sector" => ~Reg.srst)
<1>1. ata_ctlr_wait_bsy => Polled("wait_bsy", "release", "identify")
  BY DEF ata_ctlr_wait_bsy, Poll, Polled, Running, GoTo
<1>2. ata_ctlr_wait_not_bsy => Polled("wait_not_bsy", "wait_rdy", "identify")
  BY DEF ata_ctlr_wait_not_bsy, Poll, Polled, Running, GoTo
<1>3. ata_ctlr_wait_rdy => Polled("wait_rdy", "reselect", "identify")
  BY DEF ata_ctlr_wait_rdy, Poll, Polled, Running, GoTo
<1>4. \A status \in inb_status(i) : Right(status, "DRQ") => ~Reg.srst
  <2> SUFFICES ASSUME NEW status \in inb_status(i), Right(status, "DRQ") PROVE ~Reg.srst
    OBVIOUS
  <2>1. "DRQ" \in status
    BY DEF Right
  <2> QED  BY <2>1, NoDataInReset DEF Reg
<1>5. ata_ctlr_wait_drq =>
          \/ Polled("wait_id", "id", "no_id") /\ (pc' = "id" => ~Reg.srst)
          \/ Polled("wait_sector", "sector", "next") /\ (pc' = "sector" => ~Reg.srst)
  BY <1>4 DEF ata_ctlr_wait_drq, Poll, Polled, Running, GoTo
<1> QED  BY <1>1, <1>2, <1>3, <1>5
-----------------------------------------------------------------------------
(* What is known of the controllers and devices other than the one the      *)
(* driver is at does not change; of that one it is shown action by action.  *)
Settled ==
    /\ machine' = machine /\ UNCHANGED pciVars
    /\ fails' \in Int /\ fails' <= fails

LEMMA ScanSettled == ASSUME ScanInv, Settled PROVE ScanInv'
<1>1. IdeDevs' = IdeDevs
  BY DEF Settled, IdeDevs, IdePlaces
<1>2. machine' = machine /\ at' = at /\ ide_ctlrs' = ide_ctlrs /\ fails' \in Int /\ fails' <= fails
  BY DEF Settled, pciVars
<1>3. fails' <= MaxFails
  BY <1>2, PciAssumption DEF ScanInv
<1> QED  BY <1>1, <1>2, <1>3 DEF ScanInv

LEMMA PartsOfFew ==
    ASSUME NEW x, NEW parts, NEW all, NEW few, few => all, PartsAreOwn(x, parts, all)
    PROVE  PartsAreOwn(x, parts, few)
<1>1. PICK place \in [DOMAIN parts -> Entries(x)] :
        /\ \A k \in DOMAIN parts : Describes(parts[k], Own(x)[place[k]])
        /\ \A k, m \in DOMAIN parts : k < m => place[k] < place[m]
        /\ \A n \in Entries(x), k \in DOMAIN parts : n < place[k] => \E m \in DOMAIN parts : place[m] = n
        /\ parts # <<>> /\ all => \A n \in Entries(x) : \E m \in DOMAIN parts : place[m] = n
  BY DEF PartsAreOwn
<1>2. parts # <<>> /\ few => \A n \in Entries(x) : \E m \in DOMAIN parts : place[m] = n
  BY <1>1
<1> QED  BY <1>1, <1>2 DEF PartsAreOwn

LEMMA NoParts == \A x, all : PartsAreOwn(x, <<>>, all)
<1> SUFFICES ASSUME NEW x, NEW all PROVE PartsAreOwn(x, <<>>, all)
  OBVIOUS
<1> DEFINE place == [k \in {} |-> 0]
<1>1. DOMAIN <<>> = {}
  OBVIOUS
<1>2. place \in [DOMAIN <<>> -> Entries(x)]
  BY <1>1
<1> HIDE DEF place
<1> QED  BY <1>1, <1>2 DEF PartsAreOwn

LEMMA FewerFails == ASSUME ScanInv, Settled PROVE fails' = MaxFails => fails = MaxFails
BY PciAssumption DEF ScanInv, Settled

LEMMA OthersSame ==
    ASSUME ScanInv, Settled, DmaInv, DevsInv, resets' = resets, NEW c \in Index,
           ctlrs'[c] = ctlrs[c], Live(c)' => Live(c)
    PROVE  /\ Live(c)' => DmaOk(c, ctlrs[c])'
           /\ \A n \in Devs : Live(c)' /\ ctlrs'[c].devs[n] # NULL =>
                 DevOk(<<c, n>>, ctlrs[c].devs[n], <<c, n>> \in resets, fails = MaxFails)'
<1>1. Live(c)' => DmaOk(c, ctlrs[c])'
  BY DEF DmaInv, DmaOk, HasMaster, Master, UsesDma, Settled, pciVars
<1>2. ASSUME NEW n \in Devs, Live(c)', ctlrs'[c].devs[n] # NULL
      PROVE  DevOk(<<c, n>>, ctlrs[c].devs[n], <<c, n>> \in resets, fails = MaxFails)'
  <2>1. DevOk(<<c, n>>, ctlrs[c].devs[n], <<c, n>> \in resets, fails = MaxFails)
    BY <1>2 DEF DevsInv
  <2>2. PartsAreOwn(<<c, n>>, ctlrs[c].devs[n].parts, fails' = MaxFails)
    BY <2>1, FewerFails, PartsOfFew DEF DevOk
  <2> QED  BY <2>1, <2>2 DEF DevOk, IdIsOwn
<1> QED  BY <1>1, <1>2

LEMMA AllSame ==
    ASSUME ScanInv, Settled, DmaInv, DevsInv, UNCHANGED <<ctlrs, resets>>,
           \A c \in Index : Live(c)' => Live(c)
    PROVE  DmaInv' /\ DevsInv'
<1>1. \A c \in Index : /\ Live(c)' => DmaOk(c, ctlrs[c])'
                       /\ \A n \in Devs : Live(c)' /\ ctlrs'[c].devs[n] # NULL =>
                             DevOk(<<c, n>>, ctlrs[c].devs[n], <<c, n>> \in resets, fails = MaxFails)'
  BY OthersSame
<1> QED  BY <1>1 DEF DmaInv, DevsInv

LEMMA CtlrChanges ==
    ASSUME ScanInv, Settled, AtaTyped, DmaInv, DevsInv, i \in Index,
           NEW new \in CtlrType, ctlrs' = [ctlrs EXCEPT ![i] = new], resets' = resets,
           i' = i \/ pc' = "ctlr",
           DmaOk(i, new),
           \A n \in Devs : new.devs[n] # NULL => DevOk(<<i, n>>, new.devs[n], <<i, n>> \in resets, fails' = MaxFails)
    PROVE  DmaInv' /\ DevsInv' /\ ctlrs'[i] = new /\ (ctlrs \in [Index -> CtlrType \cup {NULL}])'
<1>1. /\ ctlrs'[i] = new /\ ctlrs' \in [Index -> CtlrType \cup {NULL}]
      /\ \A c \in Index \ {i} : ctlrs'[c] = ctlrs[c]
  BY DEF AtaTyped
<1>2. \A c \in Index \ {i} : Live(c)' => Live(c)
  BY <1>1 DEF Live
<1>3. \A c \in Index \ {i} : /\ Live(c)' => DmaOk(c, ctlrs[c])'
                             /\ \A n \in Devs : Live(c)' /\ ctlrs'[c].devs[n] # NULL =>
                                   DevOk(<<c, n>>, ctlrs[c].devs[n], <<c, n>> \in resets, fails = MaxFails)'
  BY <1>1, <1>2, OthersSame
<1>5. DmaInv'
  <2> SUFFICES ASSUME NEW c \in Index, Live(c)' PROVE DmaOk(c, ctlrs[c])'
    BY DEF DmaInv
  <2>1. CASE c = i
    BY <1>1, <2>1 DEF DmaOk, HasMaster, Master, UsesDma, Settled, pciVars
  <2> QED  BY <1>3, <2>1
<1>6. DevsInv'
  <2> SUFFICES ASSUME NEW c \in Index, NEW n \in Devs, Live(c)', ctlrs'[c].devs[n] # NULL
               PROVE  DevOk(<<c, n>>, ctlrs[c].devs[n], <<c, n>> \in resets, fails = MaxFails)'
    BY DEF DevsInv
  <2>1. CASE c = i
    <3>1. DevOk(<<i, n>>, new.devs[n], <<i, n>> \in resets, fails' = MaxFails)
      BY <1>1, <2>1
    <3> QED  BY <1>1, <2>1, <3>1 DEF DevOk, IdIsOwn
  <2> QED  BY <1>3, <2>1
<1> QED  BY <1>1, <1>5, <1>6
LEMMA DmaSame ==
    ASSUME NEW c, NEW old, NEW new, DmaOk(c, old),
           new.busmaster = old.busmaster, new.prdt = old.prdt,
           \A n \in Devs : new.devs[n] # NULL /\ new.devs[n].use_dma => old.devs[n] # NULL /\ old.devs[n].use_dma
    PROVE  DmaOk(c, new)
<1>1. UsesDma(new) => UsesDma(old)
  BY DEF UsesDma
<1>2. HasMaster(c, old) => HasMaster(c, new)
  BY DEF HasMaster
<1> QED  BY <1>1, <1>2 DEF DmaOk

LEMMA OwnDevs ==
    ASSUME ScanInv, Settled, DevsInv, i \in Index, pc # "ctlr", NEW n \in Devs, ctlrs[i].devs[n] # NULL
    PROVE  DevOk(<<i, n>>, ctlrs[i].devs[n], <<i, n>> \in resets, fails' = MaxFails)
<1>1. DevOk(<<i, n>>, ctlrs[i].devs[n], <<i, n>> \in resets, fails = MaxFails)
  BY DEF DevsInv, Live
<1>2. PartsAreOwn(<<i, n>>, ctlrs[i].devs[n].parts, fails' = MaxFails)
  BY <1>1, FewerFails, PartsOfFew DEF DevOk
<1> QED  BY <1>1, <1>2 DEF DevOk

(* The driver notes which device it has selected. *)
LEMMA SelStep ==
    ASSUME ScanInv, DriverInv, Settled, i \in Index, pc # "ctlr", i' = i, NEW n \in Devs,
           ctlrs' = [ctlrs EXCEPT ![i].sel_dev = n], resets' = resets
    PROVE  /\ DmaInv' /\ DevsInv' /\ (ctlrs \in [Index -> CtlrType \cup {NULL}])'
           /\ ctlrs'[i] \in CtlrType /\ ctlrs'[i].sel_dev = n /\ ctlrs'[i].devs = ctlrs[i].devs
<1> DEFINE new == [ctlrs[i] EXCEPT !.sel_dev = n]
<1>1. ctlrs[i] \in CtlrType /\ AtaTyped /\ DmaInv /\ DevsInv
  BY DEF DriverInv, AtaTyped
<1>2. /\ new \in CtlrType /\ new.sel_dev = n /\ new.devs = ctlrs[i].devs
      /\ new.busmaster = ctlrs[i].busmaster /\ new.prdt = ctlrs[i].prdt
  BY <1>1 DEF CtlrType
<1>3. ctlrs' = [ctlrs EXCEPT ![i] = new]
  BY <1>1 DEF AtaTyped
<1> HIDE DEF new
<1>4. DmaOk(i, ctlrs[i])
  BY <1>1 DEF DmaInv, Live
<1>5. DmaOk(i, new)
  BY <1>2, <1>4, DmaSame
<1>6. \A m \in Devs : new.devs[m] # NULL => DevOk(<<i, m>>, new.devs[m], <<i, m>> \in resets, fails' = MaxFails)
  BY <1>1, <1>2, OwnDevs
<1> QED  BY <1>1, <1>2, <1>3, <1>5, <1>6, CtlrChanges

(* The driver writes down something about the device it is looking at.      *)
LEMMA DevStep ==
    ASSUME ScanInv, DriverInv, Settled, i \in Index, pc # "ctlr", i' = i, d \in Devs,
           NEW dev \in DevType, NEW new \in CtlrType,
           new.busmaster = ctlrs[i].busmaster, new.prdt = ctlrs[i].prdt,
           new.devs = [ctlrs[i].devs EXCEPT ![d] = dev],
           ctlrs' = [ctlrs EXCEPT ![i] = new], resets' = resets,
           ~dev.use_dma, DevOk(<<i, d>>, dev, <<i, d>> \in resets, fails' = MaxFails)
    PROVE  /\ DmaInv' /\ DevsInv' /\ (ctlrs \in [Index -> CtlrType \cup {NULL}])'
           /\ ctlrs'[i] = new /\ ctlrs'[i].devs[d] = dev
<1>1. ctlrs[i] \in CtlrType /\ AtaTyped /\ DmaInv /\ DevsInv
  BY DEF DriverInv, AtaTyped
<1>2. new.devs[d] = dev /\ \A n \in Devs \ {d} : new.devs[n] = ctlrs[i].devs[n]
  BY <1>1 DEF CtlrType
<1>3. DmaOk(i, ctlrs[i])
  BY <1>1 DEF DmaInv, Live
<1>4. DmaOk(i, new)
  <2>1. \A n \in Devs : new.devs[n] # NULL /\ new.devs[n].use_dma =>
                          ctlrs[i].devs[n] # NULL /\ ctlrs[i].devs[n].use_dma
    BY <1>2
  <2> QED  BY <1>3, <2>1, DmaSame
<1>5. \A m \in Devs : new.devs[m] # NULL => DevOk(<<i, m>>, new.devs[m], <<i, m>> \in resets, fails' = MaxFails)
  BY <1>1, <1>2, OwnDevs
<1> QED  BY <1>1, <1>2, <1>4, <1>5, CtlrChanges

-----------------------------------------------------------------------------
(* Each action of the driver.  Those that only wait, stop or allocate.      *)
LEMMA DriverSame ==
    ASSUME ScanInv, DriverInv, Settled, UNCHANGED <<pc, i, d, ctlrs, hw, resets>>
    PROVE  DriverInv'
<1>1. DmaInv' /\ DevsInv'
  BY AllSame DEF DriverInv, Live
<1>2. AtaTyped' /\ ResetsPast'
  BY DEF DriverInv, AtaTyped, ResetsPast
<1>3. DevInv'
  BY DEF DriverInv, DevInv, Dev, Ctlr
<1>4. SelectInv'
  BY DEF DriverInv, SelectInv, Ctlr, Reg
<1> QED  BY <1>1, <1>2, <1>3, <1>4 DEF DriverInv

LEMMA PolledStep ==
    ASSUME ScanInv, DriverInv, Settled,
           \/ Polled("wait_bsy", "release", "identify")
           \/ Polled("wait_not_bsy", "wait_rdy", "identify")
           \/ Polled("wait_rdy", "reselect", "identify")
           \/ Polled("wait_id", "id", "no_id") /\ (pc' = "id" => ~Reg.srst)
           \/ Polled("wait_sector", "sector", "next") /\ (pc' = "sector" => ~Reg.srst)
    PROVE  DriverInv'
<1>1. UNCHANGED <<i, d, ctlrs, hw, resets>> /\ pc \in AtDevice /\ pc' \in AtDevice
  BY DEF Polled, AtDevice, InReset, AfterReset
<1>2. DmaInv' /\ DevsInv'
  <2>1. \A c \in Index : Live(c)' => Live(c)
    BY <1>1 DEF Live, AtDevice, InReset, AfterReset
  <2> QED  BY <1>1, <2>1, AllSame DEF DriverInv
<1>3. AtaTyped'
  BY <1>1 DEF DriverInv, AtaTyped, AtDevice, InReset, AfterReset
<1>4. pc' \in InReset => pc \in InReset
  BY DEF Polled, InReset, AfterReset
<1>5. pc \in AfterReset => pc' \in AfterReset
  BY DEF Polled, InReset, AfterReset
<1>6. ResetsPast'
  BY <1>1, <1>5 DEF DriverInv, ResetsPast
<1>7. DevInv'
  BY <1>1, <1>4 DEF DriverInv, DevInv, Dev, Ctlr
<1>8. pc \in InReset => <<i, d>> \notin resets
  <2>1. i \in Int /\ d \in Int
    BY DEF DriverInv, AtaTyped
  <2>2. ~Before(<<i, d>>, <<i, d>>)
    BY <2>1 DEF Before
  <2> QED  BY <2>2 DEF DriverInv, ResetsPast, InReset, AfterReset
<1>9. SelectInv'
  <2>1. SelectInv
    BY DEF DriverInv
  <2> QED  BY <1>1, <1>8, <2>1 DEF SelectInv, Polled, Ctlr, Reg, InReset
<1> QED  BY <1>2, <1>3, <1>6, <1>7, <1>9 DEF DriverInv
(* A device that is being reset was not before. *)
LEMMA NotResetYet ==
    ASSUME DriverInv, pc \in InReset \cup {"dev"}
    PROVE  <<i, d>> \notin resets
<1>1. i \in Int /\ d \in Int
  BY DEF DriverInv, AtaTyped
<1>2. ~Before(<<i, d>>, <<i, d>>)
  BY <1>1 DEF Before
<1> QED  BY <1>2 DEF DriverInv, ResetsPast, InReset, AfterReset

(* The reset's own writes, and the note of a reset that succeeded.          *)
LEMMA ResetStartStep ==
    ASSUME ScanInv, DriverInv, Settled, ResetStart
    PROVE  DriverInv'
<1>1. /\ UNCHANGED <<i, d, ctlrs, resets>> /\ pc = "reset" /\ pc' = "wait_bsy"
      /\ hw' = [hw EXCEPT ![i] = outb(i, @, "ATA_CTL", "RESET")]
  BY DEF ResetStart, Running, GoTo
<1>2. i \in Index /\ hw[i] \in HwType /\ AtaTyped
  BY <1>1 DEF DriverInv, AtaTyped
<1>3. Reg' \in HwType /\ Reg'.srst /\ Reg'.sel = 0 /\ hw' \in [Index -> HwType]
  <2>1. Reg' = outb(i, hw[i], "ATA_CTL", "RESET")
    BY <1>1, <1>2 DEF Reg, AtaTyped
  <2> QED  BY <1>1, <1>2, <2>1, WriteControl DEF AtaTyped
<1>4. DmaInv' /\ DevsInv'
  <2>1. \A c \in Index : Live(c)' => Live(c)
    BY <1>1 DEF Live
  <2> QED  BY <1>1, <2>1, AllSame DEF DriverInv
<1>5. AtaTyped'
  BY <1>1, <1>2, <1>3 DEF AtaTyped, AtDevice, InReset, AfterReset
<1>6. ResetsPast'
  BY <1>1 DEF DriverInv, ResetsPast, AfterReset
<1>7. DevInv'
  BY <1>1 DEF DriverInv, DevInv, Dev, Ctlr, AtDevice, InReset, AfterReset
<1>8. SelectInv'
  BY <1>1, <1>3 DEF DriverInv, SelectInv, Ctlr, AtDevice, InReset, AfterReset
<1> QED  BY <1>4, <1>5, <1>6, <1>7, <1>8 DEF DriverInv

LEMMA ResetReleaseStep ==
    ASSUME ScanInv, DriverInv, Settled, ResetRelease
    PROVE  DriverInv'
<1>1. /\ UNCHANGED <<i, d, ctlrs, resets>> /\ pc = "release" /\ pc' = "wait_not_bsy"
      /\ hw' = [hw EXCEPT ![i] = outb(i, @, "ATA_CTL", "NONE")]
  BY DEF ResetRelease, Running, GoTo
<1>2. i \in Index /\ hw[i] \in HwType /\ AtaTyped /\ Reg.sel = 0
  BY <1>1 DEF DriverInv, AtaTyped, SelectInv
<1>3. Reg' \in HwType /\ ~Reg'.srst /\ Reg'.sel = 0 /\ hw' \in [Index -> HwType]
  <2>1. Reg' = outb(i, hw[i], "ATA_CTL", "NONE")
    BY <1>1, <1>2 DEF Reg, AtaTyped
  <2> QED  BY <1>1, <1>2, <2>1, WriteControl DEF AtaTyped, Reg
<1>4. DmaInv' /\ DevsInv'
  <2>1. \A c \in Index : Live(c)' => Live(c)
    BY <1>1 DEF Live
  <2> QED  BY <1>1, <2>1, AllSame DEF DriverInv
<1>5. AtaTyped'
  BY <1>1, <1>2, <1>3 DEF AtaTyped, AtDevice, InReset, AfterReset
<1>6. ResetsPast'
  BY <1>1 DEF DriverInv, ResetsPast, AfterReset
<1>7. DevInv'
  BY <1>1 DEF DriverInv, DevInv, Dev, Ctlr, AtDevice, InReset, AfterReset
<1>8. SelectInv'
  BY <1>1, <1>3 DEF DriverInv, SelectInv, Ctlr, AtDevice, InReset, AfterReset
<1> QED  BY <1>4, <1>5, <1>6, <1>7, <1>8 DEF DriverInv

LEMMA ResetDoneStep ==
    ASSUME ScanInv, DriverInv, Settled, ResetDone
    PROVE  DriverInv'
<1>1. /\ UNCHANGED <<i, d, ctlrs>> /\ pc = "reselect" /\ pc' = "identify"
      /\ resets' = resets \cup {<<i, d>>}
      /\ hw' = [hw EXCEPT ![i] = ata_ctlr_select_dev(@, 0, Ctlr.sel_dev)]
  BY DEF ResetDone, Running, GoTo
<1>2. /\ i \in Index /\ d \in Devs /\ hw[i] \in HwType /\ AtaTyped
      /\ Reg.sel = 0 /\ ~Reg.srst /\ Ctlr.sel_dev = d
      /\ Dev \in DevType /\ ~Dev.use_dma /\ Dev.parts = <<>> /\ Dev.id = NULL
  BY <1>1 DEF DriverInv, AtaTyped, SelectInv, DevInv, AtDevice, InReset, AfterReset
<1>3. Reg' \in HwType /\ ~Reg'.srst /\ Reg'.sel = d /\ hw' \in [Index -> HwType]
  <2>1. Reg' = ata_ctlr_select_dev(hw[i], 0, d)
    BY <1>1, <1>2 DEF Reg, AtaTyped
  <2>2. 0 \in Devs
    BY DEF Devs
  <2> QED  BY <1>1, <1>2, <2>1, <2>2, SelectDev DEF AtaTyped, Reg
<1>4. DmaInv' /\ DevsInv'
  <2>1. DmaInv'
    <3>1. \A c \in Index : Live(c)' => Live(c)
      BY <1>1 DEF Live
    <3> QED  BY <1>1, <3>1 DEF DriverInv, DmaInv, DmaOk, HasMaster, Master, UsesDma, Settled, pciVars
  <2>2. DevsInv'
    <3> SUFFICES ASSUME NEW c \in Index, NEW n \in Devs, Live(c)', ctlrs'[c].devs[n] # NULL
                 PROVE  DevOk(<<c, n>>, ctlrs[c].devs[n], <<c, n>> \in resets, fails = MaxFails)'
      BY DEF DevsInv
    <3>1. DevOk(<<c, n>>, ctlrs[c].devs[n], <<c, n>> \in resets, fails = MaxFails)
      BY <1>1 DEF DriverInv, DevsInv, Live
    <3>2. PartsAreOwn(<<c, n>>, ctlrs[c].devs[n].parts, fails' = MaxFails)
      BY <3>1, FewerFails, PartsOfFew DEF DevOk
    <3>3. IdIsOwn(<<c, n>>, ctlrs[c].devs[n], <<c, n>> \in resets')
      <4>1. CASE <<c, n>> = <<i, d>>
        <5>1. c = i /\ n = d
          BY <4>1
        <5> QED  BY <1>2, <5>1 DEF IdIsOwn, Dev, Ctlr
      <4>2. CASE <<c, n>> # <<i, d>>
        BY <1>1, <3>1, <4>2 DEF DevOk, IdIsOwn
      <4> QED  BY <4>1, <4>2
    <3> QED  BY <1>1, <3>2, <3>3 DEF DevOk, IdIsOwn
  <2> QED  BY <2>1, <2>2
<1>5. AtaTyped'
  BY <1>1, <1>2, <1>3 DEF AtaTyped, AtDevice, InReset, AfterReset, Drives
<1>6. ResetsPast'
  BY <1>1 DEF DriverInv, ResetsPast, AfterReset
<1>7. DevInv'
  BY <1>1, <1>2 DEF DevInv, Dev, Ctlr, IdIsOwn, AtDevice, InReset, AfterReset
<1>8. SelectInv'
  BY <1>1, <1>2, <1>3 DEF SelectInv, Ctlr, AtDevice, InReset, AfterReset
<1> QED  BY <1>4, <1>5, <1>6, <1>7, <1>8 DEF DriverInv
(* From one controller and one device to the next.                          *)
LEMMA PastLater ==
    ASSUME DriverInv, resets' = resets,
           \/ i' = i /\ d' = d + 1
           \/ i' = i + 1
           \/ i' = i /\ d' = d /\ (pc \in AfterReset => pc' \in AfterReset)
    PROVE  ResetsPast'
<1>1. /\ i \in Int /\ d \in Int
      /\ \A x \in resets : x \in Drives /\ x = <<x[1], x[2]>> /\ x[1] \in Int /\ x[2] \in Int
      /\ \A x \in resets : Before(x, <<i, d>>) \/ (x = <<i, d>> /\ pc \in AfterReset)
  BY DEF DriverInv, AtaTyped, ResetsPast, Drives, Index, Devs
<1>2. CASE i' = i /\ d' = d + 1
  BY <1>1, <1>2 DEF ResetsPast, Before
<1>3. CASE i' = i + 1
  BY <1>1, <1>3 DEF ResetsPast, Before
<1>4. CASE i' = i /\ d' = d /\ (pc \in AfterReset => pc' \in AfterReset)
  BY <1>1, <1>4 DEF ResetsPast
<1> QED  BY <1>2, <1>3, <1>4

LEMMA CtlrAbsentStep ==
    ASSUME ScanInv, DriverInv, Settled, CtlrAbsent
    PROVE  DriverInv'
<1>1. /\ UNCHANGED <<ctlrs, hw, resets>> /\ pc = "ctlr" /\ pc' = "ctlr" /\ i < CTLRS /\ i' = i + 1 /\ d' = 0
  BY DEF CtlrAbsent, NextCtlr, Running, GoTo
<1>2. DmaInv' /\ DevsInv'
  <2>1. \A c \in Index : Live(c)' => Live(c)
    BY <1>1 DEF Live
  <2> QED  BY <1>1, <2>1, AllSame DEF DriverInv
<1>3. AtaTyped'
  BY <1>1, AtaAssumption DEF DriverInv, AtaTyped, AtDevice, InReset, AfterReset
<1>4. ResetsPast'
  BY <1>1, PastLater
<1>5. DevInv' /\ SelectInv'
  BY <1>1 DEF DevInv, SelectInv, AtDevice, InReset, AfterReset
<1> QED  BY <1>2, <1>3, <1>4, <1>5 DEF DriverInv

LEMMA CtlrNewStep ==
    ASSUME ScanInv, DriverInv, Settled, CtlrNew
    PROVE  DriverInv'
<1>1. /\ UNCHANGED <<i, hw, resets>> /\ pc = "ctlr" /\ pc' = "dev" /\ i < CTLRS /\ d' = 0
      /\ ctlrs' = [ctlrs EXCEPT ![i] = NewCtlr]
  BY DEF CtlrNew, Running, GoTo
<1>2. i \in Index /\ AtaTyped /\ d = 0
  BY <1>1, AtaAssumption DEF DriverInv, AtaTyped, Index
<1>3. NewCtlr \in CtlrType
  BY DEF NewCtlr, CtlrType, Devs
<1>4. \A n \in Devs : NewCtlr.devs[n] = NULL
  BY DEF NewCtlr
<1>5. DmaOk(i, NewCtlr)
  <2>1. ~UsesDma(NewCtlr) /\ NewCtlr.busmaster = 0
    BY <1>4 DEF UsesDma, NewCtlr
  <2> QED  BY <2>1 DEF DmaOk
<1>6. DmaInv' /\ DevsInv' /\ ctlrs'[i] = NewCtlr /\ (ctlrs \in [Index -> CtlrType \cup {NULL}])'
  BY <1>1, <1>2, <1>3, <1>4, <1>5, CtlrChanges DEF DriverInv
<1>7. AtaTyped'
  BY <1>1, <1>2, <1>3, <1>6 DEF AtaTyped, AtDevice, InReset, AfterReset
<1>8. ResetsPast'
  BY <1>1, <1>2, PastLater DEF AfterReset
<1>9. DevInv' /\ SelectInv'
  BY <1>1 DEF DevInv, SelectInv, AtDevice, InReset, AfterReset
<1> QED  BY <1>6, <1>7, <1>8, <1>9 DEF DriverInv

LEMMA DevProbeStep ==
    ASSUME ScanInv, DriverInv, Settled, DevProbe
    PROVE  DriverInv'
<1> DEFINE h == ata_ctlr_select_dev(hw[i], Ctlr.sel_dev, d)
<1>1. /\ pc = "dev" /\ d < 2 /\ UNCHANGED <<i, resets>> /\ hw' = [hw EXCEPT ![i] = h]
      /\ \/ ctlrs' = [ctlrs EXCEPT ![i].sel_dev = d] /\ pc' = "dev" /\ d' = d + 1
         \/ ctlrs' = [ctlrs EXCEPT ![i].sel_dev = d, ![i].devs[d] = NewDev] /\ pc' = "reset" /\ d' = d
  BY DEF DevProbe, Running, GoTo, NextDev
<1>2. i \in Index /\ d \in Devs /\ ctlrs[i] \in CtlrType /\ hw[i] \in HwType /\ AtaTyped
  BY <1>1 DEF DriverInv, AtaTyped, Devs
<1>3. hw' \in [Index -> HwType]
  <2>1. Ctlr.sel_dev \in Devs
    BY <1>2 DEF Ctlr, CtlrType
  <2>2. h \in HwType
    BY <1>2, <2>1, SelectDev
  <2> HIDE DEF h
  <2> QED  BY <1>1, <1>2, <2>2 DEF AtaTyped
<1> HIDE DEF h
<1>4. CASE ctlrs' = [ctlrs EXCEPT ![i].sel_dev = d] /\ pc' = "dev" /\ d' = d + 1
  <2>1. DmaInv' /\ DevsInv' /\ (ctlrs \in [Index -> CtlrType \cup {NULL}])' /\ ctlrs'[i] \in CtlrType
    BY <1>1, <1>2, <1>4, SelStep
  <2>2. AtaTyped'
    BY <1>1, <1>2, <1>3, <1>4, <2>1 DEF AtaTyped, AtDevice, InReset, AfterReset, Devs
  <2>3. ResetsPast'
    BY <1>1, <1>4, PastLater
  <2>4. DevInv' /\ SelectInv'
    BY <1>4 DEF DevInv, SelectInv, AtDevice, InReset, AfterReset
  <2> QED  BY <2>1, <2>2, <2>3, <2>4 DEF DriverInv
<1>5. CASE ctlrs' = [ctlrs EXCEPT ![i].sel_dev = d, ![i].devs[d] = NewDev] /\ pc' = "reset" /\ d' = d
  <2> DEFINE new == [ctlrs[i] EXCEPT !.sel_dev = d, !.devs[d] = NewDev]
  <2>1. NewDev \in DevType /\ ~NewDev.use_dma /\ NewDev.id = NULL /\ NewDev.parts = <<>>
    BY DEF NewDev, DevType
  <2>2. /\ new \in CtlrType /\ new.busmaster = ctlrs[i].busmaster /\ new.prdt = ctlrs[i].prdt
        /\ new.devs = [ctlrs[i].devs EXCEPT ![d] = NewDev] /\ new.sel_dev = d
    BY <1>2, <2>1 DEF CtlrType
  <2>3. ctlrs' = [ctlrs EXCEPT ![i] = new]
    BY <1>2, <1>5 DEF AtaTyped, CtlrType
  <2>4. DevOk(<<i, d>>, NewDev, <<i, d>> \in resets, fails' = MaxFails)
    BY <2>1, NoParts DEF DevOk, IdIsOwn
  <2> HIDE DEF new
  <2>5. /\ DmaInv' /\ DevsInv' /\ (ctlrs \in [Index -> CtlrType \cup {NULL}])'
        /\ ctlrs'[i] = new /\ ctlrs'[i].devs[d] = NewDev
    BY <1>1, <1>2, <2>1, <2>2, <2>3, <2>4, DevStep
  <2>6. AtaTyped'
    BY <1>1, <1>2, <1>3, <1>5, <2>2, <2>5 DEF AtaTyped, AtDevice, InReset, AfterReset
  <2>7. ResetsPast'
    BY <1>1, <1>5, PastLater DEF AfterReset
  <2>8. DevInv'
    BY <1>1, <1>5, <2>1, <2>5 DEF DevInv, Dev, Ctlr, IdIsOwn
  <2>9. SelectInv'
    BY <1>1, <1>5, <2>2, <2>5 DEF SelectInv, Ctlr
  <2> QED  BY <2>5, <2>6, <2>7, <2>8, <2>9 DEF DriverInv
<1> QED  BY <1>1, <1>4, <1>5

(* IDENTIFY. *)
LEMMA IdentifyStep ==
    ASSUME ScanInv, DriverInv, Settled, Identify
    PROVE  DriverInv'
<1> DEFINE g == ata_ctlr_select_dev(hw[i], Ctlr.sel_dev, d)
           h == outb(i, g, "ATA_CMD", "IDENTIFY_DRIVE")
<1>1. /\ pc = "identify" /\ pc' = "wait_id" /\ UNCHANGED <<i, d, resets>>
      /\ ctlrs' = [ctlrs EXCEPT ![i].sel_dev = d] /\ hw' = [hw EXCEPT ![i] = h]
  BY DEF Identify, Running, GoTo
<1>2. /\ i \in Index /\ d \in Devs /\ ctlrs[i] \in CtlrType /\ hw[i] \in HwType /\ AtaTyped
      /\ Ctlr.sel_dev = d /\ (<<i, d>> \in resets => ~Reg.srst /\ Reg.sel = d)
  BY <1>1 DEF DriverInv, AtaTyped, SelectInv, AtDevice, InReset, AfterReset
<1>3. g \in HwType /\ g.srst = hw[i].srst /\ (~g.srst /\ hw[i].sel = d => g.sel = d)
  BY <1>2, SelectDev
<1> HIDE DEF g
<1>4. h \in HwType /\ h.srst = g.srst /\ h.sel = g.sel
  BY <1>3, WriteCommand
<1> HIDE DEF h
<1>5. Reg' = h /\ hw' \in [Index -> HwType]
  BY <1>1, <1>2, <1>4 DEF Reg, AtaTyped
<1>6. /\ DmaInv' /\ DevsInv' /\ (ctlrs \in [Index -> CtlrType \cup {NULL}])' /\ ctlrs'[i] \in CtlrType
      /\ ctlrs'[i].sel_dev = d /\ ctlrs'[i].devs = ctlrs[i].devs
  BY <1>1, <1>2, SelStep
<1>7. AtaTyped'
  BY <1>1, <1>2, <1>5, <1>6 DEF AtaTyped, AtDevice, InReset, AfterReset
<1>8. ResetsPast'
  BY <1>1, PastLater DEF AfterReset
<1>9. DevInv'
  BY <1>1, <1>6 DEF DriverInv, DevInv, Dev, Ctlr, AtDevice, InReset, AfterReset
<1>10. SelectInv'
  BY <1>1, <1>2, <1>3, <1>4, <1>5, <1>6 DEF SelectInv, Ctlr, Reg, InReset
<1> QED  BY <1>6, <1>7, <1>8, <1>9, <1>10 DEF DriverInv
LEMMA IdentifiedStep ==
    ASSUME ScanInv, DriverInv, Settled, Identified
    PROVE  DriverInv'
<1> DEFINE dev == [Dev EXCEPT !.id = <<i, hw[i].sel>>, !.sec_cnt_28 = Sectors]
           new == [ctlrs[i] EXCEPT !.devs[d] = dev]
<1>1. /\ pc = "id" /\ pc' = "read" /\ UNCHANGED <<i, d, resets>>
      /\ ctlrs' = [ctlrs EXCEPT ![i].devs[d] = dev] /\ hw' = [hw EXCEPT ![i].cmd = NULL]
  BY DEF Identified, Running, GoTo, SetDev, inw
<1>2. /\ i \in Index /\ d \in Devs /\ ctlrs[i] \in CtlrType /\ hw[i] \in HwType /\ AtaTyped
      /\ Ctlr.sel_dev = d /\ (<<i, d>> \in resets => Reg.sel = d)
      /\ Dev \in DevType /\ ~Dev.use_dma /\ Dev.parts = <<>>
  BY <1>1 DEF DriverInv, AtaTyped, SelectInv, DevInv, AtDevice, InReset, AfterReset
<1>3. /\ dev \in DevType /\ ~dev.use_dma /\ dev.parts = <<>> /\ dev.id = <<i, hw[i].sel>>
  <2>1. <<i, hw[i].sel>> \in Drives
    BY <1>2 DEF Drives, HwType
  <2> QED  BY <1>2, <2>1 DEF DevType
<1>4. IdIsOwn(<<i, d>>, dev, <<i, d>> \in resets)
  BY <1>2, <1>3 DEF IdIsOwn, Reg
<1> HIDE DEF dev
<1>5. /\ new \in CtlrType /\ new.busmaster = ctlrs[i].busmaster /\ new.prdt = ctlrs[i].prdt
      /\ new.devs = [ctlrs[i].devs EXCEPT ![d] = dev] /\ new.sel_dev = ctlrs[i].sel_dev
  BY <1>2, <1>3 DEF CtlrType
<1>6. ctlrs' = [ctlrs EXCEPT ![i] = new]
  BY <1>1, <1>2 DEF AtaTyped
<1> HIDE DEF new
<1>7. DevOk(<<i, d>>, dev, <<i, d>> \in resets, fails' = MaxFails)
  BY <1>3, <1>4, NoParts DEF DevOk
<1>8. /\ DmaInv' /\ DevsInv' /\ (ctlrs \in [Index -> CtlrType \cup {NULL}])'
      /\ ctlrs'[i] = new /\ ctlrs'[i].devs[d] = dev
  BY <1>1, <1>2, <1>3, <1>5, <1>6, <1>7, DevStep
<1>9. hw' \in [Index -> HwType]
  BY <1>1, <1>2 DEF AtaTyped, HwType
<1>10. AtaTyped'
  BY <1>1, <1>2, <1>5, <1>8, <1>9 DEF AtaTyped, AtDevice, InReset, AfterReset
<1>11. ResetsPast'
  BY <1>1, PastLater DEF AfterReset
<1>12. DevInv'
  BY <1>1, <1>3, <1>4, <1>8 DEF DevInv, Dev, Ctlr, IdIsOwn, InReset
<1>13. SelectInv'
  BY <1>1, <1>2, <1>5, <1>8 DEF SelectInv, Ctlr
<1> QED  BY <1>8, <1>10, <1>11, <1>12, <1>13 DEF DriverInv

LEMMA NotIdentifiedStep ==
    ASSUME ScanInv, DriverInv, Settled, NotIdentified
    PROVE  DriverInv'
<1>1. /\ pc = "no_id" /\ pc' = "dev" /\ d' = d + 1 /\ UNCHANGED <<i, hw, resets>>
      /\ \E packet \in BOOLEAN : ctlrs' = [ctlrs EXCEPT ![i].devs[d] = [Dev EXCEPT !.atapi = @ \/ packet]]
  BY DEF NotIdentified, Running, GoTo, NextDev, SetDev
<1>2. /\ i \in Index /\ d \in Devs /\ ctlrs[i] \in CtlrType /\ AtaTyped
      /\ Dev \in DevType /\ ~Dev.use_dma /\ Dev.parts = <<>> /\ IdIsOwn(<<i, d>>, Dev, <<i, d>> \in resets)
  BY <1>1 DEF DriverInv, AtaTyped, DevInv, AtDevice, InReset, AfterReset
<1>3. PICK packet \in BOOLEAN : ctlrs' = [ctlrs EXCEPT ![i].devs[d] = [Dev EXCEPT !.atapi = @ \/ packet]]
  BY <1>1
<1> DEFINE dev == [Dev EXCEPT !.atapi = @ \/ packet]
           new == [ctlrs[i] EXCEPT !.devs[d] = dev]
<1>4. dev \in DevType /\ dev.use_dma = Dev.use_dma /\ dev.parts = Dev.parts /\ dev.id = Dev.id
  <2>1. (Dev.atapi \/ packet) \in BOOLEAN
    OBVIOUS
  <2> QED  BY <1>2, <2>1 DEF DevType
<1> HIDE DEF dev
<1>5. /\ new \in CtlrType /\ new.busmaster = ctlrs[i].busmaster /\ new.prdt = ctlrs[i].prdt
      /\ new.devs = [ctlrs[i].devs EXCEPT ![d] = dev]
  BY <1>2, <1>4 DEF CtlrType
<1>6. ctlrs' = [ctlrs EXCEPT ![i] = new]
  BY <1>2, <1>3 DEF AtaTyped, dev
<1> HIDE DEF new
<1>7. DevOk(<<i, d>>, dev, <<i, d>> \in resets, fails' = MaxFails)
  BY <1>2, <1>4, NoParts DEF DevOk, IdIsOwn
<1>8. /\ DmaInv' /\ DevsInv' /\ (ctlrs \in [Index -> CtlrType \cup {NULL}])' /\ ctlrs'[i] = new
  BY <1>1, <1>2, <1>4, <1>5, <1>6, <1>7, DevStep
<1>9. AtaTyped'
  BY <1>1, <1>2, <1>5, <1>8 DEF AtaTyped, AtDevice, InReset, AfterReset, Devs
<1>10. ResetsPast'
  BY <1>1, PastLater
<1>11. DevInv' /\ SelectInv'
  BY <1>1 DEF DevInv, SelectInv, AtDevice, InReset, AfterReset
<1> QED  BY <1>8, <1>9, <1>10, <1>11 DEF DriverInv

(* The partition table. *)
LEMMA ReadStep ==
    ASSUME ScanInv, DriverInv, Settled, ata_pio_lba28_read
    PROVE  DriverInv'
<1> DEFINE g == ata_ctlr_select_dev(hw[i], Ctlr.sel_dev, d)
           f == outb(i, g, "ATA_DRIVE_SELECT", d)
           e == outb(i, f, "ATA_LBA", 0 % 2^24)
           h == outb(i, e, "ATA_CMD", "READ_SECTORS")
<1>1. /\ pc = "read" /\ UNCHANGED <<i, resets>>
      /\ \/ pc' = "dev" /\ d' = d + 1 /\ UNCHANGED <<ctlrs, hw>>
         \/ /\ ctlrs' = [ctlrs EXCEPT ![i].sel_dev = d] /\ hw' = [hw EXCEPT ![i] = h]
            /\ pc' = "wait_sector" /\ d' = d
  BY DEF ata_pio_lba28_read, Read, Running, GoTo, NextDev
<1>2. i \in Index /\ d \in Devs /\ ctlrs[i] \in CtlrType /\ hw[i] \in HwType /\ AtaTyped
  BY <1>1 DEF DriverInv, AtaTyped, AtDevice, InReset, AfterReset
<1>3. g \in HwType
  <2>1. Ctlr.sel_dev \in Devs
    BY <1>2 DEF Ctlr, CtlrType
  <2> QED  BY <1>2, <2>1, SelectDev
<1> HIDE DEF g
<1>4. f \in HwType /\ (~f.srst => f.sel = d)
  BY <1>2, <1>3, WriteDrive
<1> HIDE DEF f
<1>5. e \in HwType /\ e.srst = f.srst /\ e.sel = f.sel
  <2>1. 0 % 2^24 = 0
    OBVIOUS
  <2> QED  BY <1>4, <2>1, WriteAddress
<1> HIDE DEF e
<1>6. h \in HwType /\ h.srst = f.srst /\ h.sel = f.sel
  BY <1>5, WriteCommand
<1> HIDE DEF h
<1>7. CASE pc' = "dev" /\ d' = d + 1 /\ UNCHANGED <<ctlrs, hw>>
  <2>1. \A c \in Index : Live(c)' => Live(c)
    BY <1>1, <1>7 DEF Live
  <2>2. DmaInv' /\ DevsInv'
    BY <1>1, <1>7, <2>1, AllSame DEF DriverInv
  <2>3. AtaTyped'
    BY <1>1, <1>2, <1>7 DEF AtaTyped, AtDevice, InReset, AfterReset, Devs
  <2>4. ResetsPast'
    BY <1>1, <1>7, PastLater
  <2>5. DevInv' /\ SelectInv'
    BY <1>7 DEF DevInv, SelectInv, AtDevice, InReset, AfterReset
  <2> QED  BY <2>2, <2>3, <2>4, <2>5 DEF DriverInv
<1>8. CASE /\ ctlrs' = [ctlrs EXCEPT ![i].sel_dev = d] /\ hw' = [hw EXCEPT ![i] = h]
           /\ pc' = "wait_sector" /\ d' = d
  <2>1. Reg' = h /\ hw' \in [Index -> HwType]
    BY <1>1, <1>2, <1>6, <1>8 DEF Reg, AtaTyped
  <2>2. /\ DmaInv' /\ DevsInv' /\ (ctlrs \in [Index -> CtlrType \cup {NULL}])' /\ ctlrs'[i] \in CtlrType
        /\ ctlrs'[i].sel_dev = d /\ ctlrs'[i].devs = ctlrs[i].devs
    BY <1>1, <1>2, <1>8, SelStep
  <2>3. AtaTyped'
    BY <1>1, <1>2, <1>8, <2>1, <2>2 DEF AtaTyped, AtDevice, InReset, AfterReset
  <2>4. ResetsPast'
    BY <1>1, <1>8, PastLater DEF AfterReset
  <2>5. DevInv'
    BY <1>1, <1>8, <2>2 DEF DriverInv, DevInv, Dev, Ctlr, AtDevice, InReset, AfterReset
  <2>6. SelectInv'
    BY <1>1, <1>4, <1>6, <1>8, <2>1, <2>2 DEF SelectInv, Ctlr
  <2> QED  BY <2>2, <2>3, <2>4, <2>5, <2>6 DEF DriverInv
<1> QED  BY <1>1, <1>7, <1>8

LEMMA FindPartsStep ==
    ASSUME ScanInv, DriverInv, Settled, FindParts
    PROVE  DriverInv'
<1>1. PICK room \in 0 .. 4 :
        LET r == ptbl_parse(Table(inw(i)), room)
        IN  /\ r.ok => room = 4
            /\ ctlrs' = [ctlrs EXCEPT ![i].devs[d] = [Dev EXCEPT !.parts = r.list]]
            /\ fails' = IF r.ok THEN fails ELSE fails - 1
  BY DEF FindParts, SetDev
<1>2. /\ pc = "sector" /\ pc' = "dev" /\ d' = d + 1 /\ UNCHANGED <<i, resets>>
      /\ hw' = [hw EXCEPT ![i].cmd = NULL]
  BY DEF FindParts, Running, GoTo, NextDev
<1>3. /\ i \in Index /\ d \in Devs /\ ctlrs[i] \in CtlrType /\ hw[i] \in HwType /\ AtaTyped
      /\ Reg.sel = d
      /\ Dev \in DevType /\ ~Dev.use_dma /\ IdIsOwn(<<i, d>>, Dev, <<i, d>> \in resets)
  BY <1>2 DEF DriverInv, AtaTyped, SelectInv, DevInv, AtDevice, InReset, AfterReset
<1>4. Table(inw(i)) = Own(<<i, d>>) /\ <<i, d>> \in Drives
  <2>1. inw(i) = [from |-> <<i, d>>, lba |-> 0]
    BY <1>3 DEF inw, Reg, HwType
  <2> QED  BY <1>3, <2>1 DEF Own, Drives
<1> DEFINE r == ptbl_parse(Own(<<i, d>>), room)
           dev == [Dev EXCEPT !.parts = r.list]
           new == [ctlrs[i] EXCEPT !.devs[d] = dev]
<1>5. fails' = MaxFails => r.ok
  BY <1>1, <1>4, PciAssumption DEF ScanInv
<1>6. r \in [ok : BOOLEAN, list : Seq(Partitions)] /\ PartsAreOwn(<<i, d>>, r.list, fails' = MaxFails)
  <2>1. (fails' = MaxFails) \in BOOLEAN
    OBVIOUS
  <2> QED  BY <1>4, <1>5, <2>1, ParseSpec
<1>7. ctlrs' = [ctlrs EXCEPT ![i].devs[d] = dev]
  BY <1>1, <1>4
<1> HIDE DEF r
<1>8. dev \in DevType /\ dev.use_dma = Dev.use_dma /\ dev.parts = r.list /\ dev.id = Dev.id
  BY <1>3, <1>6 DEF DevType
<1> HIDE DEF dev
<1>9. /\ new \in CtlrType /\ new.busmaster = ctlrs[i].busmaster /\ new.prdt = ctlrs[i].prdt
      /\ new.devs = [ctlrs[i].devs EXCEPT ![d] = dev]
  BY <1>3, <1>8 DEF CtlrType
<1>10. ctlrs' = [ctlrs EXCEPT ![i] = new]
  BY <1>3, <1>7 DEF AtaTyped
<1> HIDE DEF new
<1>11. DevOk(<<i, d>>, dev, <<i, d>> \in resets, fails' = MaxFails)
  BY <1>3, <1>6, <1>8 DEF DevOk, IdIsOwn
<1>12. /\ DmaInv' /\ DevsInv' /\ (ctlrs \in [Index -> CtlrType \cup {NULL}])' /\ ctlrs'[i] = new
  BY <1>2, <1>3, <1>8, <1>9, <1>10, <1>11, DevStep
<1>13. hw' \in [Index -> HwType]
  BY <1>2, <1>3 DEF AtaTyped, HwType
<1>14. AtaTyped'
  BY <1>2, <1>3, <1>9, <1>12, <1>13 DEF AtaTyped, AtDevice, InReset, AfterReset, Devs
<1>15. ResetsPast'
  BY <1>2, PastLater
<1>16. DevInv' /\ SelectInv'
  BY <1>2 DEF DevInv, SelectInv, AtDevice, InReset, AfterReset
<1> QED  BY <1>12, <1>14, <1>15, <1>16 DEF DriverInv

LEMMA ReadFailedStep ==
    ASSUME ScanInv, DriverInv, Settled, ReadFailed
    PROVE  DriverInv'
<1>1. pc = "next" /\ pc' = "dev" /\ d' = d + 1 /\ UNCHANGED <<i, ctlrs, hw, resets>>
  BY DEF ReadFailed, Running, GoTo, NextDev
<1>2. \A c \in Index : Live(c)' => Live(c)
  BY <1>1 DEF Live
<1>3. DmaInv' /\ DevsInv'
  BY <1>1, <1>2, AllSame DEF DriverInv
<1>4. AtaTyped'
  BY <1>1 DEF DriverInv, AtaTyped, AtDevice, InReset, AfterReset, Devs
<1>5. ResetsPast'
  BY <1>1, PastLater
<1>6. DevInv' /\ SelectInv'
  BY <1>1 DEF DevInv, SelectInv, AtDevice, InReset, AfterReset
<1> QED  BY <1>3, <1>4, <1>5, <1>6 DEF DriverInv
(* The end of a controller. *)
LEMMA NoDevsStep ==
    ASSUME ScanInv, DriverInv, Settled, NoDevs
    PROVE  DriverInv'
<1> DEFINE new == [ctlrs[i] EXCEPT !.sem = 1]
<1>1. /\ pc = "dev" /\ pc' = "ctlr" /\ i' = i + 1 /\ d' = 0 /\ UNCHANGED <<hw, resets>>
      /\ ctlrs' = [ctlrs EXCEPT ![i].sem = 1]
  BY DEF NoDevs, Running, GoTo, NextCtlr
<1>2. i \in Index /\ ctlrs[i] \in CtlrType /\ AtaTyped /\ DmaInv /\ DevsInv
  BY <1>1 DEF DriverInv, AtaTyped
<1>3. /\ new \in CtlrType /\ new.busmaster = ctlrs[i].busmaster /\ new.prdt = ctlrs[i].prdt
      /\ new.devs = ctlrs[i].devs
  BY <1>2 DEF CtlrType
<1>4. ctlrs' = [ctlrs EXCEPT ![i] = new]
  BY <1>1, <1>2 DEF AtaTyped
<1> HIDE DEF new
<1>5. DmaOk(i, ctlrs[i])
  BY <1>1, <1>2 DEF DmaInv, Live
<1>6. DmaOk(i, new)
  BY <1>3, <1>5, DmaSame
<1>7. \A n \in Devs : new.devs[n] # NULL => DevOk(<<i, n>>, new.devs[n], <<i, n>> \in resets, fails' = MaxFails)
  BY <1>1, <1>2, <1>3, OwnDevs
<1>8. DmaInv' /\ DevsInv' /\ (ctlrs \in [Index -> CtlrType \cup {NULL}])'
  BY <1>1, <1>2, <1>3, <1>4, <1>6, <1>7, CtlrChanges
<1>9. AtaTyped'
  BY <1>1, <1>2, <1>8, AtaAssumption DEF AtaTyped, AtDevice, InReset, AfterReset, Index
<1>10. ResetsPast'
  BY <1>1, PastLater
<1>11. DevInv' /\ SelectInv'
  BY <1>1 DEF DevInv, SelectInv, AtDevice, InReset, AfterReset
<1> QED  BY <1>8, <1>9, <1>10, <1>11 DEF DriverInv

LEMMA SomeDevsStep ==
    ASSUME ScanInv, DriverInv, Settled, SomeDevs
    PROVE  DriverInv'
<1>1. /\ pc = "dev" /\ pc' = "prdt" /\ UNCHANGED <<i, d, ctlrs, resets>>
      /\ hw' = [hw EXCEPT ![i] = outb(i, @, "ATA_CTL", "NONE")]
  BY DEF SomeDevs, Running, GoTo
<1>2. i \in Index /\ hw[i] \in HwType /\ AtaTyped
  BY <1>1 DEF DriverInv, AtaTyped
<1>3. hw' \in [Index -> HwType]
  BY <1>1, <1>2, WriteControl DEF AtaTyped
<1>4. \A c \in Index : Live(c)' => Live(c)
  BY <1>1 DEF Live
<1>5. DmaInv' /\ DevsInv'
  BY <1>1, <1>4, AllSame DEF DriverInv
<1>6. AtaTyped'
  BY <1>1, <1>2, <1>3 DEF AtaTyped, AtDevice, InReset, AfterReset
<1>7. ResetsPast'
  BY <1>1, PastLater DEF AfterReset
<1>8. DevInv' /\ SelectInv'
  BY <1>1 DEF DevInv, SelectInv, AtDevice, InReset, AfterReset
<1> QED  BY <1>5, <1>6, <1>7, <1>8 DEF DriverInv

LEMMA PrdtMadeStep ==
    ASSUME ScanInv, DriverInv, Settled, PrdtMade
    PROVE  DriverInv'
<1>1. PICK tmp \in Addresses, capable \in SUBSET Devs :
        /\ InOnePage(PrdtAt(tmp))
        /\ Bar4 = 0 => capable = {}
        /\ ctlrs' = [ctlrs EXCEPT ![i].prdt = PrdtAt(tmp),
                                  ![i].busmaster = IF Bar4 = 0 THEN 0 ELSE Bar4 - (Bar4 % 16) + 8 * (i % 2),
                                  ![i].devs = [n \in Devs |-> SetUse(n, n \in capable)]]
  BY DEF PrdtMade, ata_prdt_new
<1>2. pc = "prdt" /\ pc' = "ctlr" /\ i' = i + 1 /\ d' = 0 /\ UNCHANGED <<hw, resets>>
  BY DEF PrdtMade, Running, GoTo, NextCtlr
<1>3. i \in Index /\ i \in Nat /\ ctlrs[i] \in CtlrType /\ AtaTyped /\ DmaInv /\ DevsInv
  BY <1>2 DEF DriverInv, AtaTyped, Index
<1> DEFINE master == IF Bar4 = 0 THEN 0 ELSE Bar4 - (Bar4 % 16) + 8 * (i % 2)
           devs == [n \in Devs |-> SetUse(n, n \in capable)]
           new == [ctlrs[i] EXCEPT !.prdt = PrdtAt(tmp), !.busmaster = master, !.devs = devs]
<1>4. Bar4 # 0 => 1 + (i \div 2) \in DOMAIN ide_ctlrs /\ Bar4 = Master(i) /\ Bar4 \in Nat
  <2> SUFFICES ASSUME Bar4 # 0
               PROVE  1 + (i \div 2) \in DOMAIN ide_ctlrs /\ Bar4 = Master(i) /\ Bar4 \in Nat
    OBVIOUS
  <2> DEFINE k == 1 + (i \div 2)
  <2>1. ide # NULL /\ Bar4 = ide.bar4
    BY DEF Bar4
  <2>2. ~(Len(ide_ctlrs) < k) /\ ide = ide_ctlrs[k]
    BY <2>1 DEF ide
  <2>3. i \div 2 \in Nat
    BY <1>3
  <2>4. k \in DOMAIN ide_ctlrs
    BY <2>2, <2>3 DEF ScanInv
  <2>5. ide_ctlrs[k].bar4 \in Nat
    BY <2>4, MastersApart
  <2> QED  BY <2>1, <2>2, <2>4, <2>5 DEF Master
<1>5. master \in Nat
  BY <1>3, <1>4
<1>6. PrdtAt(tmp) \in Nat
  BY AtaAssumption DEF PrdtAt
<1>7. devs \in [Devs -> DevType \cup {NULL}]
  <2>1. \A n \in Devs : SetUse(n, n \in capable) \in DevType \cup {NULL}
    <3> SUFFICES ASSUME NEW n \in Devs, ctlrs[i].devs[n] # NULL
                 PROVE  [ctlrs[i].devs[n] EXCEPT !.use_dma = (n \in capable)] \in DevType
      BY DEF SetUse, Ctlr
    <3>1. ctlrs[i].devs[n] \in DevType /\ (n \in capable) \in BOOLEAN
      BY <1>3 DEF CtlrType
    <3> QED  BY <3>1 DEF DevType
  <2> QED  BY <2>1
<1>8. \A n \in Devs : devs[n] # NULL =>
         /\ ctlrs[i].devs[n] # NULL /\ ctlrs[i].devs[n] \in DevType
         /\ devs[n] = [ctlrs[i].devs[n] EXCEPT !.use_dma = (n \in capable)]
  BY <1>3 DEF SetUse, Ctlr, CtlrType
<1> HIDE DEF devs
<1>9. \A n \in Devs : devs[n] # NULL =>
         /\ devs[n].parts = ctlrs[i].devs[n].parts /\ devs[n].id = ctlrs[i].devs[n].id
         /\ devs[n].use_dma = (n \in capable)
  BY <1>8 DEF DevType
<1>10. ctlrs' = [ctlrs EXCEPT ![i] = new]
  <2> HIDE DEF master
  <2>1. ctlrs' = [ctlrs EXCEPT ![i].prdt = PrdtAt(tmp), ![i].busmaster = master, ![i].devs = devs]
    BY <1>1 DEF master, devs
  <2> QED  BY <1>3, <2>1 DEF AtaTyped
<1>11. new \in CtlrType /\ new.prdt = PrdtAt(tmp) /\ new.busmaster = master /\ new.devs = devs
  <2> HIDE DEF master
  <2> QED  BY <1>3, <1>5, <1>6, <1>7 DEF CtlrType
<1> HIDE DEF new
<1>12. DmaOk(i, new)
  <2>1. MadeTable(new.prdt)
    BY <1>1, <1>11 DEF MadeTable
  <2>2. CASE Bar4 = 0
    <3>1. ~UsesDma(new)
      BY <1>1, <1>9, <1>11, <2>2 DEF UsesDma
    <3>2. new.busmaster = 0
      BY <1>11, <2>2
    <3> QED  BY <2>1, <3>1, <3>2 DEF DmaOk
  <2>3. CASE Bar4 # 0
    <3>1. HasMaster(i, new)
      BY <1>4, <1>11, <2>3 DEF HasMaster
    <3> QED  BY <2>1, <3>1 DEF DmaOk
  <2> QED  BY <2>2, <2>3
<1>13. \A n \in Devs : new.devs[n] # NULL => DevOk(<<i, n>>, new.devs[n], <<i, n>> \in resets, fails' = MaxFails)
  <2> SUFFICES ASSUME NEW n \in Devs, devs[n] # NULL
               PROVE  DevOk(<<i, n>>, devs[n], <<i, n>> \in resets, fails' = MaxFails)
    BY <1>11
  <2>1. DevOk(<<i, n>>, ctlrs[i].devs[n], <<i, n>> \in resets, fails' = MaxFails)
    BY <1>2, <1>3, <1>8, OwnDevs
  <2> QED  BY <1>9, <2>1 DEF DevOk, IdIsOwn
<1>14. DmaInv' /\ DevsInv' /\ (ctlrs \in [Index -> CtlrType \cup {NULL}])'
  BY <1>2, <1>3, <1>10, <1>11, <1>12, <1>13, CtlrChanges
<1>15. AtaTyped'
  BY <1>2, <1>3, <1>14, AtaAssumption DEF AtaTyped, AtDevice, InReset, AfterReset, Index
<1>16. ResetsPast'
  BY <1>2, PastLater
<1>17. DevInv' /\ SelectInv'
  BY <1>2 DEF DevInv, SelectInv, AtDevice, InReset, AfterReset
<1> QED  BY <1>14, <1>15, <1>16, <1>17 DEF DriverInv

(* What the driver leaves alone. *)
LEMMA AtaSettles ==
    ASSUME ScanInv, AtaNext, machine' = machine
    PROVE  Settled /\ boot = "ata" /\ boot' \in {"ata", "thr", "halted"}
<1>1. ata_ctlr_wait_bsy \/ ata_ctlr_wait_not_bsy \/ ata_ctlr_wait_rdy \/ ata_ctlr_wait_drq =>
         boot = "ata" /\ UNCHANGED <<boot, fails, pciVars>>
  BY DEF ata_ctlr_wait_bsy, ata_ctlr_wait_not_bsy, ata_ctlr_wait_rdy, ata_ctlr_wait_drq, Poll, Running
<1>2. ResetStart \/ ResetRelease \/ ResetDone \/ Identify \/ Identified \/ NotIdentified =>
         boot = "ata" /\ UNCHANGED <<boot, fails, pciVars>>
  BY DEF ResetStart, ResetRelease, ResetDone, Identify, Identified, NotIdentified, Running
<1>3. CtlrAbsent \/ CtlrNew \/ DevProbe \/ ReadFailed \/ NoDevs \/ SomeDevs =>
         boot = "ata" /\ UNCHANGED <<boot, fails, pciVars>>
  BY DEF CtlrAbsent, CtlrNew, DevProbe, ReadFailed, NoDevs, SomeDevs, Running
<1>4. PrdtRejected \/ PrdtMade => boot = "ata" /\ UNCHANGED <<boot, fails, pciVars>>
  BY DEF PrdtRejected, PrdtMade, Running
<1>5. ata_pio_lba28_read \/ FindParts =>
         boot = "ata" /\ UNCHANGED <<boot, pciVars>> /\ (fails' = fails \/ fails' = fails - 1)
  BY DEF ata_pio_lba28_read, FindParts, Running
<1>6. AtaPanics \/ AllFound \/ PrdtTriesOut =>
         boot = "ata" /\ boot' \in {"thr", "halted"} /\ UNCHANGED pciVars /\ (fails' = fails \/ fails' = fails - 1)
  BY DEF AtaPanics, AllFound, PrdtTriesOut, Running
<1>7. boot = "ata" /\ boot' \in {"ata", "thr", "halted"} /\ UNCHANGED pciVars /\ (fails' = fails \/ fails' = fails - 1)
  BY <1>1, <1>2, <1>3, <1>4, <1>5, <1>6 DEF AtaNext
<1> QED  BY <1>7 DEF Settled, ScanInv

LEMMA AtaStep ==
    ASSUME ScanInv, DriverInv, AtaNext, machine' = machine
    PROVE  ScanInv' /\ DriverInv' /\ boot' \in {"ata", "thr", "halted"}
<1>1. Settled /\ boot = "ata" /\ boot' \in {"ata", "thr", "halted"}
  BY AtaSettles
<1>2. ScanInv'
  BY <1>1, ScanSettled
<1>3. DriverInv'
  <2>1. CASE AtaPanics \/ AllFound \/ PrdtTriesOut \/ PrdtRejected
    BY <1>1, <2>1, DriverSame DEF AtaPanics, AllFound, PrdtTriesOut, PrdtRejected, ataVars
  <2>2. CASE ata_ctlr_wait_bsy \/ ata_ctlr_wait_not_bsy \/ ata_ctlr_wait_rdy \/ ata_ctlr_wait_drq
    BY <1>1, <2>2, Waits, PolledStep
  <2>3. CASE ResetStart \/ ResetRelease \/ ResetDone
    BY <1>1, <2>3, ResetStartStep, ResetReleaseStep, ResetDoneStep
  <2>4. CASE CtlrAbsent \/ CtlrNew \/ DevProbe
    BY <1>1, <2>4, CtlrAbsentStep, CtlrNewStep, DevProbeStep
  <2>5. CASE Identify \/ Identified \/ NotIdentified
    BY <1>1, <2>5, IdentifyStep, IdentifiedStep, NotIdentifiedStep
  <2>6. CASE ata_pio_lba28_read \/ FindParts \/ ReadFailed
    BY <1>1, <2>6, ReadStep, FindPartsStep, ReadFailedStep
  <2>7. CASE NoDevs \/ SomeDevs \/ PrdtMade
    BY <1>1, <2>7, NoDevsStep, SomeDevsStep, PrdtMadeStep
  <2> QED  BY <2>1, <2>2, <2>3, <2>4, <2>5, <2>6, <2>7 DEF AtaNext
<1> QED  BY <1>1, <1>2, <1>3

-----------------------------------------------------------------------------
(* The order of main.  Once the disks are found it does not go back. *)
LEMMA PhaseAfter ==
    /\ After("thr") \in {"vfs", "fault"}
    /\ After("vfs") \in {"booted", "fault"}
<1>1. DOMAIN Phases = 1 .. 14
  BY DEF Phases
<1>2. Position("thr") = 12
  <2>1. 12 \in DOMAIN Phases /\ Phases[12] = "thr"
    BY DEF Phases
  <2>2. \A k \in DOMAIN Phases : Phases[k] = "thr" => k = 12
    BY <1>1 DEF Phases
  <2> QED  BY <2>1, <2>2 DEF Position
<1>3. Position("vfs") = 13
  <2>1. 13 \in DOMAIN Phases /\ Phases[13] = "vfs"
    BY DEF Phases
  <2>2. \A k \in DOMAIN Phases : Phases[k] = "vfs" => k = 13
    BY <1>1 DEF Phases
  <2> QED  BY <2>1, <2>2 DEF Position
<1>4. Phases[12 + 1] = "vfs" /\ Phases[13 + 1] = "booted"
  BY DEF Phases
<1> QED  BY <1>2, <1>3, <1>4 DEF After

LEMMA InvInit == DisksInit => DisksInv
<1> SUFFICES ASSUME DisksInit PROVE DisksInv
  OBVIOUS
<1>1. /\ machine \in Machines /\ fails = MaxFails /\ at = <<0, 0>> /\ ide_ctlrs = <<>>
      /\ pc = "ctlr" /\ i = 0 /\ d = 0 /\ ctlrs = [c \in Index |-> NULL] /\ resets = {}
      /\ hw = [c \in Index |-> [sel |-> 0, srst |-> FALSE, cmd |-> NULL, lba |-> 0]]
  BY DEF DisksInit, PciInit, AtaInit
<1>2. ScanInv
  BY <1>1, PciAssumption DEF ScanInv
<1>3. AtaTyped /\ ResetsPast
  BY <1>1, AtaAssumption DEF AtaTyped, ResetsPast, HwType, Devs
<1>4. DevInv /\ SelectInv
  BY <1>1 DEF DevInv, SelectInv, AtDevice, InReset, AfterReset
<1>5. DmaInv /\ DevsInv
  BY <1>1 DEF DmaInv, DevsInv, Live
<1> QED  BY <1>1, <1>2, <1>3, <1>4, <1>5 DEF DisksInv, DriverInv

LEMMA InvStep == DisksInv /\ [DisksNext]_vars => DisksInv'
<1> SUFFICES ASSUME DisksInv, [DisksNext]_vars PROVE DisksInv'
  OBVIOUS
<1>1. ScanInv /\ DriverInv /\ (boot \in BeforeDisks => pc = "ctlr" /\ ctlrs = [c \in Index |-> NULL])
  BY DEF DisksInv
<1>2. ASSUME Settled, UNCHANGED ataVars, boot \in BeforeDisks \/ boot' \notin BeforeDisks
      PROVE  DisksInv'
  <2>1. ScanInv' /\ DriverInv'
    BY <1>1, <1>2, ScanSettled, DriverSame DEF ataVars
  <2> QED  BY <1>1, <1>2, <2>1 DEF DisksInv, ataVars
<1>3. fails \in Int
  BY <1>1 DEF ScanInv
<1>4. CASE (InitTables \/ InitMemory) /\ UNCHANGED <<machine, pciVars, ataVars, halVars>>
  <2>1. Settled
    BY <1>3, <1>4 DEF InitTables, InitMemory, Settled
  <2>2. boot \in BeforeDisks \/ boot' \notin BeforeDisks
    BY <1>4, PhaseAfter DEF InitTables, InitMemory, Tables, BeforeDisks
  <2> QED  BY <1>2, <1>4, <2>1, <2>2
<1>5. CASE PciNext /\ UNCHANGED <<ataVars, halVars>>
  <2>1. boot = "pci"
    BY <1>5 DEF PciNext, PciAbsent, PciFound, PciPanics, PciDone
  <2>2. pc = "ctlr" /\ ctlrs = [c \in Index |-> NULL]
    BY <1>1, <2>1 DEF BeforeDisks
  <2>3. ScanInv'
    BY <1>1, <1>5, <2>1, ScanStep
  <2>4. DmaInv' /\ DevsInv'
    BY <1>5, <2>2 DEF DmaInv, DevsInv, Live, ataVars
  <2>5. AtaTyped' /\ ResetsPast'
    BY <1>1, <1>5 DEF DriverInv, AtaTyped, ResetsPast, ataVars
  <2>6. DevInv' /\ SelectInv'
    BY <1>5, <2>2 DEF DevInv, SelectInv, ataVars, AtDevice, InReset, AfterReset
  <2> QED  BY <1>5, <2>2, <2>3, <2>4, <2>5, <2>6 DEF DisksInv, DriverInv, ataVars
<1>6. CASE AtaNext /\ UNCHANGED <<machine, halVars>>
  BY <1>1, <1>6, AtaStep DEF DisksInv, BeforeDisks
<1>7. CASE (VfsInit \/ VfsPanics) /\ UNCHANGED <<machine, pciVars, ataVars>>
  <2>1. fails' = fails \/ fails' = fails - 1
    BY <1>7 DEF VfsInit, VfsPanics
  <2>3. Settled
    BY <1>3, <1>7, <2>1 DEF Settled
  <2>2. boot' \notin BeforeDisks
    BY <1>7, PhaseAfter DEF VfsInit, VfsPanics, BeforeDisks
  <2> QED  BY <1>2, <1>7, <2>2, <2>3
<1>8. CASE UNCHANGED vars
  <2>1. Settled
    BY <1>3, <1>8 DEF vars, Settled
  <2> QED  BY <1>2, <1>8, <2>1 DEF vars
<1> QED  BY <1>4, <1>5, <1>6, <1>7, <1>8 DEF DisksNext

LEMMA InvAlways == DisksSpec => []DisksInv
BY InvInit, InvStep, PTL DEF DisksSpec

-----------------------------------------------------------------------------
(* Whatever is plugged in and however late or wrong it answers, the         *)
(* partitions the driver lists for a device are those in the device's own  *)
(* table, and if its reset succeeded what IDENTIFY said is the device's    *)
(* own: the driver's idea of the selected device is put right after a      *)
(* reset, and where it is not a held reset keeps data away (ata.c:228-601). *)
THEOREM DevicesAreThemselvesAlways == DisksSpec => []DevicesAreThemselves
<1>1. DisksInv => DevicesAreThemselves
  <2> SUFFICES ASSUME DisksInv, NEW x \in Found
               PROVE  /\ PartsAreOwn(x, DevOf(x).parts, fails = MaxFails)
                      /\ DevOf(x).id # NULL /\ x \in resets => DevOf(x).id = x
    BY DEF DevicesAreThemselves
  <2>1. x[1] \in Index /\ x[2] \in Devs /\ x = <<x[1], x[2]>> /\ ctlrs[x[1]] # NULL /\ DevOf(x) # NULL
    BY DEF Found
  <2>2. DevOk(<<x[1], x[2]>>, DevOf(x), <<x[1], x[2]>> \in resets, fails = MaxFails)
    BY <2>1 DEF DisksInv, DriverInv, DevsInv, Live, DevOf
  <2>3. DevOk(x, DevOf(x), x \in resets, fails = MaxFails)
    BY <2>1, <2>2
  <2> QED  BY <2>3 DEF DevOk, IdIsOwn
<1> QED  BY <1>1, InvAlways, PTL

(* The table is aligned if kmalloc's address was even.                      *)
LEMMA TableAligned ==
    ASSUME NEW tmp \in Nat
    PROVE  PrdtAt(tmp) \in tmp .. tmp + 3 /\ (Aligned(PrdtAt(tmp)) <=> tmp % 2 = 0)
BY DEF PrdtAt, Aligned

(* Whoever is to use DMA has the bus master of its IDE controller and its   *)
(* own channel, which no other has if the controller was given an address  *)
(* for it, and a descriptor table with the two entries in use in one page, *)
(* aligned exactly if kmalloc's address was even, wherever memory is found *)
(* (ata.c:97-149, 159-220).                                                *)
THEOREM DmaHasBusmasterAlways == DisksSpec => []DmaHasBusmaster
<1>1. DisksInv => DmaHasBusmaster
  <2> SUFFICES ASSUME DisksInv, NEW x \in Found, DevOf(x).use_dma
               PROVE  OwnBusmaster(x[1], ctlrs[x[1]]) /\ PrdtUsable(ctlrs[x[1]].prdt)
    BY DEF DmaHasBusmaster
  <2> DEFINE a == x[1]
             c == ctlrs[a]
             M(o) == ide_ctlrs[1 + (o \div 2)].bar4
             Is(o) == /\ 1 + (o \div 2) \in DOMAIN ide_ctlrs /\ M(o) # 0
                      /\ ctlrs[o].busmaster = M(o) - (M(o) % 16) + 8 * (o % 2)
  <2>1. /\ a \in Index /\ a \in Nat /\ x[2] \in Devs /\ c # NULL /\ c.devs[x[2]] # NULL /\ c.devs[x[2]].use_dma
        /\ c \in CtlrType
    BY DEF Found, DevOf, Index, DisksInv, DriverInv, AtaTyped
  <2>2. \A o \in Index : ctlrs[o] # NULL => Is(o) \/ ctlrs[o].busmaster = 0
    BY DEF DisksInv, DriverInv, DmaInv, DmaOk, HasMaster, Master, Live
  <2>3. Is(a) /\ MadeTable(c.prdt)
    <3>1. UsesDma(c) /\ DmaOk(a, c)
      BY <2>1 DEF UsesDma, DisksInv, DriverInv, DmaInv, Live
    <3> QED  BY <3>1 DEF DmaOk, HasMaster, Master
  <2>4. \A o \in Index : Is(o) => M(o) \in Nat
    BY MastersApart DEF DisksInv
  <2>5. \A o \in Index : Is(o) => /\ ctlrs[o].busmaster = 16 * (M(o) \div 16) + 8 * (o % 2)
                                  /\ M(o) \div 16 \in Nat /\ o % 2 \in {0, 1}
    <3> SUFFICES ASSUME NEW o \in Index, Is(o)
                 PROVE  /\ ctlrs[o].busmaster = 16 * (M(o) \div 16) + 8 * (o % 2)
                        /\ M(o) \div 16 \in Nat /\ o % 2 \in {0, 1}
      OBVIOUS
    <3> DEFINE m == M(o)
               q == m \div 16
               r == m % 16
               b == o % 2
    <3>1. m \in Nat
      BY <2>4
    <3>2. ctlrs[o].busmaster = m - r + 8 * b
      OBVIOUS
    <3>3. b \in {0, 1}
      BY DEF Index
    <3> HIDE DEF m
    <3>4. q \in Nat /\ r \in 0 .. 15 /\ m = q * 16 + r
      BY <3>1
    <3> HIDE DEF q, r, b
    <3>5. m - r + 8 * b = 16 * q + 8 * b
      BY <3>1, <3>3, <3>4
    <3> QED  BY <3>2, <3>3, <3>4, <3>5 DEF m, q, b
  <2>7. M(a) \div 16 # 0 => c.busmaster >= 16
    <3>1. c.busmaster = 16 * (M(a) \div 16) + 8 * (a % 2) /\ M(a) \div 16 \in Nat /\ a % 2 \in {0, 1}
      BY <2>1, <2>3, <2>5
    <3> DEFINE q == M(a) \div 16
               b == a % 2
    <3> HIDE DEF q, b
    <3>2. c.busmaster = 16 * q + 8 * b /\ q \in Nat /\ b \in {0, 1}
      BY <3>1 DEF q, b
    <3>3. q # 0 => c.busmaster >= 16
      BY <3>2
    <3> QED  BY <3>3 DEF q
  <2>8. ASSUME M(a) \div 16 # 0, NEW o \in Index \ {a}, ctlrs[o] # NULL PROVE ctlrs[o].busmaster # c.busmaster
    <3>1. CASE ctlrs[o].busmaster = 0
      BY <2>7, <2>8, <3>1
    <3>2. CASE Is(o)
      <4> DEFINE q == M(o) \div 16
                 r == M(a) \div 16
                 b == o % 2
                 e == a % 2
      <4>1. /\ ctlrs[o].busmaster = 16 * q + 8 * b /\ q \in Nat /\ b \in {0, 1}
            /\ c.busmaster = 16 * r + 8 * e /\ r \in Nat /\ e \in {0, 1}
        BY <2>1, <2>3, <2>5, <3>2
      <4>2. o \in Nat /\ o # a
        BY DEF Index
      <4>3. o \div 2 = a \div 2 => b # e
        BY <2>1, <4>2
      <4>4. o \div 2 = a \div 2 => q = r
        OBVIOUS
      <4>5. o \div 2 # a \div 2 => q # r
        <5> SUFFICES ASSUME o \div 2 # a \div 2 PROVE q # r
          OBVIOUS
        <5> DEFINE k == 1 + (a \div 2)
                   m == 1 + (o \div 2)
        <5>1. k # m
          BY <2>1, <4>2
        <5>2. k \in DOMAIN ide_ctlrs /\ m \in DOMAIN ide_ctlrs /\ ide_ctlrs[k].bar4 \div 16 # 0
          BY <2>3, <2>8, <3>2
        <5> HIDE DEF k, m
        <5>3. ide_ctlrs[k].bar4 \div 16 # ide_ctlrs[m].bar4 \div 16
          BY <5>1, <5>2, MastersApart DEF DisksInv
        <5> QED  BY <5>3 DEF k, m
      <4> HIDE DEF q, r, b, e
      <4>6. q # r \/ b # e
        BY <4>3, <4>4, <4>5
      <4> QED  BY <4>1, <4>6
    <3>3. Is(o) \/ ctlrs[o].busmaster = 0
      BY <2>2, <2>8
    <3> HIDE DEF Is
    <3> QED  BY <3>1, <3>2, <3>3
  <2>9. c.prdt \div PAGE = (c.prdt + 2 * PRD - 1) \div PAGE
    <3>1. c.prdt \in Nat /\ PAGE \in Nat /\ PAGE > 0 /\ PRD \in Nat /\ PRD > 0
      BY <2>1, AtaAssumption DEF CtlrType
    <3> DEFINE e == 2 * PRD - 1
    <3>2. e \in Nat /\ c.prdt + e = c.prdt + 2 * PRD - 1
      BY <3>1
    <3>3. (c.prdt % PAGE) + e < PAGE
      <4>1. c.prdt % PAGE \in Nat
        BY <3>1
      <4> QED  BY <2>3, <3>1, <4>1 DEF InOnePage, MadeTable
    <3> DEFINE p == c.prdt
    <3> HIDE DEF e, p
    <3>4. p \in Nat /\ (p % PAGE) + e < PAGE
      BY <3>1, <3>3 DEF p
    <3>5. (p + e) \div PAGE = p \div PAGE
      BY <3>1, <3>2, <3>4, SamePage
    <3>6. p + e = c.prdt + 2 * PRD - 1
      BY <3>2 DEF p
    <3> QED  BY <3>5, <3>6 DEF p
  <2>10. PrdtUsable(c.prdt)
    <3>1. PICK tmp \in Addresses : c.prdt = PrdtAt(tmp)
      BY <2>3 DEF MadeTable
    <3>2. tmp \in Nat
      BY AtaAssumption
    <3>3. PrdtAt(tmp) \in tmp .. tmp + 3 /\ (Aligned(PrdtAt(tmp)) <=> tmp % 2 = 0)
      BY <3>2, TableAligned
    <3> QED  BY <2>9, <3>1, <3>3 DEF PrdtUsable
  <2>11. OwnBusmaster(a, c)
    <3> DEFINE k == 1 + (a \div 2)
               address == 16 * (M(a) \div 16)
    <3>1. k \in DOMAIN ide_ctlrs /\ ide_ctlrs[k].bar4 # 0
      BY <2>3
    <3>2. c.busmaster = address + 8 * (a % 2)
      BY <2>1, <2>3, <2>5
    <3>3. address # 0 => \A o \in Index \ {a} : ctlrs[o] # NULL => ctlrs[o].busmaster # c.busmaster
      BY <2>8
    <3> HIDE DEF Is, c
    <3> QED  BY <3>1, <3>2, <3>3 DEF OwnBusmaster
  <2> QED  BY <2>10, <2>11
<1> QED  BY <1>1, InvAlways, PTL

-----------------------------------------------------------------------------
(* The scan.  What it has listed is what the slots it has looked at have,  *)
(* up to their gaps, before the place it is at, all of it as long as no    *)
(* memory was lacking; it is done before the disks are looked for.          *)
AllListed ==
    /\ {Place(dev) : dev \in Listed(pci_devs)} = {l \in Reachable : Before(l, at)}
    /\ Listed(ide_ctlrs) = {dev \in Listed(pci_devs) : IsIde(dev)}
    /\ pci_tree = IF pci_devs = <<>> THEN NULL ELSE pci_devs
AfterBus == {"ata", "thr", "vfs", "booted"}
FoundInv ==
    /\ pci_devs \in Seq(BusDevs(machine))
    /\ \A dev \in Listed(pci_devs) : Before(Place(dev), at)
    /\ InBusOrder(pci_devs)
    /\ at \in (0 .. SLOTS) \X (0 .. FUNCS - 1)
    /\ \A g \in 0 .. at[2] - 1 : inl(<<at[1], g>>) # NULL
    /\ fails = MaxFails => AllListed
    /\ boot \in AfterBus => at[1] = SLOTS

(* A description is of its place. *)
LEMMA BusDevSpec ==
    ASSUME NEW m, NEW dev \in BusDevs(m)
    PROVE  /\ Place(dev) \in Nat \X Nat /\ Place(dev) \in DOMAIN m.pci /\ m.pci[Place(dev)] # NULL
           /\ dev.bar4 \in {0, m.pci[Place(dev)].bar4}
<1>1. PICK l \in BusPlaces(m) : dev = pci_dev_t(l[1], l[2], m.pci[l])
  BY DEF BusDevs
<1>2. l \in DOMAIN m.pci /\ l \in Nat \X Nat /\ m.pci[l] # NULL /\ l = <<l[1], l[2]>>
  BY DEF BusPlaces
<1>3. dev.slot = l[1] /\ dev.func = l[2] /\ dev.bar4 \in {0, m.pci[l].bar4}
  BY <1>1 DEF pci_dev_t
<1> QED  BY <1>2, <1>3 DEF Place

LEMMA ListedAppend ==
    ASSUME NEW S, NEW s \in Seq(S), NEW x
    PROVE  Listed(Append(s, x)) = Listed(s) \cup {x}
<1> DEFINE L == Len(s)
           t == Append(s, x)
<1>1. L \in Nat /\ DOMAIN s = 1 .. L /\ DOMAIN t = 1 .. L + 1 /\ t[L + 1] = x /\ \A k \in 1 .. L : t[k] = s[k]
  OBVIOUS
<1> HIDE DEF L, t
<1>2. 1 .. L + 1 = (1 .. L) \cup {L + 1}
  BY <1>1
<1>3. Listed(t) = Listed(s) \cup {x}
  BY <1>1, <1>2 DEF Listed
<1> QED  BY <1>3 DEF t

(* What the scan sees at its place. *)
LEMMA SeenHere ==
    ASSUME machine \in Machines, at \in Nat \X Nat
    PROVE  LET dev == pci_dev_get_info(at[1], at[2])
           IN  /\ dev = NULL <=> inl(at) = NULL
               /\ dev # NULL => dev \in BusDevs(machine) /\ Place(dev) = at
<1> DEFINE h == inl(at)
           dev == pci_dev_t(at[1], at[2], h)
<1>1. at = <<at[1], at[2]>>
  OBVIOUS
<1>2. pci_dev_get_info(at[1], at[2]) = IF h = NULL THEN NULL ELSE dev
  BY <1>1 DEF pci_dev_get_info, pci_config_read, outl
<1>3. h # NULL => at \in DOMAIN machine.pci /\ h = machine.pci[at]
  BY DEF inl
<1>4. Place(dev) = at
  BY <1>1 DEF Place, pci_dev_t
<1> HIDE DEF h
<1>5. h # NULL => dev \in BusDevs(machine)
  BY <1>3 DEF BusDevs, BusPlaces
<1> HIDE DEF dev
<1>6. NULL \notin BusDevs(machine)
  BY DisksAssumption
<1>7. h # NULL => dev # NULL
  BY <1>5, <1>6
<1> QED  BY <1>2, <1>4, <1>5, <1>7 DEF h

(* The next place. *)
LEMMA NextPlaces ==
    ASSUME at \in (0 .. SLOTS) \X (0 .. FUNCS - 1), at[1] < SLOTS,
           \A g \in 0 .. at[2] - 1 : inl(<<at[1], g>>) # NULL
    PROVE  /\ NextSlot \in (0 .. SLOTS) \X (0 .. FUNCS - 1) /\ NextFunc \in (0 .. SLOTS) \X (0 .. FUNCS - 1)
           /\ \A l \in Nat \X Nat : Before(l, at) => Before(l, NextSlot) /\ Before(l, NextFunc)
           /\ Before(at, NextFunc)
           /\ inl(at) = NULL => {l \in Reachable : Before(l, NextSlot)} = {l \in Reachable : Before(l, at)}
           /\ inl(at) # NULL =>
                 /\ {l \in Reachable : Before(l, NextFunc)} = {l \in Reachable : Before(l, at)} \cup {at}
                 /\ \A g \in 0 .. NextFunc[2] - 1 : inl(<<NextFunc[1], g>>) # NULL
<1> DEFINE s == at[1]
           f == at[2]
<1>0. SLOTS \in Nat /\ FUNCS \in Nat \ {0}
  BY PciAssumption
<1>1. s \in 0 .. SLOTS - 1 /\ f \in 0 .. FUNCS - 1 /\ at = <<s, f>>
  BY <1>0
<1>2. NextSlot = <<s + 1, 0>> /\ NextFunc = IF f + 1 < FUNCS THEN <<s, f + 1>> ELSE <<s + 1, 0>>
  BY DEF NextSlot, NextFunc
<1>3. \A g \in 0 .. f - 1 : inl(<<s, g>>) # NULL
  OBVIOUS
<1> HIDE DEF s, f
<1>4. NextSlot \in (0 .. SLOTS) \X (0 .. FUNCS - 1) /\ NextFunc \in (0 .. SLOTS) \X (0 .. FUNCS - 1)
  BY <1>0, <1>1, <1>2
<1>5. \A l \in Nat \X Nat : Before(l, at) => Before(l, NextSlot) /\ Before(l, NextFunc)
  BY <1>0, <1>1, <1>2 DEF Before
<1>6. Before(at, NextFunc)
  BY <1>0, <1>1, <1>2 DEF Before
<1>7. \A l \in Reachable : l = <<l[1], l[2]>> /\ l[1] \in 0 .. SLOTS - 1 /\ l[2] \in 0 .. FUNCS - 1 /\ Reached(l[1], l[2])
  BY DEF Reachable
<1>8. \A l \in Reachable : l \in Nat \X Nat
  BY <1>0, <1>7
<1>9. ASSUME inl(at) = NULL
      PROVE  {l \in Reachable : Before(l, NextSlot)} = {l \in Reachable : Before(l, at)}
  <2> SUFFICES ASSUME NEW l \in Reachable, Before(l, NextSlot) PROVE Before(l, at)
    BY <1>5, <1>8
  <2>1. l[1] \in Nat /\ l[2] \in Nat /\ l[1] < s + 1
    BY <1>0, <1>1, <1>2, <1>7 DEF Before
  <2>2. CASE l[1] < s
    BY <1>1, <2>2 DEF Before
  <2>3. CASE l[1] = s
    <3>1. f \notin 0 .. l[2]
      BY <1>1, <1>7, <1>9, <2>3 DEF Reached
    <3>2. l[2] < f
      BY <1>1, <2>1, <3>1
    <3> QED  BY <1>1, <2>3, <3>2 DEF Before
  <2> QED  BY <1>1, <2>1, <2>2, <2>3
<1>10. ASSUME inl(at) # NULL
       PROVE  {l \in Reachable : Before(l, NextFunc)} = {l \in Reachable : Before(l, at)} \cup {at}
  <2>1. at \in Reachable
    <3>1. Reached(s, f)
      <4> SUFFICES ASSUME NEW g \in 0 .. f PROVE inl(<<s, g>>) # NULL
        BY DEF Reached
      <4>1. g = f \/ g \in 0 .. f - 1
        BY <1>1
      <4> QED  BY <1>1, <1>3, <1>10, <4>1
    <3> QED  BY <1>1, <3>1 DEF Reachable
  <2>2. ASSUME NEW l \in Reachable, Before(l, NextFunc), l # at PROVE Before(l, at)
    <3> DEFINE a == l[1]
               b == l[2]
    <3>1. l = <<a, b>> /\ a \in 0 .. SLOTS - 1 /\ b \in 0 .. FUNCS - 1
      BY <1>7
    <3>2. a # s \/ b # f
      BY <1>1, <2>2, <3>1
    <3>3. a < s + 1 /\ (a = s => b < f + 1)
      <4>1. CASE f + 1 < FUNCS
        BY <1>0, <1>1, <1>2, <2>2, <3>1, <4>1 DEF Before
      <4>2. CASE ~(f + 1 < FUNCS)
        <5>1. NextFunc[1] = s + 1 /\ NextFunc[2] = 0
          BY <1>2, <4>2
        <5>2. a < s + 1 \/ (a = s + 1 /\ b < 0)
          BY <2>2, <5>1 DEF Before
        <5> HIDE DEF a, b
        <5> QED  BY <1>0, <1>1, <3>1, <4>2, <5>2
      <4> QED  BY <4>1, <4>2
    <3>4. at[1] = s /\ at[2] = f
      BY <1>1
    <3> HIDE DEF a, b
    <3>5. a < s \/ (a = s /\ b < f)
      BY <1>0, <1>1, <3>1, <3>2, <3>3
    <3> QED  BY <3>4, <3>5 DEF Before, a, b
  <2> QED  BY <1>5, <1>6, <1>8, <2>1, <2>2
<1>11. ASSUME inl(at) # NULL, NEW g \in 0 .. NextFunc[2] - 1 PROVE inl(<<NextFunc[1], g>>) # NULL
  <2>1. CASE f + 1 < FUNCS
    <3>1. NextFunc[1] = s /\ NextFunc[2] = f + 1
      BY <1>2, <2>1
    <3>2. g = f \/ g \in 0 .. f - 1
      BY <1>1, <1>11, <3>1
    <3> QED  BY <1>1, <1>3, <1>11, <3>1, <3>2
  <2>2. CASE ~(f + 1 < FUNCS)
    <3>1. NextFunc[2] = 0
      BY <1>2, <2>2
    <3> QED  BY <1>11, <3>1
  <2> QED  BY <2>1, <2>2
<1> QED  BY <1>4, <1>5, <1>6, <1>9, <1>10, <1>11

LEMMA FoundInit == DisksInit => FoundInv
<1> SUFFICES ASSUME DisksInit PROVE FoundInv
  OBVIOUS
<1>0. SLOTS \in Nat /\ FUNCS \in Nat \ {0}
  BY PciAssumption
<1>1. /\ boot = "scrn" /\ at = <<0, 0>> /\ pci_devs = <<>> /\ pci_tree = NULL /\ ide_ctlrs = <<>>
  BY DEF DisksInit, PciInit, Phases
<1>2. pci_devs \in Seq(BusDevs(machine)) /\ Listed(pci_devs) = {} /\ Listed(ide_ctlrs) = {} /\ InBusOrder(pci_devs)
  BY <1>1 DEF Listed, InBusOrder
<1>3. at \in (0 .. SLOTS) \X (0 .. FUNCS - 1) /\ 0 .. at[2] - 1 = {}
  BY <1>0, <1>1
<1>4. \A l \in Reachable : ~Before(l, at)
  BY <1>0, <1>1 DEF Reachable, Before
<1>5. AllListed
  BY <1>1, <1>2, <1>4 DEF AllListed
<1>6. boot \notin AfterBus
  BY <1>1 DEF AfterBus
<1> QED  BY <1>2, <1>3, <1>5, <1>6 DEF FoundInv

(* The rest of main leaves the lists of the bus alone. *)
LEMMA FoundSettled ==
    ASSUME ScanInv, FoundInv, Settled, boot' \in AfterBus => boot \in AfterBus
    PROVE  FoundInv'
<1>1. machine' = machine /\ UNCHANGED <<at, pci_devs, pci_tree, ide_ctlrs>>
  BY DEF Settled, pciVars
<1>2. fails' = MaxFails => fails = MaxFails
  BY FewerFails
<1>3. AllListed => AllListed'
  BY <1>1 DEF AllListed, Reachable, Reached, inl
<1> QED  BY <1>1, <1>2, <1>3 DEF FoundInv, inl

(* A device found, and what memory there is for it. *)
LEMMA FoundStep ==
    ASSUME ScanInv, FoundInv, PciFound, machine' = machine
    PROVE  FoundInv'
<1> DEFINE dev == pci_dev_get_info(at[1], at[2])
           tree == IF pci_tree = NULL THEN <<>> ELSE pci_tree
           D == BusDevs(machine)
<1>1. PICK lost \in SUBSET {"devs", "ide", "head", "tree"} :
         /\ dev # NULL
         /\ ("ide" \in lost) => IsIde(dev)
         /\ pci_devs' = Added(pci_devs, dev, "devs" \notin lost)
         /\ ide_ctlrs' = Added(ide_ctlrs, dev, IsIde(dev) /\ "ide" \notin lost)
         /\ pci_tree' = IF "head" \in lost THEN NULL ELSE Added(tree, dev, "tree" \notin lost)
         /\ fails' = fails - Cardinality(lost)
  BY DEF PciFound
<1>2. at[1] < SLOTS /\ at' = NextFunc /\ boot' = boot /\ boot = "pci"
  BY DEF PciFound
<1>3. /\ machine \in Machines /\ at \in (0 .. SLOTS) \X (0 .. FUNCS - 1) /\ at \in Nat \X Nat
      /\ \A g \in 0 .. at[2] - 1 : inl(<<at[1], g>>) # NULL
      /\ fails \in Int /\ fails <= MaxFails /\ MaxFails \in Int
      /\ pci_devs \in Seq(D) /\ ide_ctlrs \in Seq(IdeDevs)
  BY PciAssumption DEF ScanInv, FoundInv
<1>4. inl(at) # NULL /\ dev \in D /\ Place(dev) = at
  BY <1>1, <1>3, SeenHere
<1>5. /\ NextFunc \in (0 .. SLOTS) \X (0 .. FUNCS - 1)
      /\ \A l \in Nat \X Nat : Before(l, at) => Before(l, NextFunc)
      /\ Before(at, NextFunc)
      /\ {l \in Reachable : Before(l, NextFunc)} = {l \in Reachable : Before(l, at)} \cup {at}
      /\ \A g \in 0 .. NextFunc[2] - 1 : inl(<<NextFunc[1], g>>) # NULL
  BY <1>2, <1>3, <1>4, NextPlaces
<1> HIDE DEF dev, D
<1>6. fails' = MaxFails => fails = MaxFails /\ lost = {}
  <2>1. IsFiniteSet(lost)
    <3>a. IsFiniteSet({"devs"} \cup {"ide"})
      BY FS_Singleton, FS_AddElement
    <3>b. IsFiniteSet({"devs"} \cup {"ide"} \cup {"head"})
      BY <3>a, FS_AddElement
    <3>1. IsFiniteSet({"devs"} \cup {"ide"} \cup {"head"} \cup {"tree"})
      BY <3>b, FS_AddElement
    <3>2. lost \subseteq {"devs"} \cup {"ide"} \cup {"head"} \cup {"tree"}
      OBVIOUS
    <3> QED  BY <3>1, <3>2, FS_Subset
  <2>2. Cardinality(lost) \in Nat /\ (Cardinality(lost) = 0 <=> lost = {})
    BY <2>1, FS_CardinalityType, FS_EmptySet
  <2> QED  BY <1>1, <1>3, <2>2
<1>7. D' = D
  BY DEF D
<1>8. pci_devs' \in {pci_devs, Append(pci_devs, dev)}
  BY <1>1 DEF Added
<1>9. /\ pci_devs' \in Seq(D)
      /\ \A x \in Listed(pci_devs') : x \in Listed(pci_devs) \/ x = dev
  <2>1. Listed(Append(pci_devs, dev)) = Listed(pci_devs) \cup {dev}
    BY <1>3, ListedAppend
  <2>2. Append(pci_devs, dev) \in Seq(D)
    BY <1>3, <1>4
  <2>3. CASE pci_devs' = pci_devs
    BY <1>3, <2>3
  <2>4. CASE pci_devs' = Append(pci_devs, dev)
    BY <2>1, <2>2, <2>4
  <2> QED  BY <1>8, <2>3, <2>4
<1>10. \A x \in Listed(pci_devs) : Before(Place(x), at) /\ Place(x) \in Nat \X Nat
  <2>1. \A x \in Listed(pci_devs) : x \in D
    BY <1>3 DEF Listed
  <2> QED  BY <2>1, BusDevSpec DEF FoundInv, D
<1>11. \A x \in Listed(pci_devs') : Before(Place(x), at')
  BY <1>2, <1>4, <1>5, <1>9, <1>10
<1>12. InBusOrder(pci_devs')
  <2>1. InBusOrder(pci_devs)
    BY DEF FoundInv
  <2>2. CASE pci_devs' = pci_devs
    BY <2>1, <2>2
  <2>3. CASE pci_devs' = Append(pci_devs, dev)
    <3> DEFINE L == Len(pci_devs)
    <3>1. /\ L \in Nat /\ DOMAIN pci_devs = 1 .. L /\ DOMAIN pci_devs' = 1 .. L + 1
          /\ pci_devs'[L + 1] = dev /\ \A k \in 1 .. L : pci_devs'[k] = pci_devs[k]
      BY <1>3, <2>3
    <3> HIDE DEF L
    <3>2. \A k \in 1 .. L : Before(Place(pci_devs[k]), at)
      BY <1>10, <3>1 DEF Listed
    <3> SUFFICES ASSUME NEW k \in 1 .. L + 1, NEW m \in 1 .. L + 1, k < m
                 PROVE  Before(Place(pci_devs'[k]), Place(pci_devs'[m]))
      BY <3>1 DEF InBusOrder
    <3>3. k \in 1 .. L /\ (m = L + 1 \/ m \in 1 .. L)
      BY <3>1
    <3>4. CASE m = L + 1
      BY <1>4, <3>1, <3>2, <3>3, <3>4
    <3>5. CASE m \in 1 .. L
      <4>1. Before(Place(pci_devs[k]), Place(pci_devs[m]))
        BY <2>1, <3>1, <3>3, <3>5 DEF InBusOrder
      <4> QED  BY <3>1, <3>3, <3>5, <4>1
    <3> QED  BY <3>3, <3>4, <3>5
  <2> QED  BY <1>8, <2>2, <2>3
<1>13. ASSUME fails' = MaxFails PROVE AllListed'
  <2>1. AllListed /\ lost = {}
    BY <1>6, <1>13 DEF FoundInv
  <2>2. /\ {Place(x) : x \in Listed(pci_devs)} = {l \in Reachable : Before(l, at)}
        /\ Listed(ide_ctlrs) = {x \in Listed(pci_devs) : IsIde(x)}
        /\ pci_tree = IF pci_devs = <<>> THEN NULL ELSE pci_devs
    BY <2>1 DEF AllListed
  <2>3. pci_devs' = Append(pci_devs, dev) /\ pci_tree' = Append(tree, dev)
        /\ ide_ctlrs' = IF IsIde(dev) THEN Append(ide_ctlrs, dev) ELSE ide_ctlrs
    BY <1>1, <2>1 DEF Added
  <2>4. Listed(pci_devs') = Listed(pci_devs) \cup {dev}
    BY <1>3, <2>3, ListedAppend
  <2>5. {Place(x) : x \in Listed(pci_devs')} = {l \in Reachable : Before(l, at')}
    <3>1. {Place(x) : x \in Listed(pci_devs')} = {Place(x) : x \in Listed(pci_devs)} \cup {at}
      BY <1>4, <2>4
    <3> QED  BY <1>2, <1>5, <2>2, <3>1
  <2>6. Reachable' = Reachable
    BY DEF Reachable, Reached, inl
  <2>7. Listed(ide_ctlrs') = {x \in Listed(pci_devs') : IsIde(x)}
    <3>1. Listed(Append(ide_ctlrs, dev)) = Listed(ide_ctlrs) \cup {dev}
      BY <1>3, ListedAppend
    <3> QED  BY <2>2, <2>3, <2>4, <3>1
  <2>8. pci_tree' = IF pci_devs' = <<>> THEN NULL ELSE pci_devs'
    <3>1. pci_devs # NULL
      <4>1. NULL \notin Seq(D)
        BY <1>3, DisksAssumption DEF D
      <4> QED  BY <1>3, <4>1
    <3>2. tree = pci_devs
      BY <2>2, <3>1
    <3>3. pci_devs' # <<>>
      BY <1>3, <2>3
    <3> HIDE DEF tree
    <3> QED  BY <2>3, <3>2, <3>3
  <2> QED  BY <2>5, <2>6, <2>7, <2>8 DEF AllListed
<1>14. (\A g \in 0 .. at[2] - 1 : inl(<<at[1], g>>) # NULL)'
  BY <1>2, <1>5 DEF inl
<1>15. boot' \notin AfterBus
  BY <1>2 DEF AfterBus
<1> QED  BY <1>2, <1>5, <1>7, <1>9, <1>11, <1>12, <1>13, <1>14, <1>15 DEF FoundInv, D

(* The steps of the scan. *)
LEMMA FoundPci ==
    ASSUME ScanInv, FoundInv, PciNext
    PROVE  FoundInv'
<1>1. machine' = machine
  BY DEF PciNext
<1>2. /\ machine \in Machines /\ at \in (0 .. SLOTS) \X (0 .. FUNCS - 1) /\ at \in Nat \X Nat
      /\ \A g \in 0 .. at[2] - 1 : inl(<<at[1], g>>) # NULL
      /\ fails \in Int /\ fails <= MaxFails /\ MaxFails \in Int
  BY PciAssumption DEF ScanInv, FoundInv
<1>3. CASE PciAbsent
  <2>1. /\ at[1] < SLOTS /\ at' = NextSlot /\ boot = "pci" /\ boot' = boot
        /\ UNCHANGED <<pci_devs, pci_tree, ide_ctlrs, fails>>
        /\ pci_dev_get_info(at[1], at[2]) = NULL
    BY <1>3 DEF PciAbsent
  <2>2. inl(at) = NULL
    BY <1>2, <2>1, SeenHere
  <2>3. /\ NextSlot \in (0 .. SLOTS) \X (0 .. FUNCS - 1)
        /\ \A l \in Nat \X Nat : Before(l, at) => Before(l, NextSlot)
        /\ {l \in Reachable : Before(l, NextSlot)} = {l \in Reachable : Before(l, at)}
    BY <1>2, <2>1, <2>2, NextPlaces
  <2>4. \A x \in Listed(pci_devs) : Before(Place(x), NextSlot)
    <3>1. \A x \in Listed(pci_devs) : x \in BusDevs(machine)
      BY DEF Listed, FoundInv
    <3> QED  BY <2>3, <3>1, BusDevSpec DEF FoundInv
  <2>5. AllListed => AllListed'
    BY <1>1, <2>1, <2>3 DEF AllListed, Reachable, Reached, inl
  <2>6. 0 .. at'[2] - 1 = {}
    BY <2>1 DEF NextSlot
  <2>7. boot' \notin AfterBus
    BY <2>1 DEF AfterBus
  <2> QED  BY <1>1, <2>1, <2>3, <2>4, <2>5, <2>6, <2>7 DEF FoundInv
<1>4. CASE PciFound
  BY <1>1, <1>4, FoundStep
<1>5. CASE PciPanics
  <2>1. Settled
    BY <1>1, <1>2, <1>5 DEF PciPanics, Settled
  <2> QED  BY <1>5, <2>1, FoundSettled DEF PciPanics, AfterBus
<1>6. CASE PciDone
  <2>1. at[1] = SLOTS /\ UNCHANGED <<at, pci_devs, pci_tree, ide_ctlrs, fails>>
    BY <1>6 DEF PciDone, pciVars
  <2>2. AllListed => AllListed'
    BY <1>1, <2>1 DEF AllListed, Reachable, Reached, inl
  <2> QED  BY <1>1, <2>1, <2>2 DEF FoundInv, inl
<1> QED  BY <1>3, <1>4, <1>5, <1>6 DEF PciNext

(* Only the scan leads to the parts after the bus. *)
LEMMA PhasesBeforeBus ==
    \A phase \in Tables \cup {"mem"} : After(phase) \notin AfterBus
<1> SUFFICES ASSUME NEW phase \in Tables \cup {"mem"} PROVE After(phase) \notin AfterBus
  OBVIOUS
<1>1. /\ DOMAIN Phases = 1 .. 14
      /\ \A k, m \in 1 .. 14 : Phases[k] = Phases[m] => k = m
      /\ \A k \in 1 .. 9 : Phases[k + 1] \notin AfterBus
  BY DEF Phases, AfterBus
<1>2. phase \in {Phases[k] : k \in 1 .. 9}
  BY DEF Tables, Phases
<1>3. PICK k \in 1 .. 9 : phase = Phases[k]
  BY <1>2
<1>4. Position(phase) = k
  BY <1>1, <1>3 DEF Position
<1>5. After(phase) \in {Phases[k + 1], "fault"}
  BY <1>4 DEF After
<1>6. "fault" \notin AfterBus
  BY DEF AfterBus
<1> QED  BY <1>1, <1>5, <1>6

LEMMA FoundNext == DisksInv /\ FoundInv /\ [DisksNext]_vars => FoundInv'
<1> SUFFICES ASSUME DisksInv, FoundInv, [DisksNext]_vars PROVE FoundInv'
  OBVIOUS
<1>1. ScanInv /\ DriverInv /\ fails \in Int
  BY DEF DisksInv, ScanInv
<1>2. CASE (InitTables \/ InitMemory) /\ UNCHANGED <<machine, pciVars, ataVars, halVars>>
  <2>1. Settled
    BY <1>1, <1>2 DEF InitTables, InitMemory, Settled
  <2>2. boot' \in AfterBus => boot \in AfterBus
    <3>1. boot \in Tables \cup {"mem"} \/ boot = "thr"
      BY <1>2 DEF InitTables, InitMemory
    <3>2. boot' \in {After(boot), "halted"}
      BY <1>2 DEF InitTables, InitMemory
    <3> QED  BY <3>1, <3>2, PhasesBeforeBus DEF AfterBus
  <2> QED  BY <1>1, <2>1, <2>2, FoundSettled
<1>3. CASE PciNext /\ UNCHANGED <<ataVars, halVars>>
  BY <1>1, <1>3, FoundPci
<1>4. CASE AtaNext /\ UNCHANGED <<machine, halVars>>
  <2>1. boot = "ata" /\ Settled
    BY <1>1, <1>4, AtaSettles
  <2> QED  BY <1>1, <2>1, FoundSettled DEF AfterBus
<1>5. CASE (VfsInit \/ VfsPanics) /\ UNCHANGED <<machine, pciVars, ataVars>>
  <2>1. fails' = fails \/ fails' = fails - 1
    BY <1>5 DEF VfsInit, VfsPanics
  <2>2. Settled
    BY <1>1, <1>5, <2>1 DEF Settled
  <2>3. boot = "vfs"
    BY <1>5 DEF VfsInit, VfsPanics
  <2> QED  BY <1>1, <2>2, <2>3, FoundSettled DEF AfterBus
<1>6. CASE UNCHANGED vars
  <2>1. Settled /\ boot' = boot
    BY <1>1, <1>6 DEF vars, Settled
  <2> QED  BY <1>1, <2>1, FoundSettled
<1> QED  BY <1>2, <1>3, <1>4, <1>5, <1>6 DEF DisksNext

LEMMA FoundAlways == DisksSpec => []FoundInv
BY FoundInit, FoundNext, InvAlways, PTL DEF DisksSpec

(* For every machine, a scan in which no allocation fails lists the         *)
(* functions of the slots it looks at, up to the first gap of each, once   *)
(* and in the order of the bus; the IDE controllers are those of class 1   *)
(* and subclass 1, in that order; and each device has its own address      *)
(* (pci.c:46-261).                                                          *)
THEOREM FunctionsFoundAlways == DisksSpec => []FunctionsFound
<1>1. DisksInv /\ FoundInv => FunctionsFound
  <2> SUFFICES ASSUME DisksInv, FoundInv, boot \in AfterBus, fails = MaxFails
               PROVE  /\ InBusOrder(pci_devs) /\ {Place(dev) : dev \in Listed(pci_devs)} = Reachable
                      /\ InBusOrder(ide_ctlrs)
                      /\ Listed(ide_ctlrs) = {dev \in Listed(pci_devs) : <<dev.class_id, dev.subclass_id>> = <<1, 1>>}
                      /\ pci_tree = IF pci_devs = <<>> THEN NULL ELSE pci_devs
                      /\ \A dev \in Listed(pci_devs) : dev.bar4 \in {0, inl(Place(dev)).bar4}
    BY DEF FunctionsFound, AfterBus
  <2>1. AllListed /\ InBusOrder(pci_devs) /\ at[1] = SLOTS
    BY DEF FoundInv
  <2>2. \A l \in Reachable : Before(l, at)
    BY <2>1, PciAssumption DEF Reachable, Before
  <2>3. {Place(dev) : dev \in Listed(pci_devs)} = Reachable
    BY <2>1, <2>2 DEF AllListed
  <2>4. InBusOrder(ide_ctlrs)
    BY DEF InBusOrder, DisksInv, ScanInv
  <2>5. \A dev : IsIde(dev) <=> <<dev.class_id, dev.subclass_id>> = <<1, 1>>
    BY DEF IsIde
  <2>6. Listed(ide_ctlrs) = {dev \in Listed(pci_devs) : <<dev.class_id, dev.subclass_id>> = <<1, 1>>}
    BY <2>1, <2>5 DEF AllListed
  <2>7. \A dev \in Listed(pci_devs) : dev.bar4 \in {0, inl(Place(dev)).bar4}
    BY BusDevSpec DEF inl, FoundInv, Listed
  <2> QED  BY <2>1, <2>3, <2>4, <2>6, <2>7 DEF AllListed
<1> QED  BY <1>1, InvAlways, FoundAlways, PTL

-----------------------------------------------------------------------------
(* The RAM disk that is made last becomes the root. *)
RootInv ==
    /\ boot \notin {"booted", "halted", "fault"} => hal_ids = <<>>
    /\ RootFound

LEMMA RootNext == DisksInv /\ RootInv /\ [DisksNext]_vars => RootInv'
<1> SUFFICES ASSUME DisksInv, RootInv, [DisksNext]_vars PROVE RootInv'
  OBVIOUS
<1>1. ScanInv /\ fails \in Int /\ fails <= MaxFails /\ MaxFails \in Int
  BY PciAssumption DEF DisksInv, ScanInv
<1>2. ASSUME UNCHANGED halVars, boot \notin {"booted", "halted", "fault"}, boot' # "booted" PROVE RootInv'
  BY <1>2 DEF RootInv, RootFound, halVars
<1>3. CASE (InitTables \/ InitMemory) /\ UNCHANGED <<machine, pciVars, ataVars, halVars>>
  <2>1. boot \in Tables \cup {"mem"} \/ boot = "thr"
    BY <1>3 DEF InitTables, InitMemory
  <2>2. boot' \in {After(boot), "halted"}
    BY <1>3 DEF InitTables, InitMemory
  <2>3. boot' # "booted"
    BY <2>1, <2>2, PhasesBeforeBus, PhaseAfter DEF AfterBus
  <2>4. boot \notin {"booted", "halted", "fault"}
    BY <2>1 DEF Tables
  <2> QED  BY <1>2, <1>3, <2>3, <2>4
<1>4. CASE PciNext /\ UNCHANGED <<ataVars, halVars>>
  <2>1. boot = "pci" /\ boot' \in {"pci", "ata", "halted"}
    BY <1>4 DEF PciNext, PciAbsent, PciFound, PciPanics, PciDone
  <2> QED  BY <1>2, <1>4, <2>1
<1>5. CASE AtaNext /\ UNCHANGED <<machine, halVars>>
  BY <1>1, <1>2, <1>5, AtaSettles
<1>6. CASE VfsPanics
  BY <1>6 DEF VfsPanics, RootInv, RootFound
<1>7. CASE VfsInit
  <2>1. PICK id \in {TRUE} \cup (IF fails > 0 THEN {FALSE} ELSE {}) :
           /\ hal_ids' = Initrd(id).ids /\ root_fs' = [dev |-> Initrd(id).dev]
           /\ fails' = IF id THEN fails ELSE fails - 1
    BY <1>7 DEF VfsInit
  <2>2. boot = "vfs" /\ boot' \in {"booted", "fault"} /\ hal_ids = <<>>
    BY <1>7, PhaseAfter DEF VfsInit, RootInv
  <2>3. ASSUME fails' = MaxFails PROVE idlist_get(hal_ids', ramdisk_open(root_fs'.dev)) = root_fs'.dev
    <3>1. id = TRUE
      <4>1. id \in {TRUE, FALSE}
        BY <2>1
      <4>2. id # FALSE
        <5> SUFFICES ASSUME id = FALSE PROVE FALSE
          OBVIOUS
        <5>1. fails' = IF FALSE THEN fails ELSE fails - 1
          <6>1. fails' = IF id THEN fails ELSE fails - 1
            BY <2>1
          <6> QED  BY <6>1, Zenon
        <5> QED  BY <1>1, <2>3, <5>1
      <4> QED  BY <4>1, <4>2
    <3>2. NULL # 0 /\ WORD \in Nat \ {0}
      BY DisksAssumption
    <3> DEFINE disk == block_dev(0, ramdisk_dev_t(0, INITRD_SIZE))
               given == idlist_add(<<>>, NULL, TRUE).id
    <3>3. given = 0
      BY DEF idlist_add
    <3>4. Initrd(TRUE) = [dev |-> disk, ids |-> Append(<<>>, disk)]
      <4>1. Initrd(TRUE) = LET Made(n) == block_dev(n, ramdisk_dev_t(0, INITRD_SIZE))
                           IN  [dev |-> Made(given), ids |-> idlist_add(<<>>, Made(given), TRUE).list]
        BY <2>2, <3>2 DEF Initrd, ramdisk_new
      <4> HIDE DEF given
      <4> QED  BY <3>3, <4>1 DEF idlist_add
    <3> HIDE DEF given
    <3>5. ramdisk_open(disk) = 0
      BY DEF ramdisk_open, block_dev
    <3> HIDE DEF disk
    <3>6. hal_ids' = <<disk>> /\ root_fs'.dev = disk
      <4>1. hal_ids' = Initrd(TRUE).ids /\ root_fs' = [dev |-> Initrd(TRUE).dev]
        BY <2>1, <3>1, Zenon
      <4>2. Initrd(TRUE).ids = Append(<<>>, disk) /\ Initrd(TRUE).dev = disk
        <5> DEFINE one == Append(<<>>, disk)
        <5> HIDE DEF one
        <5>1. Initrd(TRUE) = [dev |-> disk, ids |-> one]
          BY <3>4 DEF one
        <5>2. \A r : r = [dev |-> disk, ids |-> one] => r.ids = one /\ r.dev = disk
          OBVIOUS
        <5>3. Initrd(TRUE).ids = one /\ Initrd(TRUE).dev = disk
          BY <5>1, <5>2, Zenon
        <5> QED  BY <5>3 DEF one
      <4>3. Append(<<>>, disk) = <<disk>>
        OBVIOUS
      <4> QED  BY <4>1, <4>2, <4>3
    <3>7. idlist_get(<<disk>>, 0) = disk
      <4>1. ~((0 + 1) % WORD > 1)
        BY <3>2
      <4> QED  BY <4>1 DEF idlist_get
    <3> QED  BY <3>5, <3>6, <3>7
  <2> QED  BY <2>2, <2>3 DEF RootInv, RootFound
<1>8. CASE UNCHANGED vars
  BY <1>8 DEF vars, halVars, RootInv, RootFound
<1> QED  BY <1>3, <1>4, <1>5, <1>6, <1>7, <1>8 DEF DisksNext

(* The root leads to the RAM disk vfs_init made, unless memory was lacking, *)
(* when the identifier may be that of nothing (vfs.c:20-35, id.c:120-156). *)
THEOREM RootFoundAlways == DisksSpec => []RootFound
<1>1. DisksInit => RootInv
  BY DEF DisksInit, RootInv, RootFound, idlist_new, Phases
<1>2. RootInv => RootFound
  BY DEF RootInv
<1> QED  BY <1>1, <1>2, RootNext, InvAlways, PTL DEF DisksSpec

(* An identifier leads to a disk within a memory of N bytes; two disks apart. *)
RamdiskAt(ids, id, disk, N) ==
    /\ idlist_get(ids, id).extra = disk
    /\ disk \in [start : Nat, size : Nat] /\ disk.start + disk.size <= N
Apart(one, other) == one.start + one.size <= other.start \/ other.start + other.size <= one.start

(* What is written on a RAM disk is what is read there; a write that would  *)
(* end behind the disk changes nothing; and no other byte of memory changes, *)
(* so a disk whose space is apart reads as before.  For memories, disks and *)
(* buffers of every size, as long as the end of a request does not wrap     *)
(* (ramdisk.c:73-103).                                                      *)
THEOREM WrittenIsRead ==
    ASSUME NEW S, NEW N \in Nat, NEW memory \in [0 .. N - 1 -> S], NEW ids,
           NEW id, NEW disk, RamdiskAt(ids, id, disk, N),
           NEW buffer \in Seq(S), NEW offset \in Nat, offset + Len(buffer) < WORD
    PROVE  LET after == ramdisk_write(memory, ids, id, buffer, offset)
           IN  /\ after \in [0 .. N - 1 -> S]
               /\ IF offset + Len(buffer) <= disk.size
                  THEN ramdisk_read(after, ids, id, Len(buffer), offset) = buffer
                  ELSE after = memory
               /\ \A other, o : RamdiskAt(ids, other, o, N) /\ Apart(disk, o) =>
                     \A bytes, from \in Nat : from + bytes < WORD =>
                        ramdisk_read(after, ids, other, bytes, from) = ramdisk_read(memory, ids, other, bytes, from)
<1> DEFINE after == ramdisk_write(memory, ids, id, buffer, offset)
           L == Len(buffer)
           start == disk.start + offset
           written == [a \in 0 .. N - 1 |-> IF a \in start .. start + L - 1 THEN buffer[a - start + 1] ELSE memory[a]]
<1>1. /\ L \in Nat /\ WORD \in Nat \ {0} /\ start \in Nat /\ disk.start \in Nat /\ disk.size \in Nat
      /\ disk.start + disk.size <= N /\ idlist_get(ids, id).extra = disk
  BY DisksAssumption DEF RamdiskAt
<1>2. \A bytes, from \in Nat : from + bytes < WORD => (from + bytes) % WORD = from + bytes
  <2> SUFFICES ASSUME NEW bytes \in Nat, NEW from \in Nat, from + bytes < WORD
               PROVE  (from + bytes) % WORD = from + bytes
    OBVIOUS
  <2> DEFINE x == from + bytes
             w == WORD
  <2>1. x \in Nat /\ w \in Nat /\ x < w
    BY <1>1
  <2> HIDE DEF x, w
  <2>2. x % w = x
    BY <2>1
  <2> QED  BY <2>2 DEF x, w
<1>3. after = IF offset + L <= disk.size THEN written ELSE memory
  <2>1. Beyond(disk, L, offset) <=> ~(offset + L <= disk.size)
    <3>1. (offset + L) % WORD = offset + L
      BY <1>1, <1>2
    <3> HIDE DEF L
    <3> QED  BY <1>1, <3>1 DEF Beyond
  <2>2. after = IF Beyond(disk, L, offset) THEN memory ELSE written
    BY <1>1 DEF ramdisk_write
  <2> HIDE DEF after, written, L
  <2> QED  BY <2>1, <2>2
<1> HIDE DEF after
<1>4. CASE ~(offset + L <= disk.size)
  BY <1>3, <1>4 DEF after
<1>5. CASE offset + L <= disk.size
  <2>1. after = written
    BY <1>3, <1>5
  <2>2. \A a \in 0 .. N - 1 : a \in start .. start + L - 1 => a - start + 1 \in 1 .. L
    <3> HIDE DEF start, L
    <3> QED  BY <1>1
  <2>3. after \in [0 .. N - 1 -> S]
    <3>1. \A k \in 1 .. L : buffer[k] \in S
      OBVIOUS
    <3> HIDE DEF start, L
    <3> QED  BY <2>1, <2>2, <3>1
  <2>4. /\ \A a \in 0 .. N - 1 : a \in start .. start + L - 1 => after[a] = buffer[a - start + 1]
        /\ \A a \in 0 .. N - 1 : a \notin start .. start + L - 1 => after[a] = memory[a]
    <3> HIDE DEF start, L
    <3> QED  BY <2>1
  <2>5. start + L <= disk.start + disk.size /\ start >= disk.start
    <3>1. start = disk.start + offset
      OBVIOUS
    <3> HIDE DEF start, L
    <3> QED  BY <1>1, <1>5, <3>1
  <2>6. ramdisk_read(after, ids, id, L, offset) = buffer
    <3>1. ramdisk_read(after, ids, id, L, offset) = [k \in 1 .. L |-> after[disk.start + offset + k - 1]]
      <4>1. ~Beyond(disk, L, offset)
        <5>1. (offset + L) % WORD = offset + L
          BY <1>1, <1>2
        <5> HIDE DEF L
        <5> QED  BY <1>1, <1>5, <5>1 DEF Beyond
      <4> HIDE DEF L
      <4> QED  BY <1>1, <4>1 DEF ramdisk_read
    <3>2. \A k \in 1 .. L : after[disk.start + offset + k - 1] = buffer[k]
      <4> SUFFICES ASSUME NEW k \in 1 .. L PROVE after[start + k - 1] = buffer[k]
        OBVIOUS
      <4> HIDE DEF start, L
      <4>1. start + k - 1 \in 0 .. N - 1 /\ start + k - 1 \in start .. start + L - 1 /\ (start + k - 1) - start + 1 = k
        BY <1>1, <2>5
      <4>2. after[start + k - 1] = buffer[(start + k - 1) - start + 1]
        BY <2>4, <4>1
      <4> QED  BY <4>1, <4>2
    <3>3. buffer = [k \in 1 .. L |-> buffer[k]]
      OBVIOUS
    <3> HIDE DEF L
    <3> QED  BY <3>1, <3>2, <3>3
  <2>7. ASSUME NEW other, NEW o, RamdiskAt(ids, other, o, N), Apart(disk, o),
               NEW bytes \in Nat, NEW from \in Nat, from + bytes < WORD
        PROVE  ramdisk_read(after, ids, other, bytes, from) = ramdisk_read(memory, ids, other, bytes, from)
    <3>1. /\ o.start \in Nat /\ o.size \in Nat /\ o.start + o.size <= N /\ idlist_get(ids, other).extra = o
      BY <2>7 DEF RamdiskAt
    <3>2. CASE Beyond(o, bytes, from)
      BY <3>1, <3>2 DEF ramdisk_read
    <3>3. CASE ~Beyond(o, bytes, from)
      <4>1. from + bytes <= o.size
        <5>1. (from + bytes) % WORD = from + bytes
          BY <1>2, <2>7
        <5> QED  BY <3>1, <3>3, <5>1 DEF Beyond
      <4>2. \A k \in 1 .. bytes : after[o.start + from + k - 1] = memory[o.start + from + k - 1]
        <5> SUFFICES ASSUME NEW k \in 1 .. bytes PROVE after[o.start + from + k - 1] = memory[o.start + from + k - 1]
          OBVIOUS
        <5> DEFINE a == o.start + from + k - 1
                   b == o.start
                   c == o.size
                   e == disk.start
                   g == disk.size
        <5>0. a = b + from + k - 1
          OBVIOUS
        <5>2. b \in Nat /\ c \in Nat /\ e \in Nat /\ g \in Nat /\ b + c <= N /\ from + bytes <= c
          BY <1>1, <3>1, <4>1
        <5>3. e + g <= b \/ b + c <= e
          BY <2>7 DEF Apart
        <5>4. start + L <= e + g /\ start >= e /\ start \in Nat /\ L \in Nat
          BY <1>1, <2>5
        <5> HIDE DEF a, b, c, e, g, start, L
        <5>1. a \in 0 .. N - 1 /\ b <= a /\ a < b + c
          BY <5>0, <5>2
        <5>5. a \notin start .. start + L - 1
          BY <5>1, <5>2, <5>3, <5>4
        <5> QED  BY <2>4, <5>1, <5>5 DEF a
      <4> QED  BY <3>1, <3>3, <4>2 DEF ramdisk_read
    <3> QED  BY <3>2, <3>3
  <2> QED  BY <1>5, <2>3, <2>6, <2>7 DEF after
<1> QED  BY <1>4, <1>5
=============================================================================
