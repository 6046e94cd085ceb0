-------------------------------- MODULE Gdt --------------------------------
(***************************************************************************)
(* lib/gdt.c and lib/idt.c: the tables of segments and of interrupt gates, *)
(* packed as the code packs them and unpacked as the CPU does.  A word is  *)
(* the set of its bits that are one.                                       *)
(***************************************************************************)
EXTENDS Integers, SequencesExt

CONSTANT TSS_KERNEL    \* the address of tss_kernel
ASSUME TssAssumption == TSS_KERNEL \in 0 .. 2^30

Bits(n) == {b \in 0 .. 30 : (n \div 2^b) % 2 = 1}
Shl(word, k) == {b + k : b \in word}
Shr(word, k) == {b - k : b \in {c \in word : c >= k}}
AllOnes == 0 .. 31

-----------------------------------------------------------------------------
\* Where the parts of a descriptor are in its low and its high word.
GDT_ENTRY_L_BASE_LOW == 16
GDT_ENTRY_H_TYPE == 8
GDT_ENTRY_H_DPL == 13
GDT_ENTRY_H_PRESENT == 15
GDT_ENTRY_H_LIMIT_HIGH == 16
GDT_ENTRY_H_32_BIT == 22
GDT_ENTRY_H_GRANULARITY == 23
GDT_ENTRY_H_BASE_HIGH == 24

(* gdt_set_entry; its parameter dpl is a bool.  Bug in _low_limit: no  *)
(* high part of the limit.                                                 *)
Descriptor(base, limit, limit_high, type, dpl) ==
    [low  |-> Shl(base \cap 0 .. 15, GDT_ENTRY_L_BASE_LOW) \cup (limit \cap 0 .. 15),
     high |-> (Shr(base, 16) \cap 0 .. 7) \cup Shl(Shr(base, 24), GDT_ENTRY_H_BASE_HIGH)
                  \cup Shl(limit_high \cap 0 .. 3, GDT_ENTRY_H_LIMIT_HIGH)
                  \cup Shl(type \cap 0 .. 4, GDT_ENTRY_H_TYPE) \cup Shl(dpl \cap 0 .. 1, GDT_ENTRY_H_DPL)
                  \cup {GDT_ENTRY_H_PRESENT, GDT_ENTRY_H_32_BIT, GDT_ENTRY_H_GRANULARITY}]
gdt_set_entry_low_limit(base, limit, type, dpl) == Descriptor(base, limit, {}, type, dpl)
gdt_set_entry(base, limit, type, dpl) == Descriptor(base, limit, Shr(limit, 16), type, dpl)

GDT_ENTRY_TYPE_DATA_RW == {4, 1}
GDT_ENTRY_TYPE_CODE_XR == {4, 3, 1}
GDT_ENTRY_TYPE_TSS == {3, 0}

\* sizeof(tss_t): the fields of the record in bytes, those of two bytes in pairs.
SizeofTss == 4 + 3 * (4 + 4) + 3 * 4 + 8 * 4 + 6 * 4 + 4 + 4

(* gdt_init: nothing, the kernel's code and data, its TSS, code and data for *)
(* threads.                                                                *)
gdt == <<gdt_set_entry({}, {}, {}, {}),
         gdt_set_entry({}, AllOnes, GDT_ENTRY_TYPE_CODE_XR, {}), gdt_set_entry({}, AllOnes, GDT_ENTRY_TYPE_DATA_RW, {}),
         gdt_set_entry(Bits(TSS_KERNEL), Bits(SizeofTss - 1), GDT_ENTRY_TYPE_TSS, {}),
         gdt_set_entry({}, AllOnes, GDT_ENTRY_TYPE_CODE_XR, {}), gdt_set_entry({}, AllOnes, GDT_ENTRY_TYPE_DATA_RW, {})>>
GDT_INDEX_KERN_CODE == 1
GDT_INDEX_KERN_DATA == 2
GDT_INDEX_USER_CODE == 4
GDT_INDEX_USER_DATA == 5
GDT_SEG_DESCRIPTOR(index, priv) == (8 * index + 2 * priv) % 65536

\* The CPU's reading of a selector of privilege 0 and of the descriptor it names.
Segment(selector) ==
    LET e == gdt[(selector \div 8) + 1]
    IN  [base    |-> Shr(e.low, 16) \cup Shl(e.high \cap 0 .. 7, 16) \cup (e.high \cap 24 .. 31),
         limit   |-> (e.low \cap 0 .. 15) \cup (e.high \cap 16 .. 19),
         type    |-> Shr(e.high \cap 8 .. 12, 8),
         present |-> 15 \in e.high,
         pages   |-> 23 \in e.high]      \* the limit counts pages

-----------------------------------------------------------------------------
(* idt_set_entry, and the gates that isr_init, irq_init and syscall_init   *)
(* set.  Stubs are so many bytes apart; where they are does not matter.    *)
idt_set_entry(base, sel, flags) ==
    [base_low |-> base \cap 0 .. 15, base_high |-> Shr(base, 16), sel |-> sel, flags |-> flags]
isr(v) == Bits(2^20 + 16 * v)
Vectors == 0 .. 39 \cup 41 .. 48 \cup {128}
idt == [v \in Vectors |-> idt_set_entry(isr(v), GDT_SEG_DESCRIPTOR(GDT_INDEX_KERN_CODE, 0), Bits(\h8E))]

\* The CPU's reading of a gate.  Of the types, 14 turns interrupts off.
Gate(v) ==
    LET e == idt[v]
    IN  [offset  |-> e.base_low \cup Shl(e.base_high, 16),
         sel     |-> e.sel,
         present |-> 7 \in e.flags,
         masks   |-> e.flags \cap 0 .. 3 = Bits(14)]

(* Every gate turns interrupts off and leads to the stub of its own vector. *)
(* No parameter is in it: TLC evaluates it, and the proofs about Frames    *)
(* that need it take it as a hypothesis, for it is about powers of two.    *)
GatesLead ==
    \A v \in Vectors : Gate(v).masks /\ (CHOOSE w \in Vectors : isr(w) = Gate(v).offset) = v
=============================================================================
