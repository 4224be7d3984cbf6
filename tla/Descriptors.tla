---------------------------- MODULE Descriptors ----------------------------
(***************************************************************************)
(* The tables that the processor reads: segment descriptors and gates as   *)
(* desc.h and x86-gate.h pack them, and the static gdt[] of desc.c.        *)
(*                                                                         *)
(* A number is the tuple of its bytes, the lowest first, as it lies in     *)
(* memory: four for an unsigned int, eight for a 64-bit address.           *)
(***************************************************************************)
EXTENDS Integers, Sequences

\* Segment attributes: the byte with the type, and the one with the flags.
SEG_ATTR ==
    [COMMON |-> <<145, 128>>,
     DPL0 |-> <<0, 0>>, DPL3 |-> <<96, 0>>, CODE |-> <<8, 0>>, DATA |-> <<0, 0>>,
     R |-> <<2, 0>>, W |-> <<2, 0>>, L |-> <<0, 32>>, D |-> <<0, 64>>, B |-> <<0, 64>>]

\* No two tokens of a descriptor have a bit in common.
TOK_OR(tokens) ==
    LET Of(t, i) == IF t \in tokens THEN SEG_ATTR[t][i] ELSE 0
    IN  [i \in 1..2 |-> Of("COMMON", i) + Of("DPL0", i) + Of("DPL3", i) + Of("CODE", i)
                        + Of("DATA", i) + Of("R", i) + Of("W", i) + Of("L", i) + Of("D", i)
                        + Of("B", i)]

INIT_GDTE(base, limit, attr) ==
    <<limit[1], limit[2], base[1], base[2], base[3], attr[1],
      (attr[2] \div 16) * 16 + (limit[3] % 16), base[4]>>

INIT_GDTE_SYM(base, limit, tokens) == INIT_GDTE(base, limit, TOK_OR(tokens))

\* The fields of struct seg_desc32.
SegType(d) == d[6] % 16
SegS(d) == (d[6] \div 16) % 2
SegDPL(d) == (d[6] \div 32) % 4
SegP(d) == d[6] \div 128
SegX(d) == (d[6] \div 8) % 2        \* code
SegW(d) == (d[6] \div 2) % 2       \* of data: may be written
SegL(d) == (d[7] \div 32) % 2
SegD(d) == (d[7] \div 64) % 2
SegG(d) == d[7] \div 128

\* The base address; next is the descriptor in the next slot.
user_desc_base(d, next, is64) ==
    <<d[3], d[4], d[5], d[8]>>
    \o (IF ~is64 THEN <<>> ELSE IF SegS(d) = 0 THEN SubSeq(next, 1, 4) ELSE <<0, 0, 0, 0>>)

user_desc_limit(d) ==
    LET limit1 == d[7] % 16
    IN  IF SegG(d) = 0 THEN <<d[1], d[2], limit1, 0>>
        ELSE <<255, 15 + (d[1] % 16) * 16, (d[1] \div 16) + (d[2] % 16) * 16,
               (d[2] \div 16) + limit1 * 16>>

Slot(table, n, d) == [table EXCEPT ![n] = d]

\* The descriptor of a TSS, or of an LDT, in slot n: two slots in long mode.
PackSystem(table, n, base, limit, attr, is64) ==
    LET low == Slot(table, n, INIT_GDTE(base, limit, attr))
    IN  IF is64 THEN Slot(low, n + 1, SubSeq(base, 5, 8) \o <<0, 0, 0, 0>>) ELSE low

SizeOfTss == 104

pack_tss_desc(table, n, base, is64) ==
    PackSystem(table, n, base, <<SizeOfTss - 1, 0, 0, 0>>, <<137, 0>>, is64)

\* Gates.
pack_x86_gate32(type, sel, offset, dpl, count) ==
    <<offset[1], offset[2], sel % 256, sel \div 256, count, 128 + 32 * dpl + type,
      offset[3], offset[4]>>

pack_x86_gate64(type, sel, offset, dpl, ist) ==
    <<offset[1], offset[2], sel % 256, sel \div 256, ist, 128 + 32 * dpl + type,
      offset[3], offset[4], offset[5], offset[6], offset[7], offset[8], 0, 0, 0, 0>>

\* A definition marked "Mutant" is no part of the model: it is what the
\* definition after it would be if the code had the named bug.

\* Mutant: every gate has privilege level 0.
pack_for_kernel(type, sel, offset, dpl, other) ==
    IF Len(offset) = 8 THEN pack_x86_gate64(type, sel, offset, 0, other)
    ELSE pack_x86_gate32(type, sel, offset, 0, other)

\* An address has eight bytes in a 64-bit build.
pack_gate(type, sel, offset, dpl, other) ==
    IF Len(offset) = 8 THEN pack_x86_gate64(type, sel, offset, dpl, other)
    ELSE pack_x86_gate32(type, sel, offset, dpl, other)

TASK == 5
INTR == 14
TRAP == 15

pack_task_gate(sel) == pack_gate(TASK, sel, <<0, 0, 0, 0>>, 0, 0)
pack_intr_gate(sel, offset, dpl, other) == pack_gate(INTR, sel, offset, dpl, other)

\* The fields of struct x86_gate32 and x86_gate64.
GateType(g) == g[6] % 16
GateDPL(g) == (g[6] \div 32) % 4
GateP(g) == g[6] \div 128
GateSelector(g) == g[3] + 256 * g[4]
GateIst(g) == g[5] % 8
GateOffset(g) == <<g[1], g[2], g[7], g[8]>> \o SubSeq(g, 9, IF Len(g) = 16 THEN 12 ELSE 8)

-----------------------------------------------------------------------------
(* desc.c and segment.h.                                                   *)

GDTE_CS64_DPL0 == 1
GDTE_CS32_DPL0 == 2
GDTE_DS32_DPL0 == 3
GDTE_CS64_DPL3 == 4
GDTE_CS32_DPL3 == 5
GDTE_DS32_DPL3 == 6
GDTE_TSS == 7
GDTE_TSS_DF == 8
NR_GDT_ENTRIES == 15

Flat(tokens) ==
    INIT_GDTE_SYM(<<0, 0, 0, 0>>, <<255, 255, 15, 0>>, {"COMMON"} \union tokens)

\* gdt[] of an HVM build; that of a PV build is empty.
gdt_hvm ==
    [n \in 0..(NR_GDT_ENTRIES - 1) |->
        CASE n = GDTE_CS64_DPL0 -> Flat({"CODE", "DPL0", "R", "L"})
          [] n = GDTE_CS32_DPL0 -> Flat({"CODE", "DPL0", "R", "D"})
          [] n = GDTE_DS32_DPL0 -> Flat({"DATA", "DPL0", "B", "W"})
          [] n = GDTE_CS64_DPL3 -> Flat({"CODE", "DPL3", "R", "L"})
          [] n = GDTE_CS32_DPL3 -> Flat({"CODE", "DPL3", "R", "D"})
          [] n = GDTE_DS32_DPL3 -> Flat({"DATA", "DPL3", "B", "W"})
          [] OTHER -> [i \in 1..8 |-> 0]]
=============================================================================
