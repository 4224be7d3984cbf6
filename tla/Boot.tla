-------------------------------- MODULE Boot --------------------------------
(***************************************************************************)
(* The entry point and arch_init_traps(): head.S switches                  *)
(* an HVM guest to paging and to its own segments, and arch_init_traps()   *)
(* hands the processor, or Xen, the tables by which exceptions, user mode  *)
(* and the NULL page work.                                                 *)
(*                                                                         *)
(* What the processor does with the tables (Translate, Delivery) follows   *)
(* the architecture, and what Xen does with those of a PV guest its ABI.   *)
(***************************************************************************)
EXTENDS Descriptors, PageTables, Functions, SequencesExt

CONSTANTS
    Builds,        \* the environments that the test is built for
    mfn_list       \* the frames of the pages of a PV guest

ASSUME BootAssumption ==
    /\ Builds \subseteq {"hvm32", "hvm32pse", "hvm32pae", "hvm64", "pv32pae", "pv64"}
    /\ {0} \union Image \subseteq DOMAIN mfn_list
    /\ \A p \in DOMAIN mfn_list : p \in Nat /\ mfn_list[p] \in Nat
    /\ IsInjective(mfn_list)

\* "Mappings exceed l1_identmap[]" (link.lds.h).
ASSUME ImageAssumption ==
    /\ Builds \intersect {"hvm32", "hvm32pae", "hvm64"} # {} => Page.end < PAE_ENTRIES
    /\ "hvm32pse" \in Builds => Page.end < PSE_ENTRIES

VARIABLES
    build,         \* the CONFIG_... of the environment
    todo,          \* the steps up to test_main() that are to come
    state,         \* "boot", "run", "panic", or "dead": a fault that nothing handles
    vcpu,          \* the registers, or what Xen keeps for the vCPU
    gdt,           \* gdt[]
    idt,           \* idt[], or the trap table
    l1e            \* the level 1 entries of the image and of page 0

bootVars == <<build, todo, state, vcpu, gdt, idt, l1e>>

CONFIG_PV == build \in {"pv32pae", "pv64"}
CONFIG_64BIT == build \in {"hvm64", "pv64"}
CONFIG_PAGING_LEVELS ==
    CASE build = "hvm32" -> 0
      [] build = "hvm32pse" -> 2
      [] build \in {"hvm32pae", "pv32pae"} -> 3
      [] OTHER -> 4

__KERN_CS ==
    IF CONFIG_PV THEN IF CONFIG_64BIT THEN 57392 ELSE 57369          \* 0xe030, 0xe019
    ELSE 8 * (IF CONFIG_64BIT THEN GDTE_CS64_DPL0 ELSE GDTE_CS32_DPL0)

__KERN_DS ==
    IF CONFIG_PV THEN IF CONFIG_64BIT THEN 57384 ELSE 57377          \* 0xe028, 0xe021
    ELSE IF CONFIG_64BIT THEN 0 ELSE 8 * GDTE_DS32_DPL0

__USER_CS ==
    IF CONFIG_PV THEN IF CONFIG_64BIT THEN 57395 ELSE 57387          \* 0xe033, 0xe02b
    ELSE 8 * (IF CONFIG_64BIT THEN GDTE_CS64_DPL3 ELSE GDTE_CS32_DPL3) + 3

__USER_DS ==
    IF CONFIG_PV THEN IF CONFIG_64BIT THEN 57387 ELSE 57395          \* 0xe02b, 0xe033
    ELSE 8 * GDTE_DS32_DPL3 + 3

RPL(sel) == sel % 4

\* Kernel and user privilege.
KERN == RPL(__KERN_CS)
USER == RPL(__USER_CS)

X86_EXC_BP == 3
X86_EXC_OF == 4
X86_EXC_UD == 6
X86_EXC_DF == 8
X86_EXC_GP == 13
X86_EXC_PF == 14
X86_VEC_RET2KERN == 32

\* The vectors with an entry point, and its address.
Vectors == ((0..20) \ {9, 15}) \union {X86_VEC_RET2KERN}

Address(n) == <<n, 0, 16, 0>> \o (IF CONFIG_64BIT THEN <<0, 0, 0, 0>> ELSE <<>>)
entry(v) == Address(v)

-----------------------------------------------------------------------------
(* The processor.                                                          *)

LongMode == "LME" \in vcpu.efer /\ "PG" \in vcpu.cr0

\* What page p leads to, and what for.
Translate(p) ==
    IF CONFIG_PV THEN IF p \in DOMAIN l1e THEN l1e[p] ELSE NoPte
    ELSE IF "PG" \notin vcpu.cr0 THEN Pte(p, {"P", "RW", "U"})
    ELSE Walk(vcpu.cr3, IF LongMode THEN 4 ELSE IF "PAE" \in vcpu.cr4 THEN 3 ELSE 2,
              "PAE" \in vcpu.cr4 \/ "PSE" \in vcpu.cr4, l1e,
              IF LongMode THEN p ELSE p % PAGES_4G)

\* The width of the code that a code segment holds.
CodeBits(d) == IF LongMode /\ SegL(d) = 1 THEN 64 ELSE IF SegD(d) = 1 THEN 32 ELSE 16
Bits == IF CONFIG_64BIT THEN 64 ELSE 32

Descriptor(sel) == gdt[sel \div 8]
CodeSegment(d) == SegP(d) = 1 /\ SegS(d) = 1 /\ SegX(d) = 1 /\ ~(LongMode /\ SegL(d) = 1 /\ SegD(d) = 1)
DataSegment(d) == SegP(d) = 1 /\ SegS(d) = 1 /\ SegX(d) = 0

\* Loads of a segment register of each kind that work at privilege cpl.
LoadsCs(sel, cpl) == sel # 0 /\ CodeSegment(Descriptor(sel)) /\ SegDPL(Descriptor(sel)) = cpl
LoadsDs(sel, cpl) ==
    \/ sel \div 4 = 0
    \/ DataSegment(Descriptor(sel)) /\ {cpl, RPL(sel)} \subseteq 0..SegDPL(Descriptor(sel))
LoadsSs(sel, cpl) ==
    IF sel = 0 THEN LongMode /\ cpl < 3
    ELSE /\ DataSegment(Descriptor(sel)) /\ SegW(Descriptor(sel)) = 1
         /\ RPL(sel) = cpl /\ SegDPL(Descriptor(sel)) = cpl

\* tss and tss_DF, with the stacks as pages of boot_stack[].
Tss(base) ==
    CASE base = Address(64) -> [ip |-> <<>>, cs |-> 0, sp |-> 2, ist |-> 3]
      [] base = Address(65) -> [ip |-> entry(X86_EXC_DF), cs |-> __KERN_CS, sp |-> 3, ist |-> 0]
      [] OTHER -> [ip |-> <<>>, cs |-> 0, sp |-> 0, ist |-> 0]

TssOf(sel) ==
    Tss(user_desc_base(Descriptor(sel), gdt[(sel \div 8) + 1], CONFIG_64BIT))

NoDelivery == [ip |-> <<>>, cpl |-> 0, bits |-> 0, stack |-> 0, masks |-> FALSE]

\* Where exception v leads from privilege cpl: the address, its privilege and
\* width, the stack (0 when it goes on with the current one) and whether
\* interrupts, or events, are off there.
HvmDelivery(v, cpl) ==
    LET g == idt[v]
        d == Descriptor(GateSelector(g))
        t == TssOf(vcpu.tr)
        df == TssOf(GateSelector(g))
    IN  IF v \notin DOMAIN idt \/ ~vcpu.lidt \/ GateP(g) = 0 THEN NoDelivery
        ELSE IF GateType(g) = TASK
        THEN [ip |-> df.ip, cpl |-> RPL(df.cs), bits |-> CodeBits(Descriptor(df.cs)),
              stack |-> df.sp, masks |-> TRUE]
        ELSE IF ~CodeSegment(d) \/ SegDPL(d) > cpl THEN NoDelivery
        ELSE [ip |-> GateOffset(g), cpl |-> SegDPL(d), bits |-> CodeBits(d),
              stack |-> IF CONFIG_64BIT /\ GateIst(g) = 1 THEN t.ist
                        ELSE IF SegDPL(d) < cpl THEN t.sp ELSE 0,
              masks |-> GateType(g) = INTR]

PvDelivery(v, cpl) ==
    IF v \notin DOMAIN idt THEN NoDelivery
    ELSE [ip |-> idt[v].address, cpl |-> RPL(idt[v].cs), bits |-> Bits,
          stack |-> IF RPL(idt[v].cs) < cpl THEN vcpu.kernel_sp ELSE 0,
          masks |-> idt[v].flags >= 4]

Delivery(v, cpl) == IF CONFIG_PV THEN PvDelivery(v, cpl) ELSE HvmDelivery(v, cpl)

\* May code at privilege cpl raise it with an int instruction?
SoftwareMay(v, cpl) ==
    /\ v \in DOMAIN idt
    /\ cpl <= IF CONFIG_PV THEN idt[v].flags % 4 ELSE GateDPL(idt[v])

-----------------------------------------------------------------------------
(* mm.h and pagetable.h.                                                   *)

m2p == AntiFunction(mfn_list)

mfn_to_virt(mfn) == m2p[mfn]
pfn_to_mfn(p) == mfn_list[p]

virt_to_gfn(p) == IF CONFIG_PV THEN pfn_to_mfn(p) ELSE p

pte_from_virt(p, flags) == Pte(virt_to_gfn(p), flags)

-----------------------------------------------------------------------------
HeadSteps ==
    IF CONFIG_PV THEN <<>>
    ELSE (IF CONFIG_PAGING_LEVELS > 0 THEN <<"cr4", "cr3">> ELSE <<>>)
         \o (IF CONFIG_64BIT THEN <<"efer">> ELSE <<>>)
         \o <<"cr0", "lgdt", "ljmp", "segments">>

TrapSteps ==
    IF CONFIG_PV
    THEN <<"set_trap_table", "event">> \o (IF CONFIG_64BIT THEN <<"syscall">> ELSE <<>>)
         \o <<"syscall32", "sysenter", "remap_gdt", "set_gdt", "stack_switch">>
         \o (IF CONFIG_64BIT THEN <<"user_baseptr">>
             ELSE <<"user_text", "user_data", "user_bss">>)
         \o <<"unmap_null">>
    ELSE <<"idt", "tss", "user_text", "user_data", "user_bss">>

\* An HVM guest starts in flat 32-bit mode; the domain builder maps a PV guest
\* from page 0 on, and runs it at kernel privilege.
BootInit ==
    /\ build \in Builds
    /\ state = "boot"
    /\ vcpu = [cr0 |-> {}, cr3 |-> 0, cr4 |-> {}, efer |-> {}, bits |-> Bits,
               lgdt |-> FALSE, lidt |-> FALSE, tr |-> 0, kernel_sp |-> 1,
               callbacks |-> {}, user_cr3 |-> FALSE]
    /\ gdt = IF CONFIG_PV THEN [n \in DOMAIN gdt_hvm |-> [i \in 1..8 |-> 0]] ELSE gdt_hvm
    /\ idt = <<>>
    /\ l1e = IF CONFIG_PV
             THEN [p \in DOMAIN mfn_list |->
                      Pte(mfn_list[p], {"P", "RW", "A"} \union (IF CONFIG_64BIT THEN {"U"} ELSE {}))]
             ELSE [p \in {0} \union Image |-> IF p = 0 THEN NoPte ELSE Pte(p, _PAGE_LEAF)]

-----------------------------------------------------------------------------
(* head.S of HVM guests.                                                   *)

Step(s) == state = "boot" /\ todo # <<>> /\ Head(todo) = s /\ todo' = Tail(todo)

\* The step succeeds if ok holds of what it leaves, or nothing handles its fault.
Unless(ok) == state' = IF ok THEN state ELSE "dead"

mov_cr4 ==
    /\ Step("cr4")
    /\ vcpu' = [vcpu EXCEPT !.cr4 = IF CONFIG_PAGING_LEVELS = 2 THEN {"PSE"} ELSE {"PAE"}]
    /\ UNCHANGED <<build, state, gdt, idt, l1e>>

cr3_target ==
    CASE CONFIG_PAGING_LEVELS = 2 -> Page.pse_l2_identmap
      [] CONFIG_PAGING_LEVELS = 3 -> Page.pae32_l3_identmap
      [] CONFIG_PAGING_LEVELS = 4 -> Page.pae_l4_identmap
      [] OTHER -> 0

mov_cr3 ==
    /\ Step("cr3")
    /\ vcpu' = [vcpu EXCEPT !.cr3 = cr3_target]
    /\ UNCHANGED <<build, state, gdt, idt, l1e>>

wrmsr_efer ==
    /\ Step("efer")
    /\ vcpu' = [vcpu EXCEPT !.efer = {"LME"}]
    /\ UNCHANGED <<build, state, gdt, idt, l1e>>

\* From here on instructions are fetched through the page tables.
mov_cr0 ==
    /\ Step("cr0")
    /\ vcpu' = [vcpu EXCEPT !.cr0 =
                   {"WP"} \union (IF CONFIG_PAGING_LEVELS > 0 THEN {"PG"} ELSE {})]
    /\ UNCHANGED <<build, gdt, idt, l1e>>
    /\ Unless("LME" \in vcpu.efer => "PAE" \in vcpu.cr4)

lgdt ==
    /\ Step("lgdt")
    /\ vcpu' = [vcpu EXCEPT !.lgdt = TRUE]
    /\ UNCHANGED <<build, state, gdt, idt, l1e>>

\* What follows is assembled for the width of the build.
ljmp ==
    /\ Step("ljmp")
    /\ vcpu' = [vcpu EXCEPT !.bits = CodeBits(Descriptor(__KERN_CS))]
    /\ UNCHANGED <<build, gdt, idt, l1e>>
    /\ Unless(vcpu.lgdt /\ LoadsCs(__KERN_CS, 0) /\ vcpu'.bits = Bits)

\* Then on to the boot stack and to xtf_main().
load_segments ==
    /\ Step("segments")
    /\ UNCHANGED <<build, vcpu, gdt, idt, l1e>>
    /\ Unless(LoadsDs(__USER_DS, 0) /\ LoadsSs(__KERN_DS, 0))

-----------------------------------------------------------------------------
(* arch_init_traps() of HVM guests.                                        *)

init_idt ==
    /\ Step("idt")
    /\ idt' = [v \in Vectors |->
                  IF v = X86_EXC_DF
                  THEN IF CONFIG_64BIT THEN pack_intr_gate(__KERN_CS, entry(v), 0, 1)
                       ELSE pack_task_gate(GDTE_TSS_DF * 8)
                  ELSE pack_intr_gate(__KERN_CS, entry(v),
                           IF v \in {X86_EXC_BP, X86_EXC_OF, X86_VEC_RET2KERN} THEN 3 ELSE 0, 0)]
    /\ gdt' = IF CONFIG_64BIT THEN gdt ELSE pack_tss_desc(gdt, GDTE_TSS_DF, Address(65), FALSE)
    /\ vcpu' = [vcpu EXCEPT !.lidt = TRUE]
    /\ UNCHANGED <<build, state, l1e>>

\* ltr marks the segment busy.
init_tss ==
    /\ Step("tss")
    /\ LET packed == pack_tss_desc(gdt, GDTE_TSS, Address(64), CONFIG_64BIT)
       IN  /\ gdt' = [packed EXCEPT ![GDTE_TSS][6] = @ + 2]
           /\ vcpu' = [vcpu EXCEPT !.tr = GDTE_TSS * 8]
           /\ UNCHANGED <<build, idt, l1e>>
           /\ Unless(SegP(packed[GDTE_TSS]) = 1 /\ SegS(packed[GDTE_TSS]) = 0
                     /\ SegType(packed[GDTE_TSS]) = 9)

\* A definition marked "Mutant" is no part of the model: it is what the
\* definition after it would be if the code had the named bug.

\* Mutant: the page at the end of the section is remapped as well.
remap_too_much(table, s) ==
    [p \in DOMAIN table |->
        IF p \in Section[s][1]..Section[s][2]
        THEN Pte(table[p].page, table[p].flags \union {"U"}) ELSE table[p]]

remap_user(table, s) ==
    [p \in DOMAIN table |->
        IF p \in PagesOf(s) THEN Pte(table[p].page, table[p].flags \union {"U"}) ELSE table[p]]

RemapUser(s) ==
    /\ ~CONFIG_PV /\ Step(s)
    /\ l1e' = remap_user(l1e, s)
    /\ UNCHANGED <<build, state, vcpu, gdt, idt>>

-----------------------------------------------------------------------------
(* arch_init_traps() of PV guests: every step is a hypercall.              *)

set_trap_table ==
    /\ Step("set_trap_table")
    /\ idt' = [v \in Vectors |->
                  [flags |-> 4 + (IF v \in {X86_EXC_BP, X86_EXC_OF, X86_VEC_RET2KERN} THEN 3 ELSE 0),
                   cs |-> __KERN_CS, address |-> entry(v)]]
    /\ UNCHANGED <<build, state, vcpu, gdt, l1e>>

register_callback(type) ==
    /\ Step(type)
    /\ vcpu' = [vcpu EXCEPT !.callbacks = @ \union {type}]
    /\ UNCHANGED <<build, state, gdt, idt, l1e>>

\* Pages of the image are mapped anew with the flags: UVMF_INVLPG throughout.
Remapped(pages, flags) ==
    l1e' = [p \in DOMAIN l1e |-> IF p \in pages THEN pte_from_virt(p, flags) ELSE l1e[p]]

remap_gdt ==
    /\ Step("remap_gdt")
    /\ Remapped({Page.gdt}, {"A", "D", "P"} \union (IF CONFIG_64BIT THEN {"U"} ELSE {}))
    /\ UNCHANGED <<build, state, vcpu, gdt, idt>>

\* Xen takes no frame for a GDT that the guest could write.
set_gdt ==
    /\ Step("set_gdt")
    /\ \A p \in DOMAIN l1e : l1e[p].page = virt_to_gfn(Page.gdt) => "RW" \notin l1e[p].flags
    /\ vcpu' = [vcpu EXCEPT !.lgdt = TRUE]
    /\ UNCHANGED <<build, state, gdt, idt, l1e>>

stack_switch ==
    /\ Step("stack_switch")
    /\ vcpu' = [vcpu EXCEPT !.kernel_sp = 2]
    /\ UNCHANGED <<build, state, gdt, idt, l1e>>

new_user_baseptr ==
    /\ Step("user_baseptr")
    /\ vcpu' = [vcpu EXCEPT !.user_cr3 = TRUE]
    /\ UNCHANGED <<build, state, gdt, idt, l1e>>

remap_linear_range(s) ==
    /\ CONFIG_PV /\ Step(s)
    /\ Remapped(PagesOf(s), {"A", "D", "U", "RW", "P"})
    /\ UNCHANGED <<build, state, vcpu, gdt, idt>>

\* The loop ends at a page that fails, and nobody looks at the result.
remap_fails(s) ==
    /\ CONFIG_PV /\ Step(s)
    /\ \E last \in PagesOf(s) :
          Remapped({p \in PagesOf(s) : p < last}, {"A", "D", "U", "RW", "P"})
    /\ UNCHANGED <<build, state, vcpu, gdt, idt>>

unmap_null ==
    /\ Step("unmap_null")
    /\ l1e' = [l1e EXCEPT ![0] = NoPte]
    /\ UNCHANGED <<build, state, vcpu, gdt, idt>>

\* Any other hypercall that fails.
InitFails ==
    /\ CONFIG_PV /\ state = "boot" /\ todo # <<>>
    /\ Head(todo) \in ToSet(TrapSteps) \ Sections
    /\ todo' = Tail(todo)
    /\ state' = "panic"
    /\ UNCHANGED <<build, vcpu, gdt, idt, l1e>>

head == mov_cr4 \/ mov_cr3 \/ wrmsr_efer \/ mov_cr0 \/ lgdt \/ ljmp \/ load_segments

arch_init_traps ==
    \/ init_idt \/ init_tss \/ (\E s \in Sections : RemapUser(s))
    \/ set_trap_table
    \/ (\E type \in {"event", "syscall", "syscall32", "sysenter"} : register_callback(type))
    \/ remap_gdt \/ set_gdt \/ stack_switch \/ new_user_baseptr
    \/ (\E s \in Sections : remap_linear_range(s) \/ remap_fails(s))
    \/ unmap_null \/ InitFails
=============================================================================
