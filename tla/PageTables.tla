----------------------------- MODULE PageTables -----------------------------
(***************************************************************************)
(* Where common/link.lds.S puts the parts of a microkernel, and the page   *)
(* tables of hvm/pagetables.S, which map the first 4G to themselves, with  *)
(* the shifts and indices of page-pae.h and page-pse.h.                    *)
(*                                                                         *)
(* An address is the number of its page, an entry a page number and a set  *)
(* of flags.                                                               *)
(***************************************************************************)
EXTENDS Integers, Sequences

CONSTANT Size      \* the pages that a test adds to each output section

ASSUME PageTablesAssumption ==
    Size \in [{"text", "user_text", "data", "user_data", "rodata", "bss", "user_bss"} -> Nat]

XTF_VIRT_START == 256

\* The pages of what is aligned to a page, and the first page of each section.
Page ==
    LET user_text == XTF_VIRT_START + 1 + Size.text
        data == user_text + 1 + Size.user_text
        user_data == data + 10 + Size.data
        rodata == user_data + Size.user_data
        bss == rodata + 1 + Size.rodata
        user_bss == bss + 5 + Size.bss
    IN  [text |-> XTF_VIRT_START,
         user_text |-> user_text, data |-> data, user_data |-> user_data, rodata |-> rodata,
         pae32_l3_identmap |-> data, pae_l1_identmap |-> data + 1,
         pae_l2_identmap |-> data + 2, pae_l3_identmap |-> data + 6,
         pae_l4_identmap |-> data + 7, pse_l1_identmap |-> data + 8,
         pse_l2_identmap |-> data + 9,
         boot_stack |-> bss, gdt |-> bss + 3, shared_info |-> bss + 4,
         user_bss |-> user_bss, end |-> user_bss + 1 + Size.user_bss]

\* __start_user_... up to __end_user_...
Section ==
    [user_text |-> <<Page.user_text, Page.data>>,
     user_data |-> <<Page.user_data, Page.rodata>>,
     user_bss |-> <<Page.user_bss, Page.end>>]

Sections == DOMAIN Section
PagesOf(s) == Section[s][1]..(Section[s][2] - 1)
UserPages == UNION {PagesOf(s) : s \in Sections}
Image == XTF_VIRT_START..(Page.end - 1)

\* The pages of the first 4G.
PAGES_4G == 1024 * 1024

PAE_ENTRIES == 512
PSE_ENTRIES == 1024

\* PAE_L1_PT_SHIFT and so on, less PAGE_SHIFT, as the pages that an entry spans.
PaeSpan == <<1, 512, 262144, 134217728>>
PseSpan == <<1, 1024>>

_PAGE_LEAF == {"P", "RW", "A", "D"}
_PAGE_SUPER == {"PSE"} \union _PAGE_LEAF
_PAGE_NONLEAF == {"U"} \union _PAGE_LEAF

Pte(page, flags) == [page |-> page, flags |-> flags]
NoPte == Pte(0, {})

\* Entry i of each table.
pae_l1_identmap(i) == IF i = 0 THEN NoPte ELSE Pte(i, _PAGE_LEAF)

pae_l2_identmap(i) ==
    IF i = 0 THEN Pte(Page.pae_l1_identmap, _PAGE_NONLEAF)
    ELSE Pte(i * PaeSpan[2], _PAGE_SUPER)

pae_l3_identmap(i) ==
    IF i < 4 THEN Pte(Page.pae_l2_identmap + i, _PAGE_NONLEAF) ELSE NoPte

pae_l4_identmap(i) == IF i = 0 THEN Pte(Page.pae_l3_identmap, _PAGE_NONLEAF) ELSE NoPte

pae32_l3_identmap(i) == Pte(Page.pae_l2_identmap + i, {"P"})

pse_l1_identmap(i) == IF i = 0 THEN NoPte ELSE Pte(i, _PAGE_LEAF)

pse_l2_identmap(i) ==
    IF i = 0 THEN Pte(Page.pse_l1_identmap, _PAGE_NONLEAF)
    ELSE Pte(i * PseSpan[2], _PAGE_SUPER)

\* Entry i of the table in page pg.  The live level 1 table is as linked, but
\* for the entries in l1e.
EntryOf(pg, i, l1e) ==
    CASE pg = Page.pae_l1_identmap -> IF i \in DOMAIN l1e THEN l1e[i] ELSE pae_l1_identmap(i)
      [] pg = Page.pse_l1_identmap -> IF i \in DOMAIN l1e THEN l1e[i] ELSE pse_l1_identmap(i)
      [] pg \in Page.pae_l2_identmap..(Page.pae_l2_identmap + 3) ->
            pae_l2_identmap((pg - Page.pae_l2_identmap) * PAE_ENTRIES + i)
      [] pg = Page.pae_l3_identmap -> pae_l3_identmap(i)
      [] pg = Page.pae_l4_identmap -> pae_l4_identmap(i)
      [] pg = Page.pae32_l3_identmap -> pae32_l3_identmap(i)
      [] pg = Page.pse_l2_identmap -> pse_l2_identmap(i)
      [] OTHER -> NoPte

Span(l, levels) == IF levels = 2 THEN PseSpan[l] ELSE PaeSpan[l]

\* The index of page p in the tables of level l.
pae_table_offset(p, l) == (p \div PaeSpan[l]) % PAE_ENTRIES
pse_table_offset(p, l) == (p \div PseSpan[l]) % PSE_ENTRIES

table_offset(p, l, levels) ==
    IF levels = 2 THEN pse_table_offset(p, l) ELSE pae_table_offset(p, l)

\* After w, the processor has found entry e of level l for page p.  The flags
\* of the upper levels bound those of the lower; the four top entries of 32-bit
\* PAE have none.  Superpages of 4M have to be switched on.
Follow(w, e, l, levels, pse, p) ==
    LET leaf == l = 1 \/ ("PSE" \in e.flags /\ pse)
    IN  IF "P" \notin e.flags THEN [page |-> 0, flags |-> {}, leaf |-> TRUE]
        ELSE [page |-> IF leaf THEN e.page + (p % Span(l, levels)) ELSE e.page,
              flags |-> IF levels = 3 /\ l = 3 THEN w.flags ELSE w.flags \intersect e.flags,
              leaf |-> leaf]

\* What the processor finds for page p, in the tables from top on.
Walk(top, levels, pse, l1e, p) ==
    LET Level(w, l) ==
            IF w.leaf \/ l > levels THEN w
            ELSE Follow(w, EntryOf(w.page, table_offset(p, l, levels), l1e), l, levels, pse, p)
        start == [page |-> top, flags |-> {"P", "RW", "U"}, leaf |-> FALSE]
        found == Level(Level(Level(Level(start, 4), 3), 2), 1)
    IN  Pte(found.page, found.flags)
=============================================================================
