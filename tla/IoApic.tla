------------------------------- MODULE IoApic -------------------------------
(***************************************************************************)
(* The IO-APIC driver of arch/x86/io-apic.c.  The registers are reached    *)
(* through a window: one write selects which of them the next access is    *)
(* about.  The lower half of a redirection entry is its mask bit, what     *)
(* software has programmed, and a status that the device changes when it   *)
(* likes and that a write leaves alone.                                    *)
(***************************************************************************)
EXTENDS Integers

CONSTANTS
    Entries,       \* the numbers of entries that a device may have
    Programs       \* what an entry may be programmed to

ASSUME IoApicAssumption == Entries \subseteq Nat \ {0}

VARIABLES
    redir,         \* the entries; none without a device
    regsel,        \* IOAPIC_REGSEL
    nr_entries,    \* the driver's
    entry, mask,   \* the arguments of ioapic_set_mask()
    value,         \* its variable redir
    asked,         \* what each entry should be, for the property
    ioapic_ret, ioapic_pc

ioapicCall == <<entry, mask, value>>
ioapicVars == <<redir, regsel, nr_entries, ioapicCall, asked, ioapic_ret, ioapic_pc>>

IOAPIC_ID == 0
IOAPIC_VERSION == 1
IOAPIC_REDIR_ENTRY(e) == 16 + e * 2

\* The entry that a register is the lower half of.
EntryOf(reg) == (reg - 16) \div 2

NoEntry == [mask |-> FALSE, program |-> "none", busy |-> FALSE]
Here == DOMAIN redir

IoapicInit ==
    /\ \E n \in Entries \union {0} :
          redir \in [0..(n - 1) -> [mask : BOOLEAN, program : Programs, busy : {FALSE}]]
    /\ regsel = IOAPIC_ID /\ nr_entries = 0
    /\ entry = 0 /\ mask = FALSE /\ value = NoEntry
    /\ asked = redir
    /\ ioapic_ret = 0 /\ ioapic_pc = "idle"

IoapicReturns(r) == ioapic_ret' = r /\ ioapic_pc' = "idle"

\* The device starts or ends to deliver an interrupt.
IoapicDelivers ==
    /\ ioapic_pc # "idle"
    /\ \E e \in Here : redir' = [redir EXCEPT ![e].busy = ~@]
    /\ UNCHANGED <<regsel, nr_entries, ioapicCall, asked, ioapic_ret, ioapic_pc>>

\* ioapic_init(): without a device every register reads as all ones.
InitIoapic ==
    /\ ioapic_pc = "idle"
    /\ IF Here = {} THEN regsel' = IOAPIC_ID /\ IoapicReturns(-19) /\ UNCHANGED nr_entries
       ELSE /\ regsel' = IOAPIC_VERSION
            /\ \E max \in Here : Here = 0..max /\ nr_entries' = max + 1
            /\ IoapicReturns(0)
    /\ UNCHANGED <<redir, ioapicCall, asked>>

\* ioapic_set_mask(e, m)
CallSetMask ==
    /\ ioapic_pc = "idle"
    /\ \E e \in 0..(nr_entries + 1), m \in BOOLEAN :
          IF e >= nr_entries THEN IoapicReturns(-22) /\ UNCHANGED <<regsel, entry, mask, asked>>
          ELSE /\ entry' = e /\ mask' = m
               /\ asked' = [asked EXCEPT ![e].mask = m]
               /\ regsel' = IOAPIC_REDIR_ENTRY(e)
               /\ ioapic_pc' = "read" /\ UNCHANGED ioapic_ret
    /\ UNCHANGED <<redir, nr_entries, value>>

ReadRedir ==
    /\ ioapic_pc = "read"
    /\ value' = redir[EntryOf(regsel)]
    /\ ioapic_pc' = "modify"
    /\ UNCHANGED <<redir, regsel, nr_entries, entry, mask, asked, ioapic_ret>>

\* Mutant: the mask can only be set.
OnlySets ==
    /\ ioapic_pc = "modify"
    /\ value' = [value EXCEPT !.mask = @ \/ mask]
    /\ regsel' = IOAPIC_REDIR_ENTRY(entry)
    /\ ioapic_pc' = "write"
    /\ UNCHANGED <<redir, nr_entries, entry, mask, asked, ioapic_ret>>

ModifyRedir ==
    /\ ioapic_pc = "modify"
    /\ value' = [value EXCEPT !.mask = mask]
    /\ regsel' = IOAPIC_REDIR_ENTRY(entry)
    /\ ioapic_pc' = "write"
    /\ UNCHANGED <<redir, nr_entries, entry, mask, asked, ioapic_ret>>

WriteRedir ==
    /\ ioapic_pc = "write"
    /\ redir' = [redir EXCEPT ![EntryOf(regsel)].mask = value.mask,
                              ![EntryOf(regsel)].program = value.program]
    /\ IoapicReturns(0)
    /\ UNCHANGED <<regsel, nr_entries, ioapicCall, asked>>

IoapicNext ==
    \/ IoapicDelivers \/ InitIoapic \/ CallSetMask \/ ReadRedir \/ ModifyRedir \/ WriteRedir

-----------------------------------------------------------------------------
\* ioapic_set_mask() changes the mask of the entry that it is asked for and
\* nothing else, while the device goes on working on the entries.
MasksAsAsked ==
    ioapic_pc = "idle" =>
        \A e \in Here : redir[e].mask = asked[e].mask /\ redir[e].program = asked[e].program
=============================================================================
