------------------------------ MODULE Drivers ------------------------------
(***************************************************************************)
(* A test and the drivers it is linked with: one vCPU makes their calls in *)
(* any order and as often as it likes, each call running to its end before *)
(* the next, with the devices at work beside it.  Those of devices are     *)
(* linked into HVM tests only.                                             *)
(***************************************************************************)
EXTENDS Apic, GrantTable, Hpet, DomId, IoApic, Msr

CONSTANT Tests   \* the drivers that a test may use together

ASSUME TestsAssumption ==
  Tests \subseteq SUBSET {"apic", "gnttab", "hpet", "ioapic", "domid", "msr"}

VARIABLE linked  \* the drivers that this test uses

vars == <<linked, apicVars, gnttabVars, hpetVars, ioapicVars, domidVars, msrVars>>

\* The device of a driver that is not linked, of which nobody takes notice.
ApicUnused == ~present /\ ~cpu_has_x2apic /\ ~hw.enable /\ hw.window = "default"
HpetUnused == ~is64 /\ ~running /\ counter = Zero
IoapicUnused == Here = {}
MsrUnused == ~msr_has_fep /\ ~msr_shared
DomIdUnused == text = <<>> /\ ~has_leaf4 /\ own = 0 /\ \A b \in DOMAIN blocks : blocks[b] = "other"

Init ==
  /\ linked \in Tests
  /\ GnttabInit /\ ("gnttab" \notin linked => xen = "old")
  /\ linked \intersect {"apic", "hpet", "ioapic"} # {} => kind = "HVM"
  /\ ApicInit /\ ("apic" \notin linked => ApicUnused)
  /\ HpetInit /\ ("hpet" \notin linked => HpetUnused)
  /\ IoapicInit /\ ("ioapic" \notin linked => IoapicUnused)
  /\ DomIdInit /\ is_hvm = (kind = "HVM") /\ ("domid" \notin linked => DomIdUnused)
  /\ MsrInit /\ ("msr" \notin linked => MsrUnused)

\* No call of another driver is under way.
Idle(drivers) ==
  /\ "apic" \in drivers => apic_pc = "idle"
  /\ "gnttab" \in drivers => gnttab_pc = "idle"
  /\ "hpet" \in drivers => hpet_pc = "idle"
  /\ "ioapic" \in drivers => ioapic_pc = "idle"
  /\ "domid" \in drivers => domid_pc = "idle"
  /\ "msr" \in drivers => msr_pc = "idle"

UsesApic == /\ "apic" \in linked /\ Idle(linked \ {"apic"}) /\ ApicNext
            /\ UNCHANGED <<linked, gnttabVars, hpetVars, ioapicVars, domidVars, msrVars>>

UsesGnttab == /\ "gnttab" \in linked /\ Idle(linked \ {"gnttab"}) /\ GnttabNext
              /\ UNCHANGED <<linked, apicVars, hpetVars, ioapicVars, domidVars, msrVars>>

UsesHpet == /\ "hpet" \in linked /\ Idle(linked \ {"hpet"}) /\ HpetNext
            /\ UNCHANGED <<linked, apicVars, gnttabVars, ioapicVars, domidVars, msrVars>>

UsesIoapic == /\ "ioapic" \in linked /\ Idle(linked \ {"ioapic"}) /\ IoapicNext
              /\ UNCHANGED <<linked, apicVars, gnttabVars, hpetVars, domidVars, msrVars>>

UsesDomId == /\ "domid" \in linked /\ Idle(linked \ {"domid"}) /\ DomIdNext
             /\ UNCHANGED <<linked, apicVars, gnttabVars, hpetVars, ioapicVars, msrVars>>

UsesMsr == /\ "msr" \in linked /\ Idle(linked \ {"msr"}) /\ MsrNext
           /\ UNCHANGED <<linked, apicVars, gnttabVars, hpetVars, ioapicVars, domidVars>>

Next == UsesApic \/ UsesGnttab \/ UsesHpet \/ UsesIoapic \/ UsesDomId \/ UsesMsr

Spec == Init /\ [][Next]_vars

\* The HPET ticks while it may, and a call of its driver goes on.
FairSpec == Spec /\ WF_hpetVars(Tick) /\ WF_hpetVars(Driver)
=============================================================================
