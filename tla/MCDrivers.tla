----------------------------- MODULE MCDrivers -----------------------------
\* Small instances of Drivers: the APIC with the grant table, and each of the
\* other drivers on its own.
EXTENDS Drivers

MCTests == {{"apic", "gnttab"}, {"hpet"}, {"ioapic"}, {"domid"}, {"msr"}}

\* A value tried after one that is not, and one tried last.
MCMsrTests ==
    LET Try(v) == [val |-> v, pred |-> TRUE]
        Skip(v) == [val |-> v, pred |-> FALSE]
    IN  {<<>>, <<Skip(1), Try(2)>>, <<Try(1), Skip(2), Try(0)>>}
=============================================================================
