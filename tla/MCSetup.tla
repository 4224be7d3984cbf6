------------------------------ MODULE MCSetup ------------------------------
\* Small instances of Setup: one of the builds, the processors and the tables
\* varies at a time.  The tables are all small ones, or those that
\* selftests/heapsort.c has sorted.
EXTENDS Setup

CONSTANT Vary    \* "builds", "processors", "tables" and "selftest"

MCSize ==
    [s \in {"text", "user_text", "data", "user_data", "rodata", "bss", "user_bss"} |->
        IF s \in {"text", "user_data"} THEN 1 ELSE IF s = "user_bss" THEN 2 ELSE 0]

\* Frames in another order than the pages.
MCmfn_list == [p \in {0, 300, 301} \union 256..290 |-> 1000 - 2 * p]

MCSpecialPages == [console |-> 300, store |-> 301, shared_info |-> 4000]

MCMaxLeaves == {<<0, n>> : n \in {1, 6, 7, 12, 13}}
MCMaxExtdLeaves ==
    {<<32768, n>> : n \in {0, 1, 6, 7, 8}} \union {<<0, 13>>, <<40000, 3>>}
MCSignatures ==
    [stepping : {1}, model : {2}, family : {5, 6, 15}, extended_model : {3}, extended_family : {4}]
MCSizes == [phys : {0, 40}, virt : {48}]

PlainHost == [initdomain |-> FALSE, leaves |-> TRUE, console |-> TRUE]
PlainProcessor ==
    [vendor |-> "GenuineIntel", max_leaf |-> <<0, 13>>, max_extd_leaf |-> <<32768, 8>>,
     signature |-> [stepping |-> 1, model |-> 2, family |-> 6, extended_model |-> 3,
                    extended_family |-> 4],
     sizes |-> [phys |-> 40, virt |-> 48]]

\* The arrays of selftests/heapsort.c; its test() looks for pairs out of order.
SelftestTables ==
    {[i \in 0..(Len(t) - 1) |-> t[i + 1]] :
        t \in {<<1>>, <<1, 2>>, <<2, 1>>, <<3, 2, 1>>, <<4, 3, 2, 1>>, <<3, 2, 4, 1>>, <<3, 3, 4, 1>>,
               <<3, 3, 4, 1, 10>>, <<2, 3, 11, 1, 10>>, <<2, 3, 11, 1, 10, 4>>}}

PlainTable == [i \in {0} |-> 2]

MCInit ==
    /\ \/ "builds" \in Vary /\ size = 1 /\ linked = PlainTable /\ processor = PlainProcessor
       \/ "processors" \in Vary /\ size = 1 /\ linked = PlainTable /\ build = "hvm64" /\ host = PlainHost
       \/ /\ "tables" \in Vary /\ processor = PlainProcessor /\ build = "hvm64" /\ host = PlainHost
          /\ size \in 1..MaxEntries /\ linked \in [0..(size - 1) -> 1..3]
       \/ /\ "selftest" \in Vary /\ processor = PlainProcessor /\ build = "hvm64" /\ host = PlainHost
          /\ linked \in SelftestTables /\ size = Cardinality(DOMAIN linked)
    /\ Init

MCSpec == MCInit /\ [][Next]_vars /\ Fairness
=============================================================================
