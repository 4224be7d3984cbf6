-------------------------------- MODULE Setup --------------------------------
(***************************************************************************)
(* A microkernel from its entry point to the test, and the exceptions that *)
(* it meets there: head.S, then arch_setup(), which collects what CPUID    *)
(* says, sorts the exception table, hands over the tables for exceptions,  *)
(* finds hypercalls and maps what it shares with Xen and the toolstack.    *)
(*                                                                         *)
(* The consoles as such are in PvConsole, what may be printed when is in   *)
(* Microkernel, and how find_xen_leaves() searches is in DomId.            *)
(***************************************************************************)
EXTENDS Boot, Cpuid, Extable

CONSTANTS
    SpecialPages   \* the pages of the PV console and of xenstore, and the
                   \* frame of shared_info

ASSUME SetupAssumption ==
    /\ SpecialPages \in [console : Nat, store : Nat, shared_info : Nat]
    /\ {SpecialPages.console, SpecialPages.store}
          \subseteq ((1..(PAGES_4G - 1)) \intersect DOMAIN mfn_list) \ Image
    /\ SpecialPages.shared_info \notin Range(mfn_list) \union Image

VARIABLES
    host,          \* what the domain meets: is it SIF_INITDOMAIN, does an HVM
                   \* guest find Xen's leaves, and has it a PV console
    hypercall_page,\* is it more than poison?
    pointers,      \* xencons_ring and xenbus_ring
    physmap        \* where XENMAPSPACE_shared_info is, in an HVM guest

Hypercalls32 == INSTANCE Hypercalls WITH LongWords <- 1
Hypercalls64 == INSTANCE Hypercalls WITH LongWords <- 2

setupVars == <<host, hypercall_page, pointers, physmap>>
vars == <<bootVars, cpuidVars, tableVars, setupVars>>

SetupSteps ==
    <<"hypercalls">> \o (IF host.initdomain THEN <<>> ELSE <<"console", "xenbus">>)
    \o <<"shared_info">>

Init ==
    /\ BootInit /\ CpuidInit /\ TableInit
    /\ host \in [initdomain : BOOLEAN, leaves : BOOLEAN, console : BOOLEAN]
    /\ todo = HeadSteps \o <<"cpuid", "sort">> \o TrapSteps \o SetupSteps
    /\ hypercall_page = CONFIG_PV
    /\ pointers = [console |-> 0, store |-> 0]
    /\ physmap = 0

-----------------------------------------------------------------------------
Head_S == head /\ UNCHANGED <<cpuidVars, tableVars, setupVars>>

Collect ==
    /\ Step("cpuid") /\ collect_cpuid
    /\ UNCHANGED <<build, state, vcpu, gdt, idt, l1e, tableVars, setupVars>>

\* sort_extable() takes many steps.
SortExtable ==
    /\ state = "boot" /\ todo # <<>> /\ Head(todo) = "sort"
    /\ Sort
    /\ todo' = IF pc' = "run" THEN Tail(todo) ELSE todo
    /\ UNCHANGED <<build, state, vcpu, gdt, idt, l1e, cpuidVars, setupVars>>

InitTraps == arch_init_traps /\ UNCHANGED <<cpuidVars, tableVars, setupVars>>

\* Step s of an HVM guest fails, or any hypercall of a PV guest.
Fails(s) ==
    /\ Step(s)
    /\ state' = "panic"
    /\ UNCHANGED <<build, vcpu, gdt, idt, l1e, cpuidVars, tableVars, setupVars>>

\* HVM guests find the leaves, and Xen fills the page.
init_hypercalls ==
    /\ Step("hypercalls")
    /\ hypercall_page' = (hypercall_page \/ host.leaves)
    /\ state' = IF hypercall_page' THEN state ELSE "panic"
    /\ UNCHANGED <<build, vcpu, gdt, idt, l1e, cpuidVars, tableVars, host, pointers, physmap>>

\* A definition marked "Mutant" is no part of the model: it is what the
\* definition after it would be if the code had the named bug.

\* Mutant: a PV guest takes the frame for the page.
AsItIs(page) == IF CONFIG_PV THEN mfn_list[page] ELSE page

\* A PV guest is told the frame, an HVM guest the page.
FromXen(page) == IF CONFIG_PV THEN mfn_to_virt(mfn_list[page]) ELSE page

\* Without the parameters there is no PV console.
setup_pv_console ==
    /\ Step("console")
    /\ pointers' = IF CONFIG_PV \/ host.console
                   THEN [pointers EXCEPT !.console = FromXen(SpecialPages.console)] ELSE pointers
    /\ UNCHANGED <<build, state, vcpu, gdt, idt, l1e, cpuidVars, tableVars,
                   host, hypercall_page, physmap>>

setup_xenbus ==
    /\ Step("xenbus")
    /\ pointers' = [pointers EXCEPT !.store = FromXen(SpecialPages.store)]
    /\ UNCHANGED <<build, state, vcpu, gdt, idt, l1e, cpuidVars, tableVars,
                   host, hypercall_page, physmap>>

map_shared_info ==
    /\ Step("shared_info")
    /\ IF CONFIG_PV
       THEN /\ l1e' = [l1e EXCEPT ![Page.shared_info] =
                          Pte(SpecialPages.shared_info,
                              {"RW", "P"} \union (IF CONFIG_64BIT THEN {"U"} ELSE {}))]
            /\ UNCHANGED physmap
       ELSE physmap' = virt_to_gfn(Page.shared_info) /\ UNCHANGED l1e
    /\ UNCHANGED <<build, state, vcpu, gdt, idt, cpuidVars, tableVars,
                   host, hypercall_page, pointers>>

\* On to the test.
SetupDone ==
    /\ state = "boot" /\ todo = <<>>
    /\ state' = "run"
    /\ UNCHANGED <<build, todo, vcpu, gdt, idt, l1e, cpuidVars, tableVars, setupVars>>

arch_setup ==
    \/ Head_S \/ Collect \/ SortExtable \/ InitTraps
    \/ init_hypercalls \/ setup_pv_console
    \/ setup_xenbus \/ (~CONFIG_PV /\ Fails("xenbus"))
    \/ map_shared_info \/ Fails("shared_info")
    \/ SetupDone

\* An instruction of the test faults, and do_exception() deals with that.
Faults ==
    /\ state = "run"
    /\ \E a \in Addrs : Exception(a)
    /\ UNCHANGED <<bootVars, cpuidVars, setupVars>>

Dispatch ==
    /\ Search
    /\ state' = IF pc' = "panic" THEN "panic" ELSE state
    /\ UNCHANGED <<build, todo, vcpu, gdt, idt, l1e, cpuidVars, setupVars>>

Stopped == state \in {"panic", "dead"} /\ UNCHANGED vars

Next == arch_setup \/ Faults \/ Dispatch \/ Stopped

Spec == Init /\ [][Next]_vars

\* The vCPU goes on.
Fairness == WF_vars(arch_setup) /\ WF_vars(Dispatch)

-----------------------------------------------------------------------------
\* No exception is raised before it can be handled, be it for want of a page to
\* fetch from, and none can be handled before the table of the fixups is sorted.
\* Once the test runs, each gets from any privilege to its own entry point, with
\* kernel privilege in code of the right width, with interrupts off, and on a
\* stack: the second page of boot_stack[] from user code, the third for a double
\* fault where the hardware has a way, and else the current one ("XTF Stack
\* layout", setup.c).  User code may raise three of them itself.
ExceptionsAreDelivered ==
    /\ state # "dead"
    /\ ~CONFIG_PV => Translate(Page.text).page = Page.text
    /\ idt # <<>> => \A i, j \in Positions : i < j => Fault(i) <= Fault(j)
    /\ state = "run" =>
          /\ \A v \in Vectors : \A cpl \in {KERN, USER} :
                Delivery(v, cpl) =
                    [ip |-> entry(v), cpl |-> KERN, bits |-> Bits, masks |-> TRUE,
                     stack |-> IF v = X86_EXC_DF /\ ~CONFIG_PV THEN 3
                               ELSE IF cpl = USER THEN 2 ELSE 0]
          /\ \A v \in Vectors :
                SoftwareMay(v, USER) <=> v \in {X86_EXC_BP, X86_EXC_OF, X86_VEC_RET2KERN}
          /\ ~CONFIG_PV => /\ LoadsCs(__USER_CS, USER) /\ LoadsSs(__USER_DS, USER)
                           /\ CodeBits(Descriptor(__USER_CS)) = Bits

\* Pages of the image, and those at the ends of tables.
Samples == Image \union {0, 1, 255, 511, 512, 513, 1023, 1024, 262143, 262144, 1048575, 1048576}

\* Page p leads to t, what it should lead to.
MeansItself(p, t) ==
    /\ (IF CONFIG_PV THEN p \in Image ELSE p < PAGES_4G /\ (p > 0 \/ CONFIG_PAGING_LEVELS = 0)) =>
          /\ "P" \in t.flags
          /\ "RW" \in t.flags <=> ~(CONFIG_PV /\ p = Page.gdt)
          /\ ~(CONFIG_PV /\ p = Page.shared_info) =>
                t.page = IF CONFIG_PV THEN mfn_list[p] ELSE p
    /\ (p = 0 /\ CONFIG_PAGING_LEVELS > 0) => t = NoPte
    /\ CONFIG_PAGING_LEVELS \in {2, 3} => ("U" \in t.flags => p \in UserPages)
    /\ (~CONFIG_PV /\ CONFIG_PAGING_LEVELS > 0) => ("U" \in t.flags <=> p \in UserPages)

\* Every page below 4G, of a PV guest every page of its image, is mapped to
\* what it should be ("All memory from 0 to 4GB is identity mapped", mm.h), and
\* the page of shared_info still is when Xen's has come in its place.  Page 0
\* catches NULL pointers, and user code reaches what is meant for it and nothing
\* else, as far as there is such a thing in the build.
AddressesMeanThemselves ==
    state = "run" => \A p \in Samples : MeansItself(p, Translate(p))

\* The frame that an entry with this page gives.
FrameAt(page) == IF physmap # 0 /\ page = physmap THEN SpecialPages.shared_info ELSE page

\* What there is to find behind the pointers.
Rings ==
    IF host.initdomain THEN {}
    ELSE {"store"} \union IF CONFIG_PV \/ host.console THEN {"console"} ELSE {}

\* The test starts with Xen's shared_info and, unless it is the initial domain,
\* with xenstore and, where there is one, with the PV console at the addresses
\* that it uses.
SharedWithXen ==
    LET frame(page) == IF CONFIG_PV THEN mfn_list[page] ELSE page
        shared == {<<Page.shared_info, SpecialPages.shared_info>>}
                  \union {<<pointers[r], frame(SpecialPages[r])>> : r \in Rings}
    IN  state = "run" =>
          /\ \A s \in shared : FrameAt(Translate(s[1]).page) = s[2]
          /\ \A r \in {"console", "store"} \ Rings : pointers[r] = 0

\* Does every hypercall of a build of either width arrive?
Arriving ==
    [is64 \in BOOLEAN |->
        IF is64 THEN Hypercalls64!PrimitivesArrive /\ Hypercalls64!HelpersArrive
        ELSE Hypercalls32!PrimitivesArrive /\ Hypercalls32!HelpersArrive]

\* A test can make hypercalls, and whatever the wrappers of the build are given
\* arrives with Xen, every half of it where the calling convention of that width
\* has it: "Hypercall primatives, compiled for the correct bitness"
\* (xtf/hypercall.h).
HypercallsArrive ==
    state = "run" => hypercall_page /\ Arriving[CONFIG_64BIT]

\* What the test knows of the processor is what the processor says: a word of
\* x86_features[] has the register documented for it, or is 0 where there is no
\* such leaf, and addresses have the width stated or else 36 bits.
FeaturesAreTheCpus ==
    state = "run" =>
        /\ \A w \in 0..(FSCAPINTS - 1) : w # FEATURESET_Da1 => WordIsTheCpus(w)
        /\ x86.maxphysaddr = IF Has(Extended(8)) /\ processor.sizes.phys # 0
                             THEN processor.sizes.phys ELSE 36

\* "Intel-defined CPU features, CPUID level 0x0000000D:1.eax, word 4"
\* (cpufeatureset.h).
XsaveFeaturesAreTheCpus == state = "run" => WordIsTheCpus(FEATURESET_Da1)

\* The microkernel gets as far as the test, or panics, and every exception is
\* resolved or ends in a panic: heapsort() and search_extable() come to an end.
Settles ==
    /\ state = "boot" ~> state \in {"run", "panic"}
    /\ pc \in {"search", "dispatch", "hook"} ~> pc \in {"run", "panic"}
=============================================================================
