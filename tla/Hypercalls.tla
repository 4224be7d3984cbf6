----------------------------- MODULE Hypercalls -----------------------------
(***************************************************************************)
(* How the wrappers of xtf/hypercall.h put the arguments of a hypercall    *)
(* into registers, in either width, and what Xen finds there.              *)
(*                                                                         *)
(* A value is the sequence of its 32-bit words, the low one first, and a   *)
(* word is <<name, position>>: arguments differ in their names, and so it  *)
(* shows which word of which argument arrives where.                       *)
(***************************************************************************)
EXTENDS Integers, Sequences

CONSTANT LongWords    \* the words of a long: 1, or 2 in a 64-bit build

Zero == <<"0", 1>>
Words(n, name) == [k \in 1..n |-> <<name, k>>]
uint(name) == Words(1, name)
ulong(name) == Words(LongWords, name)     \* and pointers
uint64(name) == Words(2, name)
NULL == [k \in 1..LongWords |-> Zero]

\* A value in another width: truncated, or extended with zeroes, since every
\* argument is unsigned.
Fit(v, n) == [k \in 1..n |-> IF k <= Len(v) THEN v[k] ELSE Zero]
long(v) == Fit(v, LongWords)
High(v) == Tail(v)                        \* v >> 32

\* Numbers of hypercalls.
__HYPERVISOR ==
    [set_trap_table |-> 0, mmu_update |-> 1, set_gdt |-> 2, stack_switch |-> 3,
     set_debugreg |-> 8, get_debugreg |-> 9, update_descriptor |-> 10, memory_op |-> 12,
     multicall |-> 13, update_va_mapping |-> 14, xen_version |-> 17, console_io |-> 18,
     grant_table_op |-> 20, vm_assist |-> 21, vcpu_op |-> 24, mmuext_op |-> 26, sched_op |-> 29,
     callback_op |-> 30, event_channel_op |-> 32, physdev_op |-> 33, hvm_op |-> 34,
     sysctl |-> 35, argo_op |-> 39]

\* The asm statement: a call into the page with some registers loaded, and those
\* that the compiler takes to be changed by it.
Asm(registers, hcall, args) ==
    LET used == {registers[i] : i \in DOMAIN args}
    IN  [offset |-> hcall * 32, changed |-> {"ax"} \union used,
         loaded |-> [r \in used |-> long(args[CHOOSE i \in DOMAIN args : registers[i] = r])]]

_hypercall64(hcall, args) == Asm(<<"di", "si", "dx", "r10", "r8">>, hcall, args)
_hypercall32(hcall, args) == Asm(<<"bx", "cx", "dx", "si", "di">>, hcall, args)

HYPERCALL(name, args) ==
    IF LongWords = 2 THEN _hypercall64(__HYPERVISOR[name], args)
    ELSE _hypercall32(__HYPERVISOR[name], args)

-----------------------------------------------------------------------------
hypercall_set_trap_table(ti) == HYPERCALL("set_trap_table", <<ti>>)
hypercall_mmu_update(reqs, count, done, foreigndom) ==
    HYPERCALL("mmu_update", <<reqs, count, done, foreigndom>>)
hypercall_set_gdt(mfns, entries) == HYPERCALL("set_gdt", <<mfns, entries>>)
hypercall_stack_switch(ss, sp) == HYPERCALL("stack_switch", <<ss, sp>>)
hypercall_set_debugreg(reg, val) == HYPERCALL("set_debugreg", <<reg, val>>)
hypercall_get_debugreg(reg) == HYPERCALL("get_debugreg", <<reg>>)

hypercall_update_descriptor(maddr, desc) ==
    HYPERCALL("update_descriptor",
              IF LongWords = 2 THEN <<maddr, desc>> ELSE <<maddr, High(maddr), desc, High(desc)>>)

hypercall_memory_op(cmd, arg) == HYPERCALL("memory_op", <<cmd, arg>>)
hypercall_multicall(list, nr) == HYPERCALL("multicall", <<list, nr>>)

\* Mutant: a 32-bit build passes the entry as one argument.
update_va_mapping_short(linear, npte, flags) ==
    HYPERCALL("update_va_mapping", <<linear, npte, flags>>)

hypercall_update_va_mapping(linear, npte, flags) ==
    HYPERCALL("update_va_mapping",
              IF LongWords = 2 THEN <<linear, npte, flags>> ELSE <<linear, npte, High(npte), flags>>)

hypercall_xen_version(cmd, arg) == HYPERCALL("xen_version", <<cmd, arg>>)
hypercall_grant_table_op(cmd, args, count) == HYPERCALL("grant_table_op", <<cmd, args, count>>)
hypercall_vm_assist(cmd, type) == HYPERCALL("vm_assist", <<cmd, type>>)
hypercall_vcpu_op(cmd, vcpu, extra) == HYPERCALL("vcpu_op", <<cmd, vcpu, extra>>)
hypercall_mmuext_op(ops, count, done, foreigndom) ==
    HYPERCALL("mmuext_op", <<ops, count, done, foreigndom>>)
hypercall_sched_op(cmd, arg) == HYPERCALL("sched_op", <<cmd, arg>>)
hypercall_callback_op(cmd, arg) == HYPERCALL("callback_op", <<cmd, arg>>)
hypercall_event_channel_op(cmd, arg) == HYPERCALL("event_channel_op", <<cmd, arg>>)
hypercall_physdev_op(cmd, arg) == HYPERCALL("physdev_op", <<cmd, arg>>)
hypercall_hvm_op(cmd, arg) == HYPERCALL("hvm_op", <<cmd, arg>>)
hypercall_sysctl(arg) == HYPERCALL("sysctl", <<arg>>)
hypercall_argo_op(cmd, arg1, arg2, arg3, arg4) ==
    HYPERCALL("argo_op", <<cmd, arg1, arg2, arg3, arg4>>)

-----------------------------------------------------------------------------
(* The helpers, each with the fields of the structure behind its pointer.  *)
hypercall_console_write(buf, count) ==
    HYPERCALL("console_io", <<uint("CONSOLEIO_write"), count, buf>>)
hypercall_yield == hypercall_sched_op(uint("SCHEDOP_yield"), NULL)

Pointing(call, fields) == [call |-> call, fields |-> fields]

hypercall_shutdown(reason) ==
    Pointing(hypercall_sched_op(uint("SCHEDOP_shutdown"), ulong("&reason")), [reason |-> reason])
hypercall_poll(port) ==
    Pointing(hypercall_sched_op(uint("SCHEDOP_poll"), ulong("&poll")),
             [port |-> port, nr_ports |-> uint("1"), timeout |-> <<Zero, Zero>>])
hypercall_register_callback(arg) == hypercall_callback_op(uint("CALLBACKOP_register"), arg)
hypercall_evtchn_close(port) ==
    Pointing(hypercall_event_channel_op(uint("EVTCHNOP_close"), ulong("&port")), [port |-> port])
hypercall_evtchn_send(port) ==
    Pointing(hypercall_event_channel_op(uint("EVTCHNOP_send"), ulong("&port")), [port |-> port])
hypercall_evtchn_status(status) == hypercall_event_channel_op(uint("EVTCHNOP_status"), status)
hypercall_evtchn_alloc_unbound(ub) ==
    hypercall_event_channel_op(uint("EVTCHNOP_alloc_unbound"), ub)

\* What an unset field holds is 0.
hvm_set_param(idx, value) ==
    Pointing(hypercall_hvm_op(uint("HVMOP_set_param"), ulong("&p")),
             [domid |-> uint("DOMID_SELF"), index |-> idx, value |-> value])
hvm_get_param(idx) ==
    Pointing(hypercall_hvm_op(uint("HVMOP_get_param"), ulong("&p")),
             [domid |-> uint("DOMID_SELF"), index |-> idx, value |-> <<Zero, Zero>>])

-----------------------------------------------------------------------------
(* Xen: the words of each argument that it takes, from the registers of    *)
(* its calling conventions.  Those that held an argument may come back     *)
(* changed.                                                                *)
Handle == LongWords
Abi ==
    [set_trap_table |-> <<Handle>>, mmu_update |-> <<Handle, 1, Handle, 1>>,
     set_gdt |-> <<Handle, 1>>, stack_switch |-> <<LongWords, LongWords>>,
     set_debugreg |-> <<1, LongWords>>, get_debugreg |-> <<1>>, update_descriptor |-> <<2, 2>>,
     memory_op |-> <<LongWords, Handle>>, multicall |-> <<Handle, 1>>,
     update_va_mapping |-> <<LongWords, 2, LongWords>>, xen_version |-> <<1, Handle>>,
     console_io |-> <<1, 1, Handle>>, grant_table_op |-> <<1, Handle, 1>>, vm_assist |-> <<1, 1>>,
     vcpu_op |-> <<1, 1, Handle>>, mmuext_op |-> <<Handle, 1, Handle, 1>>, sched_op |-> <<1, Handle>>,
     callback_op |-> <<1, Handle>>, event_channel_op |-> <<1, Handle>>, physdev_op |-> <<1, Handle>>,
     hvm_op |-> <<LongWords, Handle>>, sysctl |-> <<Handle>>,
     argo_op |-> <<1, Handle, Handle, LongWords, LongWords>>]

Convention == IF LongWords = 2 THEN <<"di", "si", "dx", "r10", "r8">> ELSE <<"bx", "cx", "dx", "si", "di">>

\* The registers that n words fill, and those of each argument.
Slots(n) == IF n <= LongWords THEN 1 ELSE n
SlotsOf(types) ==
    LET first[i \in 1..(Len(types) + 1)] ==
            IF i = 1 THEN 1 ELSE first[i - 1] + Slots(types[i - 1])
    IN  [i \in DOMAIN types |-> SubSeq(Convention, first[i], first[i + 1] - 1)]

\* What Xen takes for an argument of n words in these registers.
Taken(call, regs, n) ==
    [k \in 1..n |-> IF Len(regs) = 1 THEN call.loaded[regs[1]][k] ELSE call.loaded[regs[k]][1]]

\* This call makes this hypercall with these arguments.
Makes(call, name, args) ==
    LET slots == SlotsOf(Abi[name])
        regs == UNION {{slots[i][k] : k \in DOMAIN slots[i]} : i \in DOMAIN slots}
    IN  /\ call.offset = 32 * __HYPERVISOR[name]
        /\ DOMAIN call.loaded = regs
        /\ regs \union {"ax"} \subseteq call.changed
        /\ \A i \in DOMAIN args : Taken(call, slots[i], Abi[name][i]) = Fit(args[i], Abi[name][i])

\* Arguments of each type, to be told apart.
PrimitivesArrive ==
    LET p == ulong("p") q == ulong("q") r == ulong("r") s == ulong("s")
        n == uint("n") m == uint("m")
        x == uint64("x") y == uint64("y")
    IN  /\ Makes(hypercall_set_trap_table(p), "set_trap_table", <<p>>)
        /\ Makes(hypercall_mmu_update(p, n, q, m), "mmu_update", <<p, n, q, m>>)
        /\ Makes(hypercall_set_gdt(p, n), "set_gdt", <<p, n>>)
        /\ Makes(hypercall_stack_switch(n, p), "stack_switch", <<n, p>>)
        /\ Makes(hypercall_set_debugreg(n, p), "set_debugreg", <<n, p>>)
        /\ Makes(hypercall_get_debugreg(n), "get_debugreg", <<n>>)
        /\ Makes(hypercall_update_descriptor(x, y), "update_descriptor", <<x, y>>)
        /\ Makes(hypercall_memory_op(n, p), "memory_op", <<n, p>>)
        /\ Makes(hypercall_multicall(p, n), "multicall", <<p, n>>)
        /\ Makes(hypercall_update_va_mapping(p, x, n), "update_va_mapping", <<p, x, n>>)
        /\ Makes(hypercall_xen_version(n, p), "xen_version", <<n, p>>)
        /\ Makes(hypercall_grant_table_op(n, p, m), "grant_table_op", <<n, p, m>>)
        /\ Makes(hypercall_vm_assist(n, m), "vm_assist", <<n, m>>)
        /\ Makes(hypercall_vcpu_op(n, m, p), "vcpu_op", <<n, m, p>>)
        /\ Makes(hypercall_mmuext_op(p, n, q, m), "mmuext_op", <<p, n, q, m>>)
        /\ Makes(hypercall_physdev_op(n, p), "physdev_op", <<n, p>>)
        /\ Makes(hypercall_sysctl(p), "sysctl", <<p>>)
        /\ Makes(hypercall_argo_op(n, p, q, r, s), "argo_op", <<n, p, q, r, s>>)

HelpersArrive ==
    LET p == ulong("p") n == uint("n") x == uint64("x")
        with(h, name, cmd, fields) ==
            /\ \E at \in {"&reason", "&poll", "&port", "&p"} : Makes(h.call, name, <<uint(cmd), ulong(at)>>)
            /\ h.fields = fields
        self == uint("DOMID_SELF")
    IN  /\ Makes(hypercall_console_write(p, ulong("n")), "console_io",
                 <<uint("CONSOLEIO_write"), n, p>>)
        /\ Makes(hypercall_yield, "sched_op", <<uint("SCHEDOP_yield"), NULL>>)
        /\ Makes(hypercall_register_callback(p), "callback_op", <<uint("CALLBACKOP_register"), p>>)
        /\ Makes(hypercall_evtchn_status(p), "event_channel_op", <<uint("EVTCHNOP_status"), p>>)
        /\ Makes(hypercall_evtchn_alloc_unbound(p), "event_channel_op",
                 <<uint("EVTCHNOP_alloc_unbound"), p>>)
        /\ with(hypercall_shutdown(n), "sched_op", "SCHEDOP_shutdown", [reason |-> n])
        /\ with(hypercall_poll(n), "sched_op", "SCHEDOP_poll",
                [port |-> n, nr_ports |-> uint("1"), timeout |-> <<Zero, Zero>>])
        /\ with(hypercall_evtchn_close(n), "event_channel_op", "EVTCHNOP_close", [port |-> n])
        /\ with(hypercall_evtchn_send(n), "event_channel_op", "EVTCHNOP_send", [port |-> n])
        /\ with(hvm_set_param(n, x), "hvm_op", "HVMOP_set_param",
                [domid |-> self, index |-> n, value |-> x])
        /\ with(hvm_get_param(n), "hvm_op", "HVMOP_get_param",
                [domid |-> self, index |-> n, value |-> <<Zero, Zero>>])
=============================================================================
