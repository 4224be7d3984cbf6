# The Xen Test Framework in TLA+

XTF builds small microkernels, one per test and environment, each of which runs
as a Xen domain, does something to the hypervisor, prints a result on its
console and powers off.  `xtf-runner` creates these domains one after the other
and turns the last console lines into a result.  This directory models XTF
itself, from the entry point of a microkernel to the exit code of the runner,
and proves the most important facts about it.  What the tests find out about
Xen is not its subject.

## 1. Inventory

| Component | Source | State it keeps | Operations | What is hard | What makes it correct |
|---|---|---|---|---|---|
| XenBus client | `common/xenbus.c`, `xen/io/xs_wire.h` | `xb_ring`, `xb_port`, the static `payload[]`, two shared rings with free-running indices, `evtchn_pending[]` | `init_xenbus`, `xenstore_init`, `xenstore_read` (over `xenbus_write`, `xenbus_read`) | xenstored runs concurrently on the same page; wake-ups; index wrap; over-long and error replies | a call returns the reply to its own request; no overrun; no lost wake-up; every call returns |
| PV console | `common/console.c` | `pv_ring`, `pv_evtchn`, `output_fns[]`, `nr_cons_cb` | `pv_console_write`, `pv_console_read_some`, `register_console_callback`, `vprintk` | xenconsoled runs concurrently; a panic may nest in a write | output whole, once and in order; a write is synchronous; a read sleeps only without news |
| Formatting, strings | `common/libc/*`, `arch/x86/decode.c`, `div.h` | the cursor in the buffer | `vsnprintf_internal`, `fmt_number`, `fmt_string`, `pointer`, `divmod64`; `memcpy` to `strncmp` | truncation, flags that interact, `\n` to `\r\n`, 64-bit division in halves | what C11 says; never writes past the end; says how long the whole would be |
| Start-up and exit | `arch/x86/setup.c`, `common/setup.c`, `common/lib.c` (`panic`) | which consoles, hypercalls and rings are up | `arch_setup` and its steps, `xtf_main`, `panic`, `arch_crash_hard` | each step may fail while the machinery to say so is not up yet | every domain ends, and a failure is never a success |
| Reporting | `common/report.c` | `status`, `warnings` | `xtf_success` ... `xtf_failure`, `xtf_report_status`, `xtf_exit` | reports in any order, none at all, or a fault after a report | the worst report is the result |
| Boot code, tables | `head.S`, `pagetables.S`, `link.lds.S`, `desc.c`, `*/traps.c`, `page-*.h`, `desc.h` | `gdt[]`, `idt[]`, `tss`, page tables, `pv_default_trap_info`, the registers | the entry point, `arch_init_traps`, `setup_pv_console`, `map_shared_info` | six builds with four formats of tables; a wrong entry is met only by the fault or address that uses it | exceptions and addresses lead where they should |
| Hypercall wrappers | `xtf/hypercall.h`, `arch/hypercall-x86_*.h` | none | all `hypercall_...` | 64-bit values in 32-bit builds; pointers against values | Xen finds each argument where its ABI says |
| CPUID collection | `arch/x86/setup.c`, `cpuid.h` | `x86_features[]`, `x86_vendor`, ... | `collect_cpuid` | which leaves there are | a bit says what the processor says |
| Exception table | `common/extable.c`, `heapsort.c`, `arch/x86/traps.c` | the table between two symbols of the linker | `sort_extable`, `heapsort`, `search_extable`, `do_exception` | any order of the linker; equal addresses; the ends of the search | a fault goes to its fixup, the hook or a panic, and to nothing else |
| Exception entry, user mode | `entry_32.S`, `entry_64.S`, `*/traps.c`, `arch/x86/extable.c` | the stacks, `exec_user_efl_and_mask`, ..., `user_sp` | entry stubs, `do_syscall`, `do_evtchn`, `exec_user_param` | a fault at any instruction of a stub, of user code or of a handler | an interrupted context finds its stack and registers again; `exec_user_param()` is a call |
| Grant tables | `common/grant_table.c`, `arch/x86/grant_table.c` | `set_version_unavailable`, `gnttab_mapped` | `xtf_init_grant_table`, `arch_map_gnttab` | old Xen without `set_version`; a mapping that fails half way, and a retry | success means the requested version and a mapped table |
| APIC | `arch/x86/apic.c`, `apic.h` | `cur_apic_mode`, the device | `apic_init`, `apic_icr_write` | mode transitions that fault | legal transitions; the driver's idea of the mode is the hardware's |
| IO-APIC | `arch/x86/io-apic.c` | `nr_entries`, the device | `ioapic_init`, `ioapic_set_mask` | an indirect window; status bits that change by themselves | changes the mask bits asked for and nothing else |
| HPET | `arch/x86/hpet.c` | `hpet_nr_timers`, the device | `hpet_init_timer`, `hpet_read_counter` | 64-bit registers through 32-bit accesses while the counter runs | reads are not torn, timers fire as asked |
| MSRs | `arch/x86/msr.c`, `msr.h` | none | `rdmsr_safe`, `wrmsr_safe`, `xtf_msr_consistency_test` | Xen may hold a register twice | complains of exactly the reads that are wrong |
| Domain id | `common/lib.c` | none | `xtf_get_domid` and its three probes | sources that are missing or malformed; the probe port is to be closed | the id or -1 |
| Runner, selection | `xtf-runner` | cached test info and capabilities | `interpret_selection`, `tests_from_selection`, `parse_test_instance_string` | filters that combine | the tests listed are the intersection of what was asked for |
| Runner, execution | `xtf-runner` | results so far, worst result | `list_tests`, `run_tests`, `run_test_console`, `run_test_logfile` | a domain may die anywhere; xl may fail | each result is what happened; the exit code is the worst |
| Other helpers | `arch/x86/vmx.c`, `x86-tss.c`, parts of `decode.c` | none | printing of structures, wrappers of one instruction | | not modelled |
| Tests | `tests/*` | their own | `test_main` | they exercise Xen, not XTF | not modelled: what they check is the hypervisor's behaviour |
| Headers, build | `include/xen/*`, `arch/x86/include/*`, `build/*`, `Makefile`s | none | | | not modelled, beyond what the components above use |

How they interact: everything prints through `vprintk`, which formats into one
static buffer and calls every registered console in turn; `panic` prints, then
shuts the domain down; an exception enters through a stub, calls
`search_extable`, then the hook, then `panic`, and may do so in the middle of
any of the others, a console write included; XenBus and the PV console share
memory and event channels with daemons in other domains, at addresses that the
boot code and `arch_setup()` have mapped; the drivers are called by tests in any
order; the runner sees nothing of a domain but its console and its
disappearance.

## 2. Modules

| Module | Models | Theorems in |
|---|---|---|
| `Xenbus` | `common/xenbus.c` | `Xenbus_proofs` |
| `XenstoreRpc` | what `xenstore.h` promises: a synchronous call (abstract) | |
| `XenbusRpc` | the refinement mapping from `Xenbus` to `XenstoreRpc` | |
| `PvConsole` | the PV console of `common/console.c`, and a panic in the middle of it | `PvConsole_proofs` |
| `ConsoleStream` | what `console.c` promises of its console: two streams and a synchronous write (abstract) | |
| `PvConsoleStream` | the refinement mapping from `PvConsole` to `ConsoleStream` | |
| `C11Format` | what C11 says a conversion prints (reference) | |
| `Format` | `vsnprintf_internal()` and what it calls, `snprintf()`, `vprintk()` | `Format_proofs` |
| `Strings` | `common/libc/string.c`, and what C11 says of it | |
| `Selftests` | the cases of `selftests/vsnprintf.c`, as inputs of `Format` | |
| `Microkernel` | start-up, reports, exit and panic of one domain | |
| `Selection` | `interpret_selection()`, `tests_from_selection()` | `Runner_proofs` |
| `Runner` | `main()` of `xtf-runner`: the selection, and the tests run over domains of `Microkernel` | `Runner_proofs` |
| `Extable` | `sort_extable`, `heapsort`, `search_extable`, `do_exception` | `Setup_proofs` |
| `Descriptors` | segment descriptors and gates as bytes, `gdt[]` | |
| `PageTables` | the image's layout and the page tables | |
| `Boot` | the entry point and `arch_init_traps()`, and what the processor and Xen make of them | |
| `Cpuid` | `collect_cpuid()` | |
| `Hypercalls` | the wrappers of hypercalls in either width | |
| `Setup` | a microkernel from its entry point through the faults of its test: `Boot`, `Cpuid`, `Extable` and `Hypercalls` composed | `Setup_proofs` |
| `Traps` | the entry stubs, the handlers, `exec_user_param()` | `Traps_proofs` |
| `GrantTable` | `xtf_init_grant_table`, `arch_map_gnttab` | `Drivers_proofs` |
| `Apic` | `apic_init`, `apic_icr_write` | `Drivers_proofs` |
| `IoApic` | `ioapic_init`, `ioapic_set_mask` | `Drivers_proofs` |
| `Hpet` | `hpet_init_timer`, `hpet_read_counter` | `Drivers_proofs` |
| `DomId` | `xtf_get_domid()` | `Drivers_proofs` |
| `Msr` | `rdmsr_safe`, `wrmsr_safe`, `xtf_msr_consistency_test` | `Drivers_proofs` |
| `Drivers` | a test that uses drivers, composed of the six before | `Drivers_proofs` |
| `Arithmetic` | nothing of the code: remainders, induction over a set of numbers, concatenation, for the proofs | itself |
| `MC...` | small instances for TLC | |

`PROJECT.json` maps each definition to the lines that it stands for.  Some
definitions are marked *Mutant*: they are not part of a model, but what the
definition after them would be with a plausible bug; with one of them put in
the place of the original, the property it belongs to fails (`PROJECT.json`,
"mutants").

### How the modules correspond to the code

*One step* of a model is what the rest of the system cannot divide or does not
see: between two accesses to shared memory where a daemon or a device runs
beside the code (`Xenbus`, `PvConsole`, `Hpet`, `IoApic`), between two calls that
may fail (`Microkernel`, `GrantTable`, `DomId`, `Setup`), between two hardware
accesses that may fault (`Apic`, `Msr`), one instruction or group of them that
an exception cannot divide (`Traps`), one iteration of a loop (`Extable`,
`Selection`, `Format`).  A variable `pc` (or `stage`, `step`, `todo`) says where
the code is.

- **Xenbus.** `stage` is the place in `xenstore_read()`, `pc` the place in the
  loop of `xenbus_write()` or `xenbus_read()` that it is in.  `WriteSample` and
  `ReadSample` take both indices and compute `part`, `WriteCopy` is the
  `memcpy()`, `WritePublish` the store of the index; `Kick`, `TestAndClear` and
  `Poll` are the three steps of waiting.  `len`, `done`, `part`, `cons`, `prod`
  are the functions' variables.  A byte is named by its call and its place in
  the message, so that order, loss and mixture can be told.  A header that is
  put together from bytes that are no header may be any of `StrayHdrs`.
  xenstored (`Srv...`) takes and gives any number of bytes per turn, notifies
  after moving an index, and sleeps only when it has nothing to do.
- **PvConsole.** `WriteSome`, `WritePublish`, `WriteKick`, `WaitSpace` and
  `WaitDrain` are `pv_console_write()`; `ReadTest`, `ReadCheck`, `ReadPoll`,
  `ReadCopy` and `ReadPublish` are `pv_console_read_some()`, with the two
  operands of its `||` apart.  `Exception` abandons a write half way for the one
  of `panic()`.
- **Format.** A format is a sequence of items, of which `Conversion` keeps both the
  spelling, for the code to parse, and the parts, for `C11Format` to interpret;
  an argument is the bit pattern that `va_arg()` finds.  The actions are the parts of the loop of `vsnprintf_internal()`, from
  `Regular` over `Flag`, `Width`, `Precision` and `Length` to the conversion; what
  this prints waits in `todo`, from where `Put` is `PUT()`, one character.  `mem` is
  the buffer and the `Guard` cells after it.  The widths of `char`, `short`, `int` and
  `long long` are constants, so that truncation and sign extension happen at
  small numbers.  A call of `printk()` ends in the callbacks or in the panic of
  `vprintk()`.  **Strings** has no behaviour: its functions are compared with C11
  on every memory.
- **Microkernel** has an action for each step of `arch_setup()`, each of which
  may end in `Panic`, and for each call of a test.  What the domain leaves is a
  sequence of console lines.  **Runner** reads them as `run_test_console()` or
  `run_test_logfile()` does, for the tests that **Selection** has found:
  an argument is a record where the program takes a string apart; each filter of
  `tests_from_selection()` is a step, and an empty `res` has both meanings that
  it has there.
- **Extable.** `Build`, `Sift`, `Sifted`, `Extract` are the loops of `heapsort()` and
  `siftdown()`, position by position; `Probe` is one turn of the binary search,
  whose bounds are both inclusive as in the code; `beyond` is the word that
  follows the table in memory.
- **Descriptors, PageTables, Boot.** Numbers that hardware takes apart are tuples
  of bytes, built as `desc.h` packs them and read back as the architecture says, so
  that a field in the wrong place is one in the model too; an address is a
  page number, a page table an array of entries with flags.  `Boot`
  keeps a list `todo` of the steps that are to come, one per function or group of
  instructions; `Delivery` says where the processor, or Xen for a PV guest, goes
  for an exception, `Translate` where it goes for an address.
- **Cpuid** names a register that is only passed on by its leaf; a field that is
  computed with is a number.  **Hypercalls** names each 32-bit word of each
  argument: the wrappers are operators that place them in registers.  Commands
  and structures keep their names; Xen's side is external.
- **Setup** interleaves nothing: it is the sequence of `arch_setup()` in one
  build, on a host where any hypercall may fail, followed by any number of
  faults.  The table it sorts is that of `Extable`, of which it is an
  implementation.
- **Traps.** Memory is an array of words; every push, pop and `iret` of a stub is on
  it, and what the code may not rely on (below the stack pointer) is
  cleared.  A test calls `exec_user_param()`; the test, user code and handlers are
  interrupted anywhere, by faults, system calls and events, up to `MaxNest` deep.
  `interrupted` and `call`, histories, keep what each interrupted context and call had.
  It begins where `arch_init_traps()` ends; `user_stack`
  is the third page of `boot_stack`.
- **GrantTable.** Each hypercall is a step that may fail; the flags that outlive a
  call and the variables that do not are kept apart.
- **Apic** pairs the driver with the rules of the hardware (`Legal`, `SetBase`,
  `Access`): a write that the mode does not admit faults, or is lost.  `hw.window`
  stands for the base address.
- **IoApic** makes each access through the window a step, between which status
  bits change.  **Hpet** lets the counter tick between any two accesses of the
  driver; the two words of a 64-bit register are written or read one by one in a
  32-bit build (`is64 = FALSE`).
- **Msr** gives Xen two copies of a register, which plain and emulated
  instructions may or may not share, and lets it take one over at any time.
- **DomId** takes the text of xenstore digit by digit through the code's
  conversion, and keeps the set of open ports.
- **Drivers** lets one vCPU make calls of the drivers it is linked with, one after
  the other, with all devices at work; drivers of devices are linked into HVM
  tests only.

## 3. Runs

| Run | Question | Bounds, and why they are enough |
|---|---|---|
| `xenbus_replies` | Does `xenstore_read()` return its own reply, in the end, on every kind of event channel? | 2 calls; ring of 4 bytes with indices modulo 8; header 2, payload at most 3, replies of 0 to 7 bytes, paths of 0 and 4. Messages are shorter than, equal to and longer than the ring and the buffer, the indices wrap on the way, and the second call meets what the first left. An error reply comes in the last call only: what it leaves behind is the next run's subject |
| `xenbus_stale_reply` | Is a call right after one that got an error? (No.) | the same ring, errors in any call |
| `format` | Is what is printed, or put together by the string functions, what C11 says, and does it stay in its buffer? | the cases of `selftests/vsnprintf.c` and some 8000 others: buffers of 0 to 12 characters, shorter and longer than the text and as long; all conversions, with flags, widths, precisions, length modifiers and the ends of every type's range; widths of 4, 8, 12 and 24 bits, so that every type truncates. Memories of 5 cells over {0, 1, 255}: a NUL, and bytes that compare differently signed and unsigned |
| `format_exact_fit` | Do the consoles get a text as long as the buffer? (No.) | the same calls |
| `pv_console` | Is output whole, in order and synchronous, is input, and what does a panic in the middle change? | rings of 4 and 2 bytes, indices that start at 15 of 16, so that both wrap at once; messages of 1 byte and of the whole ring; 2 messages, 3 bytes typed, reads of 1 and of 2. `MaxLog` cuts only what follows a panic |
| `pv_console_panic` | Is the message of that panic readable? (No.) | the same |
| `runner` | Is the selection what was asked for, each result what happened, and the exit code the worst of them? | 2 tests, with and without variations, of a default and another category, one or two environments; up to 3 arguments of any kind, which is every pair of filters and one after them. Command lines that run tests select up to 2, of up to 2 reports each, the fewest with an order; every kind of domain, every failure of start-up; the two modes |
| `selection_emptied` | Is the selection the intersection also when a filter leaves nothing? (No.) | the same |
| `setup` | Do exceptions, addresses and hypercalls lead where they should, from the entry point on? | all six builds; one extra page in one section and none in the next; processors with every number of leaves around those that the code asks for; tables of up to 6 entries at 3 addresses, so with equal ones, and those of `selftests/heapsort.c`. One of builds, processors and tables varies at a time: no step reads two of them |
| `cpuid_xsave` | Does the word of XSAVE features hold features? (No.) | the processors of `setup` |
| `traps` | Does every interrupted context go on as it was? | four environments, with and without remapped user sections; pages of 44 words, the least that hold the deepest stacks; contexts interrupted up to 2 deep, so a handler's fault within a fault |
| `drivers` | Do the drivers do as they say, in any order of calls? | grant table: 2 pages, 3 versions (one that no Xen knows), 3 ages of Xen; APIC: every mode and place it may be found in, 2 destinations and 2 commands; HPET: words of 2 values and a counter of 4, the least that carries from word to word, 2 timers, both builds; IO-APIC: none or 2 entries; ids 0 and 12, of one digit and two; MSR tests of up to 3 values. The APIC is composed with the grant table, whose calls map pages beside it; the others share no state and run alone. Any number of calls, until the HPET's counter ends |

Each property is stated and explained above its definition.  The deeper ones:

- `ReadReturnsReply`, `ImplementsRpc` (Xenbus): the reply returned is that of
  the same call, and the whole client implements the atomic exchange of
  `XenstoreRpc`; `NoLostWakeup`: whatever xenstored does between the look at the
  ring and the poll, the event is pending or on its way.
- `StreamsInOrder`, `WriteIsSynchronous`, `SleepsOnlyWithoutNews` (PvConsole);
  `ImplementsStream`: the whole driver implements the two streams of
  `ConsoleStream`, and every write returns that no panic interrupts.
- `TextIsC11`, `BufferHoldsText` (Format): independent of how the code parses.
- `FramesAreTrue`, `ResumesAsInterrupted`, `ExecUserIsACall` (Traps): over faults
  nested anywhere in the stubs' reach.
- `ExceptionsAreDelivered`, `AddressesMeanThemselves`, `SharedWithXen`,
  `HypercallsArrive` (Setup): byte for byte what hardware and Xen make of the tables.
- `SelectsWhatWasAsked`, `ConsoleResultsAreRight`, `NoReportLost`,
  `ExitCodeIsWorst` (Runner) relate what was asked and what a test did to what the
  runner concludes, from the console alone.
- `LookupIsRight` (Extable): the search finds an entry if and only if there is one.
- `GnttabAnswersAreRight`: over any history of partial failures.
- `RegistersReached`, `ApicAnswersAreRight`, `IpisAreWhole` (Apic); `ReadIsNow`,
  `FiresAsAsked`, `TimersFire` (Hpet); `MasksAsAsked` (IoApic); `DomIdIsOwn`;
  `MsrAnswersAreRight`.

Deadlock is checked everywhere but in the `format` runs, whose calls end, and in
`xenbus_stale_reply`, where a call may wait for a reply for ever, which is part
of what it shows.

### Fairness

Safety needs none.  Where liveness is checked:

- `Xenbus`: a guest inside a call keeps running (Xen schedules its only vCPU, and
  `hypercall_poll()` returns once the event is pending: `Poll` is enabled
  only then), and xenstored serves its channel.  Both are weak fairness of a whole
  process.  Nothing makes a test call `xenstore_read()`.
- `PvConsole`: likewise the guest in a write or a read, and xenconsoled.  That
  somebody types is not assumed.
- `Runner`: the domain and the runner keep running.  This takes for granted
  that `test_main()` returns, crashes or exits: its loop of reports is bounded.
- `Setup`: the vCPU goes on, in `arch_setup()` and in `do_exception()`.
- `Drivers`: a call of the HPET driver that has begun goes on, and the counter
  ticks while it is enabled; calls need not come.

## 4. Proofs

All proofs hold for every value of the constants that satisfies the named
assumptions of the module, and rest on nothing else but what is said here.  Each
establishes an inductive invariant in three facts (initially, each step, implies
the property), with a lemma for each conjunct that has more than one or two
disturbing steps.  **Arithmetic** has what several of them need: remainders of
sums and of multiples, the least element of a set of numbers, from which
induction follows for any claim that is the membership of a set (`SetInduction`),
and when a sequence is a concatenation.

- **Xenbus_proofs** (`RingAssumption`: the index width is a multiple of the ring
  size; `WireAssumption`; `EvtchnAssumption`), in four layers.
  - *Bounds.*  `IndInv` adds to the checked invariants `TransferInv`: a transfer
    *owns what it sampled*.  The index that the guest advances has not moved since,
    and `part` fits before the end of the ring and into the free space or the data,
    since xenstored only ever adds to these.  `RingBounds` alone is not inductive:
    between sampling and publishing it says nothing of where `part` came from.
    `LengthInv` ties the remaining length to the header, which bounds the payload
    for every announced length.  Modular arithmetic is confined to lemmas on
    `IdxAdd`, `IdxSub` and `Mask`.  This layer, and the next, cover any reply to any
    call, error replies and stray headers included.
  - *Requests* (`RequestsArriveInOrder`).  `ChainInv` reads what xenstored has, what
    waits in the ring and the byte to be sent next as one stream, in which each byte
    is followed by its successor.  Taking bytes leaves the stream alone, publishing
    extends it; `WritesInv` says that what is copied but not yet published are the
    next bytes.  That a run of bytes published at once continues the stream is an
    induction over its length.
  - *Replies* (`RepliesReturn`).  `TurnInv` says which calls are answered and whose
    request is first in the stream above, `IncomingInv` that what waits in the
    response ring and what xenstored has yet to write is what is still owed of the
    current reply, byte for byte, and `ReceivedInv` that what was copied lies in its
    place.  This layer assumes `ErrorsAreEmpty`, that no call but the last gets an
    error reply with a payload: without it the property is false, which is the
    finding of `xenbus_stale_reply`.
  - *Refinement* (`CallsAreSynchronous`).  Under the same assumption every behaviour
    is one of `XenstoreRpc` by the mapping of `XenbusRpc`: a call begins with
    `xenstore_read()`, is served when xenstored answers the whole request it has taken,
    returns once, with what it was served, and every other step is a stutter.
    `ImplementsRpc`, which the run checks, adds the fairness.
- **PvConsole_proofs** (`RingAssumption` again, and the same arithmetic of
  indices).  What is proved of is `Stream`, all that xenconsoled took followed by what
  lies in the ring: taking leaves it alone, publishing appends a part.  `OutInv`
  says that a part which is copied but not published is a piece of the message
  in free space, and that the stream ends with a message that went in one part;
  a write returns only from such a one, which is why `WritesAreSynchronous` needs
  no assumption on the length of messages, nor that no panic interrupts.
  `OrderInv` adds that, until a panic, a write finds the ring empty; for this and
  so for `StreamsKeepOrder` every message has to fit the ring (`MessagesFit`).
  `InInv` is the same for input, where a read that has copied but not released
  counts from `rprod` on, and ties each event to what it announces.
  - *Refinement* (`ConsoleIsAStream`, with `MessagesFit` too).  Every behaviour is
    one of `ConsoleStream` by the mapping of `PvConsoleStream`: what is on the screen
    is what xenconsoled took, so that its turn is the step that shows bytes, the
    end of `pv_console_write()` the one that returns, and everything between is a
    stutter.  `TurnInv` says what the mapping needs beyond the invariants: until a
    panic the ring holds nothing but bytes of the last message, so that what is
    missing on the screen is what is in the ring.
    `ImplementsStream`, which the run checks, adds the fairness.
- **Format_proofs**: the cursor counts on past the end of the buffer while the
  buffer keeps what fitted (`BufferSafety`, for every size and whatever the
  conversions print), so the comparison of `vprintk()` lets every text shorter than
  its buffer through whole (`ConsoleTextSafety`; for one as long it is false, run
  `format_exact_fit`).  The arithmetic of `divmod64()` in two divisions: they never
  overflow, and together give the quotient (`NoDivideError`, `DivMod64Divides`).
- **Traps_proofs**, in every build, for stacks of any size and contexts interrupted
  to any depth that fits (`StackAssumption`: 16 words for each and ten for the test
  and `exec_user_param()`; nothing in the code checks for an overflow, and with one
  the theorems are false).
  - `TrapsInvariant`: the first context that is interrupted is the test or a place in
    the call of a function at user privilege, with what `exec_user_param()` and its
    stub need in the words that they return by (`LowestInv`); every other one is a
    handler that stands right below the frame of the context before (`HandlersInv`);
    each frame holds its context, ends above the floor for its depth, and lies below
    all earlier ones (`FramesInv`).  `FramesAreTrue` alone is not inductive: that an
    entry overwrites no frame depends on where the code that is interrupted stands.
  - `FramesAlwaysTrue` reads `FramesAreTrue` off the frames, `cpu_regs_sp()` in 32 bit
    included, where the frame of kernel code holds no stack pointer;
    `AlwaysResumed` (`ResumesAsInterrupted`): `RESTORE_ALL` and `iret` give the context
    back, register by register; `AlwaysACall` (`ExecUserIsACall`).
- **Setup_proofs**, first of `Extable` on its own, for every table: `SortInv` is the
  heap property with a hole at the sinking entry, and the sorted tail; `SearchInv`
  says that what lies outside the bounds is not at the address.  `Sorts` and
  `KeepsEntries` have no further assumption; `LookupFinds` assumes that the word
  after the table is no faulting address (`Beyond \intersect Addrs = {}`), without
  which it is false.  Then of `Setup`, for every build, processor, image layout and
  frame list.
  - The whole microkernel implements `TableSpec` of `Extable` (`SetupRefinesTable`,
    the refinement mapping being the identity on the table's variables:
    `arch_setup()` sorts once, nothing else writes the table), and so inherits
    `LookupFinds`.
  - `SetupInvariant`: what is set up is what the steps taken so far make of it.
    `TodoInv` ranks the steps of the entry point, `arch_init_traps()` and
    `arch_setup()`: the list `todo` rises in rank and only loses its head, so a step
    runs once, after those it depends on.  What depends on a step is then stated by
    whether it is still pending: `CollectedInv` (CPUID), `PagingInv` (the registers),
    `HvmPagesInv` and `PvPagesInv` (the level 1 entries), `NullInv`, `SharedInv`.
  - `AddressesAreRight` walks the tables of each build symbolically: one lemma for
    a level that leads on, one for the last, one for a missing entry, and what
    indices of an address are, by lemmas on division.  It rests on `ImageAssumption`,
    that the image ends before the level 1 table does, which the linker script
    asserts (`arch/link.lds.h:37`).  `SharedIsFound` follows from `SharedInv` and
    these walks.
  - `FeaturesAreKnown` assumes `BasicLeavesAreBasic`, that the highest basic leaf of
    a processor is below 0x10000, as every processor's is: `collect_cpuid()` would
    take a number above for more leaves, the property takes it for something else.
  - `ExceptionsAreHandled` needs a second invariant beside `SetupInvariant`, since
    whether a step faults depends on what the earlier ones loaded.  `ExceptionInv`
    says that no step of another kind of build is pending (`KindInv`), that paging
    comes on only after its registers are set (`OrderInv`), that the exception table
    is in order before the `idt[]` is handed over (`SortedInv`), that the text page
    is mapped at itself whether paging is on or not (`TextInv`, so that the next
    instruction and the handlers are found), what `gdt[]`, `idt[]` and the
    descriptor of the TSS hold so far (`TablesInv`), and that the guest is not dead.
    The lemmas under it say what a packed descriptor or gate reads back as
    (`SegmentsAre`, `GatesAre`, `OffsetIs`, `TssIsPacked`), for every address; the
    order of the table comes from `Sorts` through `SetupRefinesTable`.
- **Runner_proofs**, in two halves.  For the selection: what each stage has made
  of it, for every catalogue and command line.  For the execution: `GuestInv` says
  of a domain at each stage of its life what `status` and its last console lines
  are (the status is the worst report; the console ends with it once it is
  printed, and before that holds no line that looks like a result), `Recorded`
  that the results of the finished tests are what those domains deserved, and
  `Running` relates the runner's step to the domain's.  `ExitCodeIsWorst` alone is
  not inductive: it is about the worst of results that come later.  Any number of
  tests and reports.
- **Drivers_proofs**: of the APIC, the hardware's mode at each place of
  `apic_init()`; its theorems assume `NeverDisables`, that no test asks for
  `APIC_MODE_DISABLED`, without which `RegistersReached` is false (section 5).
  Of the grant table, what a call has achieved at each step,
  and what the stale `rc` may still be, for any number of pages; of the IO-APIC,
  which entry the window selects between two accesses; of the HPET, that the
  counter stands still while a timer is written, and that a reader whose second
  look at the high word agrees with the first knows that its low word belongs to
  it; of the MSR test, which reads it has made and which of them it has complained
  about; of the domain id, where the probe port is at each place, and that what
  `xenstore_get_domid()` has read so far is the number that those digits of the id make, for
  every id (`DigitsInv`; an id has at most five digits, so their number needs no
  induction).  The composition
  (`DriversAreThemselves`): a test with several drivers implements the
  specification of each, since a call of one changes no variable of another, so
  the theorems of the parts hold of it (`ApicIsRight`, `GnttabAndHpetAreRight`,
  `MasksRight`, `MsrAnswersRight`, `DomIdRight`).

Only model-checked:

- all liveness (`CallsReturn`, `RunEnds`, `Settles`, `TimersFire`) and the fairness
  that `ImplementsRpc` and `ImplementsStream` ask for, which are out of the prover's
  reach;
- what `Format` and `Strings` print, which is recursion over data (`TextIsC11`,
  `StringsAreC11`);
- `HypercallsArrive`, a formula about constant tables that TLC evaluates for every
  wrapper and width, so that nothing is left for a proof to generalise.

## 5. Where the code and its documentation differ

Found by a run:

- **After an error reply, xenstore_read() is out of step**
  (`xenbus_stale_reply`, `common/xenbus.c:156`).  The payload of a reply that is
  not `XS_READ` stays in the ring and is taken for the header of the next.
- **A text as long as vprintk()'s buffer loses its last character**
  (`format_exact_fit`, `common/console.c:127`).
- **The message of a panic may be cut up** (`pv_console_panic`,
  `common/console.c:87`).  A write that needs several parts continues at the
  length of the last part and waits for a change since before the first.  In a
  ring that is empty at entry every message of at most its size goes in one
  part; a panic in the middle of a write meets another ring.
- **A filter that leaves nothing is forgotten** (`selection_emptied`,
  `xtf-runner:334`).
- **The word of XSAVE features holds state components** (`cpuid_xsave`,
  `arch/x86/setup.c:76`).

Met while modelling, kept out of the models' inputs or allowed by their
properties:

- A read may sleep on data (`common/console.c:60`, against the comment at
  line 53): on those that an earlier call with a smaller buffer left, whose event
  that call has used up.  `SleepsOnlyWithoutNews` states what does hold.
- A message longer than the out ring would never be finished
  (`common/console.c:87` again); the buffer of `vprintk()` fits the ring.
- The search reads one entry past the table (`common/extable.c:16`): `Beyond` is
  what it may find there.
- `apic_init(APIC_MODE_DISABLED)` faults in its write of `APIC_SPIV`
  (`arch/x86/apic.c:95`); no test asks for it.
- `vsnprintf()` differs from C11, beyond what its comment announces, in the cases
  that `TextIsC11` excepts: `%.0d` of 0 prints a `0`; a `.` alone is no precision, so
  that `%.s` prints all and `%05.d` still fills with zeroes; `%#x` of 0 has its `0x`
  and `%#o` of 0 is `00`; the prefix of `%#X` is `0x`; `%#.3o` has an extra zero; `%zd`
  is unsigned in 32-bit builds.  Of its own conversions: `%*phC` of no bytes
  leaves the separator's letter in the text; `%pe` is cut after 15 characters; an
  unknown conversion leaves the arguments of its `*` to the next one.
- `strncmp()` does not stop at a NUL, and the comparisons are of signed characters.
- `rdmsr_safe()` and `wrmsr_safe()` miss a fault at index 0xffffffff, which is what
  they take for "no fault".
- `arch_init_traps()` of a 32-bit PV guest does not look whether its remapping of
  the user sections succeeds.

## 6. What is not modelled, and the plan

Not modelled:

- The tests, whose assertions are about Xen; the runner takes a test as any
  sequence of reports that may also crash or hang.
- What prints or wraps one instruction: the VMX, TSS and decoding helpers but the
  ones that `%pe` uses.  Where such a wrapper has a fixup, `Extable` and `Traps`
  model what becomes of the fault.
- Headers of Xen and of the architecture, but for what the components use;
  generated code, build files, the ELF notes, the filling of the hypercall page.
- Within the components modelled: the wording of messages and `gntst_strerror()`;
  periodic HPET timers, which no test uses; reads of APIC registers, which take
  the way of the writes; call gates and LDTs, which only tests install;
  `xtf_set_idte()`; the double fault, which no test survives and whose task gate
  pushes no frame in 32-bit builds; `xtf_probe_sysctl_interface_version()`, a
  loop over one hypercall.

Assumed by the models, in code that nothing enforces: `exec_user_param()` is
called by tests only, with interrupts or events off or not minding that they are
off afterwards; nobody but the vCPU writes its stacks.

The plan is carried out.  What could follow:

1. In `Traps`, `xtf_set_idte()` and the task gate of the double fault, once a test
   needs to survive one; periodic timers in `Hpet` likewise.
2. Proofs of `TextIsC11` and `StringsAreC11` for every format and memory, with a
   prover that does induction over data.
