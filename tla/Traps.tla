------------------------------- MODULE Traps -------------------------------
(***************************************************************************)
(* Entering and leaving the kernel: the stubs of entry_32.S and entry_64.S *)
(* around do_exception(), do_syscall() and do_evtchn(), and                *)
(* exec_user_param(), which runs a function of the test at user privilege. *)
(*                                                                         *)
(* Memory is an array of words that holds the stacks, and a stack pointer  *)
(* is an index.  The registers are the parameters and the result of a call *)
(* and those that the stubs or the processor treat in a way of their own;  *)
(* a selector is its privilege level.  search_extable() is in Extable:     *)
(* here an address is in the table or not.                                 *)
(***************************************************************************)
EXTENDS Integers, Sequences

CONSTANTS
    Builds,        \* the environments that the test is built for
    PageWords,     \* the words of a page of stack that are modelled
    Values,        \* what functions take and return
    MaxNest        \* bound: the contexts that are interrupted at a time

ASSUME TrapsAssumption ==
    /\ Builds \subseteq {"hvm32", "hvm64", "pv32", "pv64"}
    /\ PageWords \in Nat /\ PageWords % 2 = 0
    /\ Values \subseteq Nat /\ MaxNest \in Nat

\* No stack overflows, which nothing in the code prevents: an interrupted context
\* takes at most 16 words, and below the test are those of exec_user_param().
ASSUME StackAssumption == 16 * MaxNest + 10 <= PageWords

VARIABLES
    build,         \* CONFIG_PV and CONFIG_64BIT
    user,          \* the sections that user code can reach
    state,         \* "run" or "panic"
    cpu,           \* the registers
    mem,           \* the stacks
    interrupted,   \* the contexts to resume, for the properties
    call           \* the call of exec_user_param() under way, for the properties

vars == <<build, user, state, cpu, mem, interrupted, call>>

CONFIG_PV == build \in {"pv32", "pv64"}
CONFIG_64BIT == build \in {"hvm64", "pv64"}

\* Kernel and user privilege.
KERN == IF build = "pv32" THEN 1 ELSE 0
USER == 3

\* boot_stack[PAGE_SIZE] and boot_stack[2 * PAGE_SIZE]; user_stack, which takes
\* the place of the third page of boot_stack, the stack for double faults.
WorkTop == PageWords
TrapTop == 2 * PageWords
UserTop == 3 * PageWords

\* Routines.  Addresses of a routine: where it runs unharmed, and two
\* instructions that may fault, the first of which is in the exception table.
TEST == 1
FN == 2
HOOK == 3
DO_SYSCALL == 4
DO_EVTCHN == 5
DO_EXCEPTION == 6
STUB == 7        \* exec_user_stub(), up to the call
RET2KERN == 8    \* its int $X86_VEC_RET2KERN
RETURNED == 9    \* label 1 of exec_user_param()
EPILOGUE == 10   \* after the call in an entry stub

Running(r) == 3 * r
InTable(r) == 3 * r + 1
Bare(r) == 3 * r + 2
RoutineAt(ip) == ip \div 3
IsInTable(ip) == ip % 3 = 1

X86_EXC_BP == 3
X86_EXC_OF == 4
X86_EXC_UD == 6
X86_EXC_GP == 13
X86_EXC_PF == 14
X86_VEC_RET2KERN == 32
SYSCALL == 256        \* 0x100
SYSENTER == 512       \* 0x200
UPCALL == 512         \* 0x200

\* The gates that user code may go through with an int instruction.
UserGates == {X86_EXC_BP, X86_EXC_OF, X86_VEC_RET2KERN}

EXINFO(vector) == 100 + vector

NoCall == [sp |-> 0, bp |-> 0, p1 |-> 0, got |-> 0, ret |-> -1]

-----------------------------------------------------------------------------
Sections == {"user_text", "user_data", "user_bss"}

\* As arch_init_traps() leaves it, for which see Boot and Setup: a 32-bit PV
\* guest may have failed to remap some sections, and has not noticed.
Init ==
    /\ build \in Builds
    /\ user \in IF build = "pv32" THEN SUBSET Sections ELSE {Sections}
    /\ state = "run"
    /\ cpu \in [ip : {Running(TEST)}, ax : {0}, cx : {0}, dx : {0}, si : {0}, di : {0},
                bp : {WorkTop}, sp : {WorkTop - 1, WorkTop - 2},
                cpl : {KERN}, ds : {USER}, if : {0}]
    /\ mem = [a \in 0..(UserTop - 1) |-> 0]
    /\ interrupted = <<>> /\ call = NoCall

\* A definition marked "Mutant" is no part of the model: it is what the
\* definition after it would be if the code had the named bug.

-----------------------------------------------------------------------------
(* Frames.                                                                 *)

\* m with the words ws pushed from s on, the first one first.
Push(m, s, ws) ==
    [a \in DOMAIN m |-> IF s - Len(ws) <= a /\ a < s THEN ws[s - a] ELSE m[a]]

\* m where the words from low to below high are of no use any more.
Discard(m, low, high) == [a \in DOMAIN m |-> IF low <= a /\ a < high THEN 0 ELSE m[a]]

\* struct cpu_regs, from its lowest word up.
cpu_regs ==
    <<"bp", "ax", "cx", "dx", "si", "di">>
    \o (IF CONFIG_64BIT THEN <<"vector">> ELSE <<"ds", "vector", "error_code">>)
    \o <<"ip", "cs", "flags", "_sp", "_ss">>

offsetof(field) == (CHOOSE i \in DOMAIN cpu_regs : cpu_regs[i] = field) - 1

\* Mutant: every entry uses the stack for entries from user code.
AlwaysFromTheTop(c) == TrapTop

\* Where the processor, or Xen, starts to push when it interrupts c.
FrameTop(c) ==
    IF c.cpl = USER THEN TrapTop ELSE IF CONFIG_64BIT THEN c.sp - (c.sp % 2) ELSE c.sp

HardwareFrame(c) ==
    (IF CONFIG_64BIT \/ c.cpl = USER THEN <<c.cpl, c.sp>> ELSE <<>>) \o <<c.if, c.cpl, c.ip>>

\* The error code, be it the processor's or a dummy, and the metadata.
StubFrame(c, vector) == IF CONFIG_64BIT THEN <<vector>> ELSE <<0, vector, c.ds>>

SAVE_ALL(c) == <<c.di, c.si, c.dx, c.cx, c.ax, c.bp>>

\* Mutant: %ax and %cx are popped in the order they were pushed in.
RestoreSwapped(s) ==
    [cpu EXCEPT !.bp = mem[s], !.cx = mem[s + 1], !.ax = mem[s + 2],
                !.dx = mem[s + 3], !.si = mem[s + 4], !.di = mem[s + 5]]

RESTORE_ALL(s) ==
    [cpu EXCEPT !.bp = mem[s], !.ax = mem[s + 1], !.cx = mem[s + 2],
                !.dx = mem[s + 3], !.si = mem[s + 4], !.di = mem[s + 5]]

\* iret with the registers c and a frame at s: the rest of the frame is there
\* when it leads to a lower privilege, and always in 64 bit.
Iret(c, s) ==
    [c EXCEPT !.ip = mem[s], !.cpl = mem[s + 1], !.if = mem[s + 2],
              !.sp = IF CONFIG_64BIT \/ mem[s + 1] > c.cpl THEN mem[s + 3] ELSE s + 3,
              !.ds = IF mem[s + 1] > c.ds THEN 0 ELSE c.ds]

\* An entry stub up to the start of handler, where c is interrupted.  Events,
\* or interrupts, are off from here on.  The handler is C code: its frame is
\* the address it returns to and %bp.
Enter(c, vector, handler) ==
    LET frame == HardwareFrame(c) \o StubFrame(c, vector) \o SAVE_ALL(c)
        at == FrameTop(c) - Len(frame)
    IN  /\ Len(interrupted) < MaxNest
        /\ mem' = Push(mem, FrameTop(c), frame \o <<Running(EPILOGUE), c.bp>>)
        /\ cpu' = [ip |-> Running(handler), ax |-> at, cx |-> 0, dx |-> 0, si |-> 0,
                   di |-> at, bp |-> at - 2, sp |-> at - 2, cpl |-> KERN,
                   ds |-> IF CONFIG_64BIT THEN c.ds ELSE KERN, if |-> 0]
        /\ interrupted' = Append(interrupted, [cpu |-> c, regs |-> at])
        /\ UNCHANGED <<build, user, state, call>>

\* The argument of the handler that runs.
regs == cpu.bp + 2
RegsField(field) == mem[regs + offsetof(field)]

\* cpu_regs_sp() without the case of 32 bit.
SpFromFrame == RegsField("_sp")

cpu_regs_sp ==
    IF CONFIG_64BIT \/ RegsField("cs") > cpu.cpl THEN RegsField("_sp")
    ELSE regs + offsetof("_sp")

\* The handler returns, and with it the stub: RESTORE_ALL and iret.
Resume ==
    /\ state = "run" /\ cpu.ip = Running(EPILOGUE)
    /\ LET c == RESTORE_ALL(regs)
           d == IF CONFIG_64BIT THEN c ELSE [c EXCEPT !.ds = RegsField("ds")]
       IN  cpu' = Iret(d, regs + offsetof("ip"))
    /\ mem' = Discard(mem, cpu.sp, IF cpu'.cpl = USER THEN TrapTop ELSE cpu'.sp)
    /\ interrupted' = SubSeq(interrupted, 1, Len(interrupted) - 1)
    /\ UNCHANGED <<build, user, state, call>>

-----------------------------------------------------------------------------
(* What the code that runs may meet.                                       *)

Runs(r) == state = "run" /\ cpu.ip = Running(r)

\* The test, its functions and its handlers: the code that may fault.
Code == {TEST, FN, HOOK, DO_SYSCALL, DO_EVTCHN}

\* The context at ip, with the operands of the instruction there.
At(ip) == [cpu EXCEPT !.ip = ip, !.ax = ip, !.cx = ip, !.dx = ip, !.si = ip, !.di = ip]

\* An instruction faults, or one that has just done so faults again.
Fault(r) ==
    \/ Runs(r) /\ \E ip \in {InTable(r), Bare(r)} : Enter(At(ip), X86_EXC_UD, DO_EXCEPTION)
    \/ /\ state = "run" /\ cpu.ip \in {InTable(r), Bare(r)}
       /\ Enter(cpu, X86_EXC_UD, DO_EXCEPTION)

\* It works when executed again.
Retried(r) ==
    /\ state = "run" /\ cpu.ip \in {InTable(r), Bare(r)}
    /\ cpu' = [cpu EXCEPT !.ip = Running(r)]
    /\ UNCHANGED <<build, user, state, mem, interrupted, call>>

\* int $vector: user code gets a fault unless the gate is for it.
SoftwareInterrupt(r) ==
    /\ Runs(r)
    /\ \E vector \in {X86_EXC_BP, X86_EXC_UD} :
          IF cpu.cpl = KERN \/ vector \in UserGates
          THEN Enter(cpu, vector, DO_EXCEPTION)
          ELSE Enter(At(Bare(r)), X86_EXC_GP, DO_EXCEPTION)

Syscall ==
    /\ CONFIG_PV /\ Runs(FN)
    /\ \E metadata \in {SYSCALL, SYSENTER} : Enter(cpu, metadata, DO_SYSCALL)

Upcall ==
    /\ CONFIG_PV /\ cpu.if = 1
    /\ \E r \in {TEST, STUB, FN, RET2KERN} : Runs(r)
    /\ Enter(cpu, UPCALL, DO_EVTCHN)

\* The test lets events, or interrupts, through, or stops them.
SetIf ==
    /\ Runs(TEST)
    /\ cpu' = [cpu EXCEPT !.if = 1 - cpu.if]
    /\ UNCHANGED <<build, user, state, mem, interrupted, call>>

-----------------------------------------------------------------------------
(* The handlers.                                                           *)

\* On to the routine r.
Goto(r) == cpu' = [cpu EXCEPT !.ip = Running(r)]

\* The handler sets fields of the context that it is to resume, as u has them.
SetContext(u) ==
    /\ mem' = [a \in DOMAIN mem |->
                  IF \E f \in DOMAIN u : a = regs + offsetof(f)
                  THEN u[cpu_regs[a - regs + 1]] ELSE mem[a]]
    /\ interrupted' = [interrupted EXCEPT ![Len(interrupted)].cpu =
                          [f \in DOMAIN @ |-> IF f \in DOMAIN u THEN u[f] ELSE @[f]]]

\* The address after the instruction that the context was interrupted at.
FixupAddress == Running(RoutineAt(RegsField("ip")))

\* What the handlers of extable.c set: ex_record_fault_eax(), .._edi(),
\* ex_rdmsr_safe() and ex_wrmsr_safe().  Without a handler it is the address.
Fixups ==
    LET exinfo == EXINFO(RegsField("vector"))
    IN  {[ip |-> FixupAddress],
         [ip |-> FixupAddress, ax |-> exinfo], [ip |-> FixupAddress, di |-> exinfo],
         [ip |-> FixupAddress, ax |-> 0, dx |-> 0, cx |-> -1], [ip |-> FixupAddress, cx |-> -1]}

Fixup ==
    /\ Runs(DO_EXCEPTION) /\ IsInTable(RegsField("ip"))
    /\ \E u \in Fixups : SetContext(u)
    /\ Goto(EPILOGUE)
    /\ UNCHANGED <<build, user, state, call>>

\* The address is not in the table, or its handler returns false.
CallHook ==
    /\ Runs(DO_EXCEPTION)
    /\ Goto(HOOK)
    /\ UNCHANGED <<build, user, state, mem, interrupted, call>>

\* do_unhandled_exception() returns true.
HookResolves ==
    /\ Runs(HOOK)
    /\ SetContext([ip |-> FixupAddress]) \/ UNCHANGED <<mem, interrupted>>
    /\ Goto(EPILOGUE)
    /\ UNCHANGED <<build, user, state, call>>

\* The test's do_syscall(), do_sysenter() or do_evtchn() returns.
HandlerReturns ==
    /\ Runs(DO_SYSCALL) \/ Runs(DO_EVTCHN)
    /\ Goto(EPILOGUE)
    /\ UNCHANGED <<build, user, state, mem, interrupted, call>>

\* do_unhandled_exception() returns false, or a handler is the default one.
Panic ==
    /\ Runs(HOOK) \/ Runs(DO_SYSCALL) \/ Runs(DO_EVTCHN)
    /\ state' = "panic"
    /\ UNCHANGED <<build, user, cpu, mem, interrupted, call>>

-----------------------------------------------------------------------------
(* exec_user_param(fn, p1).                                                *)

\* The registers of the first two parameters.
Param1 == IF CONFIG_64BIT THEN cpu.di ELSE cpu.ax
Param2 == IF CONFIG_64BIT THEN cpu.si ELSE cpu.dx

WithParams(c, p, q) ==
    IF CONFIG_64BIT THEN [c EXCEPT !.di = p, !.si = q] ELSE [c EXCEPT !.ax = p, !.dx = q]

\* exec_user_efl_and_mask; the other mask is 0.
UserFlags(efl) == IF CONFIG_PV THEN 0 ELSE efl

\* A PV guest sees the real interrupt flag, which is set.
pushf == IF CONFIG_PV THEN 1 ELSE cpu.if

\* The test calls exec_user_param(), which drops to user privilege.
ExecUser ==
    /\ Runs(TEST)
    /\ \E p1 \in Values :
          LET bp == cpu.sp - 3
              called == WithParams(cpu, Running(FN), p1)
          IN  /\ mem' = Push(mem, cpu.sp, <<Running(TEST), cpu.bp, Running(RETURNED),
                                            USER, UserTop, UserFlags(pushf), USER, Running(STUB)>>)
              /\ cpu' = [called EXCEPT !.ip = Running(STUB), !.cpl = USER,
                                       !.if = UserFlags(pushf), !.sp = UserTop, !.bp = bp]
              /\ call' = [sp |-> cpu.sp, bp |-> cpu.bp, p1 |-> p1, got |-> 0, ret |-> -1]
    /\ UNCHANGED <<build, user, state, interrupted>>

\* exec_user_stub() calls fn(p1).
StubCalls ==
    /\ Runs(STUB) /\ {"user_text", "user_bss"} \subseteq user
    /\ mem' = Push(mem, cpu.sp, <<Running(RET2KERN), cpu.bp>>)
    /\ LET swapped == WithParams(cpu, Param2, Param1)
       IN  /\ cpu' = [swapped EXCEPT !.ip = Param1, !.sp = cpu.sp - 2, !.bp = cpu.sp - 2]
           /\ call' = [call EXCEPT !.got = Param2]
    /\ UNCHANGED <<build, user, state, interrupted>>

\* Its text, or the stack, was not remapped.
StubFaults ==
    /\ Runs(STUB) /\ ~({"user_text", "user_bss"} \subseteq user)
    /\ Enter(cpu, X86_EXC_PF, DO_EXCEPTION)

FnReturns ==
    /\ Runs(FN)
    /\ \E v \in Values :
          /\ cpu' = [cpu EXCEPT !.ax = v, !.bp = mem[cpu.bp], !.ip = mem[cpu.bp + 1],
                                !.sp = cpu.bp + 2]
          /\ call' = [call EXCEPT !.ret = v]
    /\ mem' = Discard(mem, cpu.sp, cpu.bp + 2)
    /\ UNCHANGED <<build, user, state, interrupted>>

\* int $X86_VEC_RET2KERN, and entry_ret_to_kernel().
RetToKernel ==
    /\ Runs(RET2KERN)
    /\ mem' = Discard(mem, FrameTop(cpu) - Len(HardwareFrame(cpu)), FrameTop(cpu))
    /\ cpu' = [cpu EXCEPT !.cpl = KERN, !.if = 0, !.ip = mem[cpu.bp], !.sp = cpu.bp + 1]
    /\ UNCHANGED <<build, user, state, interrupted, call>>

\* Mutant: %bp stays what entry_ret_to_kernel() used it for.
ReturnsWithoutBp ==
    /\ Runs(RETURNED)
    /\ cpu' = [cpu EXCEPT !.ip = mem[cpu.sp + 1], !.sp = cpu.sp + 2]
    /\ mem' = Discard(mem, 0, cpu.sp + 2)
    /\ call' = NoCall
    /\ UNCHANGED <<build, user, state, interrupted>>

\* Back in exec_user_param(), which returns.
ExecUserReturns ==
    /\ Runs(RETURNED)
    /\ cpu' = [cpu EXCEPT !.bp = mem[cpu.sp], !.ip = mem[cpu.sp + 1], !.sp = cpu.sp + 2]
    /\ mem' = Discard(mem, 0, cpu.sp + 2)
    /\ call' = NoCall
    /\ UNCHANGED <<build, user, state, interrupted>>

Panicked == state = "panic" /\ UNCHANGED vars

Next ==
    \/ \E r \in Code : Fault(r) \/ Retried(r) \/ SoftwareInterrupt(r)
    \/ Syscall \/ Upcall \/ SetIf
    \/ Fixup \/ CallHook \/ HookResolves \/ HandlerReturns \/ Panic \/ Resume
    \/ ExecUser \/ StubCalls \/ StubFaults \/ FnReturns \/ RetToKernel \/ ExecUserReturns
    \/ Panicked

Spec == Init /\ [][Next]_vars

-----------------------------------------------------------------------------
\* Each frame says where the interrupted context goes on and with what, up to
\* what its own handler has changed.
FramesHold ==
    \A k \in DOMAIN interrupted :
        LET c == interrupted[k].cpu
            field(f) == mem[interrupted[k].regs + offsetof(f)]
        IN  /\ \A r \in {"bp", "ax", "cx", "dx", "si", "di"} : field(r) = c[r]
            /\ field("ip") = c.ip /\ field("cs") = c.cpl /\ field("flags") = c.if
            /\ c.cpl = USER => field("_sp") = c.sp

\* What handlers get from cpu_regs_sp() is the stack pointer of the context.
SpIsReported ==
    (\E r \in {DO_EXCEPTION, HOOK, DO_SYSCALL, DO_EVTCHN} : cpu.ip \in {Running(r), Bare(r)}) =>
        cpu_regs_sp = interrupted[Len(interrupted)].cpu.sp

\* No entry, and no call of exec_user_param(), overwrites what an interrupted
\* context has on the stack, and handlers are told the stack pointer that it
\* had ("Return the correct %ss/%esp from an exception", traps.h), which the
\* frames of 32-bit builds do not always hold.
FramesAreTrue == FramesHold /\ SpIsReported

\* An interrupted context goes on with all of its registers, those excepted
\* that its handler has set, on whichever stack and with whatever in between.
ResumesAsInterrupted ==
    [][Len(interrupted') < Len(interrupted) =>
          cpu' = interrupted[Len(interrupted)].cpu]_vars

\* exec_user_param() calls fn with p1 and returns what fn returned, to its
\* caller and with the caller's stack, however often fn was interrupted.
ExecUserIsACall ==
    [][cpu.ip = Running(RETURNED) /\ cpu' # cpu =>
          /\ cpu'.sp = call.sp /\ cpu'.bp = call.bp /\ cpu'.ip = Running(TEST)
          /\ cpu'.cpl = KERN /\ cpu'.ax = call.ret /\ call.got = call.p1]_vars
=============================================================================
