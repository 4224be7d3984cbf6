---------------------------- MODULE Traps_proofs ----------------------------
(***************************************************************************)
(* What is proved about Traps, for stacks of any size that do not          *)
(* overflow: whatever is interrupted by whatever finds its registers, its  *)
(* stack and its privilege as they were, and exec_user_param() is a call.  *)
(*                                                                         *)
(* The invariant says what is at the bottom of the contexts that are       *)
(* interrupted (the test, or a place in the call of a function at user     *)
(* privilege), that all others are handlers that stand right below the     *)
(* frame of the one before, and what each frame holds.                     *)
(***************************************************************************)
EXTENDS Traps, SequenceTheorems, TLAPS

-----------------------------------------------------------------------------
(* The invariant.                                                          *)

Cpus == [ip : Int, ax : Int, cx : Int, dx : Int, si : Int, di : Int,
         bp : Int, sp : Int, cpl : Int, ds : Int, if : Int]

TrapsTypeOK ==
    /\ build \in Builds /\ user \subseteq Sections /\ state \in {"run", "panic"}
    /\ cpu \in Cpus
    /\ mem \in [0..(UserTop - 1) -> Int]
    /\ interrupted \in Seq([cpu : Cpus, regs : Int]) /\ Len(interrupted) <= MaxNest
    /\ call \in [sp : Int, bp : Int, p1 : Int, got : Int, ret : Int]

\* Where the code of routine r may be interrupted.
Within(r) == {Running(r), InTable(r), Bare(r)}

\* c is in the test.
InTest(c) ==
    /\ c.ip \in Within(TEST) /\ c.cpl = KERN /\ c.ds = USER
    /\ c.bp = WorkTop /\ c.sp \in {WorkTop - 1, WorkTop - 2}

\* What exec_user_param() has on the stack of the test.
CallHeld(m, cl) ==
    /\ cl.sp \in {WorkTop - 1, WorkTop - 2} /\ cl.bp = WorkTop
    /\ m[cl.sp - 1] = Running(TEST) /\ m[cl.sp - 2] = WorkTop

AtUser(c, sp) == c.cpl = USER /\ c.ds = USER /\ c.sp = sp

\* c is in exec_user_stub(), before the call and after it, in the function, or
\* back in exec_user_param().
InStub(c, m, cl) ==
    /\ c.ip = Running(STUB) /\ AtUser(c, UserTop) /\ c.bp = cl.sp - 3
    /\ CallHeld(m, cl) /\ m[cl.sp - 3] = Running(RETURNED)
    /\ IF CONFIG_64BIT THEN c.di = Running(FN) /\ c.si = cl.p1
                       ELSE c.ax = Running(FN) /\ c.dx = cl.p1

InFn(c, m, cl) ==
    /\ c.ip \in Within(FN) /\ AtUser(c, UserTop - 2) /\ c.bp = UserTop - 2
    /\ CallHeld(m, cl) /\ m[cl.sp - 3] = Running(RETURNED)
    /\ m[UserTop - 1] = Running(RET2KERN) /\ m[UserTop - 2] = cl.sp - 3
    /\ cl.got = cl.p1

InRet(c, m, cl) ==
    /\ c.ip = Running(RET2KERN) /\ AtUser(c, UserTop) /\ c.bp = cl.sp - 3
    /\ CallHeld(m, cl) /\ m[cl.sp - 3] = Running(RETURNED)
    /\ cl.got = cl.p1 /\ c.ax = cl.ret

IsBack(c, m, cl) ==
    /\ c.ip = Running(RETURNED) /\ c.cpl = KERN /\ c.ds = USER /\ c.sp = cl.sp - 2
    /\ CallHeld(m, cl)
    /\ cl.got = cl.p1 /\ c.ax = cl.ret

\* c is a context that does not handle another one.
Lowest(c, m, cl) == InTest(c) \/ InStub(c, m, cl) \/ InFn(c, m, cl) \/ InRet(c, m, cl)

\* c handles the context whose frame is at at.
HandlerDs == IF CONFIG_64BIT THEN USER ELSE KERN
Handler(c, at) == c.cpl = KERN /\ c.ds = HandlerDs /\ c.bp = at - 2 /\ c.sp = at - 2

HandlerCode == Within(HOOK) \union Within(DO_SYSCALL) \union Within(DO_EVTCHN)
HandlerIps == HandlerCode \union {Running(DO_EXCEPTION), Running(EPILOGUE)}

\* The words of a frame, and where it is, if c is interrupted.
FrameSize(c) == IF ~CONFIG_64BIT /\ c.cpl = USER THEN 14 ELSE 12

FrameAt(c, at) == at + FrameSize(c) = FrameTop(c)

FrameHolds(c, at, m) ==
    /\ m[at] = c.bp /\ m[at + 1] = c.ax /\ m[at + 2] = c.cx /\ m[at + 3] = c.dx
    /\ m[at + 4] = c.si /\ m[at + 5] = c.di
    /\ IF CONFIG_64BIT
       THEN m[at + 7] = c.ip /\ m[at + 8] = c.cpl /\ m[at + 9] = c.if /\ m[at + 10] = c.sp
       ELSE /\ m[at + 6] = c.ds
            /\ m[at + 9] = c.ip /\ m[at + 10] = c.cpl /\ m[at + 11] = c.if
            /\ c.cpl = USER => m[at + 12] = c.sp

\* The lowest words that frames may have if n contexts are interrupted, the first of
\* them c, and the words above them.
Ceiling(c) == IF c.cpl = USER THEN TrapTop ELSE WorkTop
Floor(c, n) == Ceiling(c) - 2 - 16 * n

LowestInv ==
    IF interrupted = <<>> THEN Lowest(cpu, mem, call) \/ IsBack(cpu, mem, call)
                          ELSE Lowest(interrupted[1].cpu, mem, call)

HandlersInv ==
    /\ \A k \in 1..(Len(interrupted) - 1) :
          /\ Handler(interrupted[k + 1].cpu, interrupted[k].regs)
          /\ interrupted[k + 1].cpu.ip \in HandlerCode
    /\ interrupted # <<>> =>
          Handler(cpu, interrupted[Len(interrupted)].regs) /\ cpu.ip \in HandlerIps

FramesInv ==
    \A k \in DOMAIN interrupted :
        /\ FrameAt(interrupted[k].cpu, interrupted[k].regs)
        /\ FrameHolds(interrupted[k].cpu, interrupted[k].regs, mem)
        /\ interrupted[k].regs - 2 >= Floor(interrupted[1].cpu, k)
        /\ FrameTop(interrupted[k].cpu) <= Ceiling(interrupted[1].cpu)
        /\ \A j \in 1..(k - 1) : FrameTop(interrupted[k].cpu) < interrupted[j].regs - 1

TrapsInv == TrapsTypeOK /\ LowestInv /\ HandlersInv /\ FramesInv

-----------------------------------------------------------------------------
(* What is where in a frame.                                               *)

\* What a concatenation has where.
LEMMA Joined ==
    ASSUME NEW X, NEW A \in Seq(X), NEW B \in Seq(X)
    PROVE  /\ A \o B \in Seq(X) /\ Len(A \o B) = Len(A) + Len(B)
           /\ \A k \in 1..Len(A) : (A \o B)[k] = A[k]
           /\ \A k \in 1..Len(B) : (A \o B)[Len(A) + k] = B[k]
OBVIOUS

\* The fields of struct cpu_regs in each width.
LEMMA FieldsAre ==
    /\ DOMAIN cpu_regs = IF CONFIG_64BIT THEN 1..12 ELSE 1..14
    /\ cpu_regs[1] = "bp" /\ cpu_regs[2] = "ax" /\ cpu_regs[3] = "cx"
    /\ cpu_regs[4] = "dx" /\ cpu_regs[5] = "si" /\ cpu_regs[6] = "di"
    /\ CONFIG_64BIT =>
          /\ cpu_regs[7] = "vector" /\ cpu_regs[8] = "ip" /\ cpu_regs[9] = "cs"
          /\ cpu_regs[10] = "flags" /\ cpu_regs[11] = "_sp" /\ cpu_regs[12] = "_ss"
    /\ ~CONFIG_64BIT =>
          /\ cpu_regs[7] = "ds" /\ cpu_regs[8] = "vector" /\ cpu_regs[9] = "error_code"
          /\ cpu_regs[10] = "ip" /\ cpu_regs[11] = "cs"
          /\ cpu_regs[12] = "flags" /\ cpu_regs[13] = "_sp" /\ cpu_regs[14] = "_ss"
<1> DEFINE X == {"bp", "ax", "cx", "dx", "si", "di", "ds", "vector", "error_code",
                 "ip", "cs", "flags", "_sp", "_ss"}
           A == <<"bp", "ax", "cx", "dx", "si", "di">>
           B == IF CONFIG_64BIT THEN <<"vector">> ELSE <<"ds", "vector", "error_code">>
           C == <<"ip", "cs", "flags", "_sp", "_ss">>
           AB == A \o B
<1>1. /\ A \in Seq(X) /\ Len(A) = 6
      /\ A[1] = "bp" /\ A[2] = "ax" /\ A[3] = "cx" /\ A[4] = "dx" /\ A[5] = "si" /\ A[6] = "di"
    <2>1. A \in Seq(X)
        OBVIOUS
    <2>2. Len(A) = 6
        OBVIOUS
    <2>3. A[1] = "bp" /\ A[2] = "ax" /\ A[3] = "cx" /\ A[4] = "dx" /\ A[5] = "si" /\ A[6] = "di"
        OBVIOUS
    <2> QED BY <2>1, <2>2, <2>3
<1>2. /\ B \in Seq(X)
      /\ CONFIG_64BIT => Len(B) = 1 /\ B[1] = "vector"
      /\ ~CONFIG_64BIT => Len(B) = 3 /\ B[1] = "ds" /\ B[2] = "vector" /\ B[3] = "error_code"
    <2>1. CASE CONFIG_64BIT
        <3>1. B = <<"vector">>
            BY <2>1
        <3> HIDE DEF B
        <3> QED BY <2>1, <3>1
    <2>2. CASE ~CONFIG_64BIT
        <3>1. B = <<"ds", "vector", "error_code">>
            BY <2>2
        <3> HIDE DEF B
        <3> QED BY <2>2, <3>1
    <2> QED BY <2>1, <2>2
<1>3. /\ C \in Seq(X) /\ Len(C) = 5
      /\ C[1] = "ip" /\ C[2] = "cs" /\ C[3] = "flags" /\ C[4] = "_sp" /\ C[5] = "_ss"
    <2>1. C \in Seq(X)
        OBVIOUS
    <2>2. Len(C) = 5
        OBVIOUS
    <2>3. C[1] = "ip" /\ C[2] = "cs" /\ C[3] = "flags" /\ C[4] = "_sp" /\ C[5] = "_ss"
        OBVIOUS
    <2> QED BY <2>1, <2>2, <2>3
<1> HIDE DEF A, B, C, X
<1>4. /\ AB \in Seq(X) /\ Len(AB) = Len(A) + Len(B)
      /\ \A k \in 1..Len(A) : AB[k] = A[k]
      /\ \A k \in 1..Len(B) : AB[Len(A) + k] = B[k]
    <2>1. A \in Seq(X) /\ B \in Seq(X)
        BY <1>1, <1>2
    <2> QED BY <2>1, Joined
<1> HIDE DEF AB
<1> DEFINE ABC == AB \o C
<1>5. /\ ABC \in Seq(X) /\ Len(ABC) = Len(AB) + Len(C)
      /\ \A k \in 1..Len(AB) : ABC[k] = AB[k]
      /\ \A k \in 1..Len(C) : ABC[Len(AB) + k] = C[k]
    <2>1. AB \in Seq(X) /\ C \in Seq(X)
        BY <1>3, <1>4
    <2> QED BY <2>1, Joined
<1>6. cpu_regs = ABC
    BY Zenon DEF cpu_regs, A, B, C, AB
<1> HIDE DEF ABC
<1>7. /\ DOMAIN cpu_regs = 1..(11 + Len(B))
      /\ \A k \in 1..6 : cpu_regs[k] = A[k]
      /\ \A k \in 1..Len(B) : cpu_regs[6 + k] = B[k]
      /\ \A k \in 1..5 : cpu_regs[6 + Len(B) + k] = C[k]
    <2>1. Len(A) = 6 /\ Len(C) = 5 /\ Len(B) \in Nat
        BY <1>1, <1>2, <1>3
    <2>2. Len(AB) = 6 + Len(B) /\ Len(ABC) = 11 + Len(B)
        BY <1>4, <1>5, <2>1
    <2>3. DOMAIN ABC = 1..(11 + Len(B))
        BY <1>5, <2>2
    <2> QED BY <1>4, <1>5, <1>6, <2>1, <2>2, <2>3
<1>8. CASE CONFIG_64BIT
    <2>1. Len(B) = 1 /\ B[1] = "vector"
        BY <1>2, <1>8
    <2>2. \A k \in 1..5 : cpu_regs[7 + k] = C[k]
        BY <1>7, <2>1
    <2> QED BY <1>1, <1>3, <1>7, <1>8, <2>1, <2>2
<1>9. CASE ~CONFIG_64BIT
    <2>1. Len(B) = 3 /\ B[1] = "ds" /\ B[2] = "vector" /\ B[3] = "error_code"
        BY <1>2, <1>9
    <2>2. \A k \in 1..5 : cpu_regs[9 + k] = C[k]
        BY <1>7, <2>1
    <2> QED BY <1>1, <1>3, <1>7, <1>9, <2>1, <2>2
<1> QED BY <1>8, <1>9

\* Where the fields are.
LEMMA OffsetsAre ==
    /\ offsetof("bp") = 0 /\ offsetof("ax") = 1 /\ offsetof("cx") = 2
    /\ offsetof("dx") = 3 /\ offsetof("si") = 4 /\ offsetof("di") = 5
    /\ CONFIG_64BIT =>
          /\ offsetof("vector") = 6 /\ offsetof("ip") = 7 /\ offsetof("cs") = 8
          /\ offsetof("flags") = 9 /\ offsetof("_sp") = 10
    /\ ~CONFIG_64BIT =>
          /\ offsetof("ds") = 6 /\ offsetof("vector") = 7 /\ offsetof("ip") = 9
          /\ offsetof("cs") = 10 /\ offsetof("flags") = 11 /\ offsetof("_sp") = 12
<1>1. ASSUME NEW i \in DOMAIN cpu_regs PROVE offsetof(cpu_regs[i]) = i - 1
    <2>1. \A j \in DOMAIN cpu_regs : cpu_regs[j] = cpu_regs[i] => j = i
        <3>1. CASE CONFIG_64BIT
            BY <3>1, FieldsAre
        <3>2. CASE ~CONFIG_64BIT
            BY <3>2, FieldsAre
        <3> QED BY <3>1, <3>2
    <2> QED BY <2>1 DEF offsetof
<1>2. CASE CONFIG_64BIT
    BY <1>1, <1>2, FieldsAre
<1>3. CASE ~CONFIG_64BIT
    BY <1>1, <1>3, FieldsAre
<1> QED BY <1>2, <1>3

\* What the processor pushes.
LEMMA HardwareFrameIs ==
    ASSUME NEW c \in Cpus, NEW h, h = IF CONFIG_64BIT \/ c.cpl = USER THEN 5 ELSE 3
    PROVE  /\ HardwareFrame(c) \in Seq(Int) /\ Len(HardwareFrame(c)) = h
           /\ HardwareFrame(c)[h] = c.ip /\ HardwareFrame(c)[h - 1] = c.cpl
           /\ HardwareFrame(c)[h - 2] = c.if
           /\ h = 5 => HardwareFrame(c)[2] = c.sp
<1> DEFINE H == HardwareFrame(c)
<1> DEFINE A == <<c.if, c.cpl, c.ip>>
           B == <<c.cpl, c.sp>>
<1>1. A \in Seq(Int) /\ Len(A) = 3 /\ A[1] = c.if /\ A[2] = c.cpl /\ A[3] = c.ip
    BY DEF Cpus
<1>2. B \in Seq(Int) /\ Len(B) = 2 /\ B[2] = c.sp
    BY DEF Cpus
<1>3. CASE h = 5
    <2>1. H = B \o A
        BY <1>3 DEF HardwareFrame
    <2>2. A \in Seq(Int) /\ B \in Seq(Int)
        BY <1>1, <1>2
    <2> HIDE DEF A, B, H
    <2>3. /\ H \in Seq(Int) /\ Len(H) = Len(B) + Len(A)
          /\ \A k \in 1..Len(B) : H[k] = B[k]
          /\ \A k \in 1..Len(A) : H[Len(B) + k] = A[k]
        BY <2>1, <2>2, Joined
    <2>4. Len(H) = 5 /\ H[2] = B[2] /\ H[3] = A[1] /\ H[4] = A[2] /\ H[5] = A[3]
        <3>1. Len(A) = 3 /\ Len(B) = 2 /\ Len(H) = 5
            BY <1>1, <1>2, <2>3
        <3>2. H[2] = B[2]
            <4>1. 2 \in 1..Len(B)
                BY <3>1
            <4> QED BY <2>3, <4>1, Zenon
        <3>3. ASSUME NEW k \in 1..3 PROVE H[2 + k] = A[k]
            <4>1. k \in 1..Len(A)
                BY <3>1
            <4>2. H[Len(B) + k] = A[k]
                BY <2>3, <4>1, Zenon
            <4> QED BY <3>1, <4>2
        <3>4. H[2 + 1] = A[1] /\ H[2 + 2] = A[2] /\ H[2 + 3] = A[3]
            BY <3>3
        <3> QED BY <3>1, <3>2, <3>4
    <2>5. H[h] = c.ip /\ H[h - 1] = c.cpl /\ H[h - 2] = c.if /\ H[2] = c.sp /\ Len(H) = h
        BY <1>1, <1>2, <1>3, <2>4
    <2> QED BY <2>3, <2>5 DEF H
<1>4. CASE h = 3
    <2> ~(CONFIG_64BIT \/ c.cpl = USER)
        BY <1>4
    <2>1. H = <<>> \o A
        BY Zenon DEF HardwareFrame
    <2>2. <<>> \o A = A
        BY <1>1
    <2> HIDE DEF A, B, H
    <2>3. H = A
        BY <2>1, <2>2
    <2>4. /\ H \in Seq(Int) /\ Len(H) = h
          /\ H[h] = c.ip /\ H[h - 1] = c.cpl /\ H[h - 2] = c.if
        BY <1>1, <1>4, <2>3
    <2> QED BY <1>4, <2>4 DEF H
<1> QED BY <1>3, <1>4

\* The words that an entry stub pushes, the first one at the highest address.
Pushed(c, vector) ==
    HardwareFrame(c) \o StubFrame(c, vector) \o SAVE_ALL(c) \o <<Running(EPILOGUE), c.bp>>

LEMMA WordsAre ==
    ASSUME NEW c \in Cpus, NEW vector \in Int
    PROVE  LET ws == Pushed(c, vector)
               n == FrameSize(c)
           IN  /\ Len(HardwareFrame(c) \o StubFrame(c, vector) \o SAVE_ALL(c)) = n
               /\ ws \in Seq(Int) /\ Len(ws) = n + 2
               /\ ws[n] = c.bp /\ ws[n - 1] = c.ax /\ ws[n - 2] = c.cx /\ ws[n - 3] = c.dx
               /\ ws[n - 4] = c.si /\ ws[n - 5] = c.di
               /\ CONFIG_64BIT =>
                     ws[n - 7] = c.ip /\ ws[n - 8] = c.cpl /\ ws[n - 9] = c.if /\ ws[n - 10] = c.sp
               /\ ~CONFIG_64BIT =>
                     /\ ws[n - 6] = c.ds
                     /\ ws[n - 9] = c.ip /\ ws[n - 10] = c.cpl /\ ws[n - 11] = c.if
                     /\ c.cpl = USER => ws[n - 12] = c.sp
<1> DEFINE H == HardwareFrame(c)
           S == StubFrame(c, vector)
           V == SAVE_ALL(c)
           E == <<Running(EPILOGUE), c.bp>>
           HS == H \o S
           HSV == HS \o V
           h == IF CONFIG_64BIT \/ c.cpl = USER THEN 5 ELSE 3
           s == IF CONFIG_64BIT THEN 1 ELSE 3
<1>1. /\ H \in Seq(Int) /\ Len(H) = h
      /\ H[h] = c.ip /\ H[h - 1] = c.cpl /\ H[h - 2] = c.if
      /\ h = 5 => H[2] = c.sp
    BY HardwareFrameIs
<1>2. /\ S \in Seq(Int) /\ Len(S) = s
      /\ ~CONFIG_64BIT => S[3] = c.ds
    BY DEF StubFrame, Cpus
<1>3. /\ V \in Seq(Int) /\ Len(V) = 6
      /\ V[1] = c.di /\ V[2] = c.si /\ V[3] = c.dx /\ V[4] = c.cx /\ V[5] = c.ax /\ V[6] = c.bp
    BY DEF SAVE_ALL, Cpus
<1>4. E \in Seq(Int) /\ Len(E) = 2
    BY DEF Cpus, Running, EPILOGUE
<1> HIDE DEF H, S, V, E, h, s
<1>5. h \in {3, 5} /\ s \in {1, 3} /\ FrameSize(c) = h + s + 6
      /\ (CONFIG_64BIT => h = 5 /\ s = 1) /\ (~CONFIG_64BIT => s = 3 /\ (c.cpl = USER => h = 5))
    BY DEF h, s, FrameSize
<1>6. /\ HS \in Seq(Int) /\ Len(HS) = Len(H) + Len(S)
      /\ \A k \in 1..Len(H) : HS[k] = H[k]
      /\ \A k \in 1..Len(S) : HS[Len(H) + k] = S[k]
    <2>1. H \in Seq(Int) /\ S \in Seq(Int)
        BY <1>1, <1>2
    <2> QED BY <2>1, Joined
<1> HIDE DEF HS
<1>7. /\ HSV \in Seq(Int) /\ Len(HSV) = Len(HS) + Len(V)
      /\ \A k \in 1..Len(HS) : HSV[k] = HS[k]
      /\ \A k \in 1..Len(V) : HSV[Len(HS) + k] = V[k]
    <2>1. HS \in Seq(Int) /\ V \in Seq(Int)
        BY <1>3, <1>6
    <2> QED BY <2>1, Joined
<1> HIDE DEF HSV
<1> DEFINE ws == Pushed(c, vector)
<1>8. ws = HSV \o E
    BY Zenon DEF Pushed, HSV, HS, H, S, V, E
<1> HIDE DEF ws
<1>9. /\ ws \in Seq(Int) /\ Len(ws) = Len(HSV) + Len(E)
      /\ \A k \in 1..Len(HSV) : ws[k] = HSV[k]
    <2>1. HSV \in Seq(Int) /\ E \in Seq(Int)
        BY <1>4, <1>7
    <2> QED BY <1>8, <2>1, Joined
<1>10. /\ Len(HSV) = h + s + 6
       /\ ws \in Seq(Int) /\ Len(ws) = Len(HSV) + 2
       /\ \A k \in 1..h : ws[k] = H[k]
       /\ \A k \in 1..s : ws[h + k] = S[k]
       /\ \A k \in 1..6 : ws[h + s + k] = V[k]
    <2>1. /\ Len(H) = h /\ Len(S) = s /\ Len(V) = 6 /\ Len(E) = 2
          /\ h \in Nat /\ s \in Nat
        BY <1>1, <1>2, <1>3, <1>4, <1>5
    <2>2. Len(HS) = h + s /\ Len(HSV) = h + s + 6
        BY <1>6, <1>7, <2>1
    <2>3. ASSUME NEW k \in 1..6 PROVE ws[h + s + k] = V[k]
        <3>1. k \in 1..Len(V) /\ h + s + k \in 1..Len(HSV) /\ Len(HS) + k = h + s + k
            BY <2>1, <2>2
        <3>2. ws[h + s + k] = HSV[h + s + k] /\ HSV[Len(HS) + k] = V[k]
            BY <1>7, <1>9, <3>1, Zenon
        <3> QED BY <3>1, <3>2
    <2>4. ASSUME NEW k \in 1..s PROVE ws[h + k] = S[k]
        <3>1. /\ k \in 1..Len(S) /\ h + k \in 1..Len(HSV) /\ h + k \in 1..Len(HS)
              /\ Len(H) + k = h + k
            BY <2>1, <2>2
        <3>2. ws[h + k] = HSV[h + k] /\ HSV[h + k] = HS[h + k] /\ HS[Len(H) + k] = S[k]
            BY <1>6, <1>7, <1>9, <3>1, Zenon
        <3> QED BY <3>1, <3>2
    <2>5. ASSUME NEW k \in 1..h PROVE ws[k] = H[k]
        <3>1. k \in 1..Len(H) /\ k \in 1..Len(HSV) /\ k \in 1..Len(HS)
            BY <2>1, <2>2
        <3> QED BY <1>6, <1>7, <1>9, <3>1, Zenon
    <2> QED BY <1>9, <2>1, <2>2, <2>3, <2>4, <2>5
<1>11. /\ ws \in Seq(Int) /\ Len(ws) = FrameSize(c) + 2
       /\ ws[h] = c.ip /\ ws[h - 1] = c.cpl /\ ws[h - 2] = c.if
       /\ h = 5 => ws[2] = c.sp
       /\ ~CONFIG_64BIT => ws[h + 3] = c.ds
    <2>1. ws \in Seq(Int) /\ Len(ws) = FrameSize(c) + 2
        BY <1>5, <1>10
    <2>2. ws[h] = H[h] /\ ws[h - 1] = H[h - 1] /\ ws[h - 2] = H[h - 2] /\ ws[2] = H[2]
        <3>1. h \in 1..h /\ h - 1 \in 1..h /\ h - 2 \in 1..h /\ 2 \in 1..h
            BY <1>5
        <3> QED BY <1>10, <3>1, Zenon
    <2>3. ~CONFIG_64BIT => ws[h + 3] = S[3]
        BY <1>5, <1>10
    <2> QED BY <1>1, <1>2, <2>1, <2>2, <2>3
<1>12. /\ ws[h + s + 1] = c.di /\ ws[h + s + 2] = c.si /\ ws[h + s + 3] = c.dx
       /\ ws[h + s + 4] = c.cx /\ ws[h + s + 5] = c.ax /\ ws[h + s + 6] = c.bp
    <2>1. /\ ws[h + s + 1] = V[1] /\ ws[h + s + 2] = V[2] /\ ws[h + s + 3] = V[3]
          /\ ws[h + s + 4] = V[4] /\ ws[h + s + 5] = V[5] /\ ws[h + s + 6] = V[6]
        <3>1. 1 \in 1..6 /\ 2 \in 1..6 /\ 3 \in 1..6 /\ 4 \in 1..6 /\ 5 \in 1..6 /\ 6 \in 1..6
            OBVIOUS
        <3> QED BY <1>10, <3>1, Zenon
    <2> QED BY <1>3, <2>1
<1>13. Len(HardwareFrame(c) \o StubFrame(c, vector) \o SAVE_ALL(c)) = FrameSize(c)
    <2>1. Len(HSV) = FrameSize(c)
        BY <1>5, <1>10
    <2> QED BY <2>1, Zenon DEF HSV, HS, H, S, V
<1>14. CASE CONFIG_64BIT
    BY <1>5, <1>11, <1>12, <1>13, <1>14 DEF ws
<1>15. CASE ~CONFIG_64BIT
    BY <1>5, <1>11, <1>12, <1>13, <1>15 DEF ws
<1> QED BY <1>14, <1>15

-----------------------------------------------------------------------------
(* What is written to the stacks.                                          *)

\* The constants that tell contexts apart.
LEMMA Sizes ==
    /\ PageWords \in Nat /\ MaxNest \in Nat /\ 16 * MaxNest + 10 <= PageWords
    /\ KERN \in {0, 1} /\ USER = 3
    /\ WorkTop = PageWords /\ TrapTop = 2 * PageWords /\ UserTop = 3 * PageWords
BY TrapsAssumption, StackAssumption DEF KERN, USER, WorkTop, TrapTop, UserTop

\* p is m but for the words from low to high; p is m with ws pushed from s on.
Untouched(p, m, low, high) ==
    \A a \in 0..(UserTop - 1) : a < low \/ high <= a => p[a] = m[a]

IsPushed(p, m, s, ws) ==
    /\ p \in [0..(UserTop - 1) -> Int]
    /\ \A a \in 0..(UserTop - 1) : s - Len(ws) <= a /\ a < s => p[a] = ws[s - a]
    /\ Untouched(p, m, s - Len(ws), s)

LEMMA PushIs ==
    ASSUME NEW m \in [0..(UserTop - 1) -> Int], NEW s \in Int, NEW ws \in Seq(Int)
    PROVE  IsPushed(Push(m, s, ws), m, s, ws)
<1> DEFINE p == Push(m, s, ws)
<1>1. Len(ws) \in Nat /\ \A k \in 1..Len(ws) : ws[k] \in Int
    OBVIOUS
<1>2. p = [a \in 0..(UserTop - 1) |-> IF s - Len(ws) <= a /\ a < s THEN ws[s - a] ELSE m[a]]
    BY DEF Push
<1>3. ASSUME NEW a \in 0..(UserTop - 1), s - Len(ws) <= a, a < s PROVE ws[s - a] \in Int
    <2>1. s - a \in 1..Len(ws)
        BY <1>1, <1>3, Sizes
    <2> QED BY <1>1, <2>1
<1> QED BY <1>2, <1>3 DEF IsPushed, Untouched

LEMMA DiscardIs ==
    ASSUME NEW m \in [0..(UserTop - 1) -> Int], NEW low \in Int, NEW high \in Int
    PROVE  /\ Discard(m, low, high) \in [0..(UserTop - 1) -> Int]
           /\ Untouched(Discard(m, low, high), m, low, high)
BY DEF Discard, Untouched

\* A frame stays as it is if nothing is written to it.
LEMMA FrameStays ==
    ASSUME NEW c \in Cpus, NEW at \in Int, NEW m, NEW p, FrameHolds(c, at, m),
           \A a \in Int : at <= a /\ a < at + FrameSize(c) => p[a] = m[a]
    PROVE  FrameHolds(c, at, p)
<1>1. FrameSize(c) \in {12, 14} /\ (~CONFIG_64BIT /\ c.cpl = USER => FrameSize(c) = 14)
    BY DEF FrameSize
<1>2. \A i \in 0..11 : p[at + i] = m[at + i]
    BY <1>1
<1>3. FrameSize(c) = 14 => p[at + 12] = m[at + 12]
    BY <1>1
<1>4. /\ p[at + 0] = m[at + 0] /\ at + 0 = at
      /\ p[at + 1] = m[at + 1] /\ p[at + 2] = m[at + 2] /\ p[at + 3] = m[at + 3]
      /\ p[at + 4] = m[at + 4] /\ p[at + 5] = m[at + 5] /\ p[at + 6] = m[at + 6]
      /\ p[at + 7] = m[at + 7] /\ p[at + 8] = m[at + 8] /\ p[at + 9] = m[at + 9]
      /\ p[at + 10] = m[at + 10] /\ p[at + 11] = m[at + 11]
    BY <1>2
<1> QED BY <1>1, <1>3, <1>4 DEF FrameHolds

\* The frame of c is right after Enter.
LEMMA EntersFrame ==
    ASSUME NEW c \in Cpus, NEW vector \in Int, NEW m \in [0..(UserTop - 1) -> Int],
           NEW at \in Int, FrameAt(c, at), 2 <= at, FrameTop(c) <= UserTop,
           NEW p, p = Push(m, FrameTop(c), Pushed(c, vector))
    PROVE  /\ p \in [0..(UserTop - 1) -> Int]
           /\ FrameHolds(c, at, p)
           /\ Untouched(p, m, at - 2, FrameTop(c))
<1> DEFINE n == FrameSize(c)
           ws == Pushed(c, vector)
<1>1. n \in {12, 14} /\ at + n = FrameTop(c)
    BY DEF FrameSize, FrameAt
<1>2. ws \in Seq(Int) /\ Len(ws) = n + 2
    BY WordsAre
<1> HIDE DEF n, ws
<1>3. /\ p \in [0..(UserTop - 1) -> Int]
      /\ \A a \in 0..(UserTop - 1) : at - 2 <= a /\ a < at + n => p[a] = ws[at + n - a]
      /\ Untouched(p, m, at - 2, FrameTop(c))
    <2>1. FrameTop(c) \in Int
        BY <1>1
    <2>2. p = Push(m, FrameTop(c), ws)
        BY Zenon DEF ws
    <2>3. ws \in Seq(Int)
        BY <1>2
    <2>4. IsPushed(p, m, FrameTop(c), ws)
        BY <2>1, <2>2, <2>3, PushIs
    <2>5. FrameTop(c) = at + n
        BY <1>1
    <2>6. IsPushed(p, m, at + n, ws)
        BY <2>4, <2>5, Zenon
    <2>7. at + n - Len(ws) = at - 2
        BY <1>1, <1>2
    <2>8. Untouched(p, m, at - 2, FrameTop(c))
        <3>1. FrameTop(c) - Len(ws) = at - 2
            BY <1>1, <1>2
        <3> QED BY <2>4, <3>1, Zenon DEF IsPushed
    <2> QED BY <1>1, <1>2, <2>6, <2>7, <2>8 DEF IsPushed
<1>4. ASSUME NEW i \in 0..(n - 1) PROVE p[at + i] = ws[n - i]
    <2>1. at + i \in 0..(UserTop - 1) /\ at + n - (at + i) = n - i
        BY <1>1, Sizes
    <2> QED BY <1>1, <1>2, <1>3, <2>1
<1>5. p[at] = ws[n]
    <2>1. 0 \in 0..(n - 1) /\ at + 0 = at /\ n - 0 = n
        BY <1>1
    <2> QED BY <1>4, <2>1
<1>6. /\ p[at + 1] = ws[n - 1] /\ p[at + 2] = ws[n - 2] /\ p[at + 3] = ws[n - 3]
      /\ p[at + 4] = ws[n - 4] /\ p[at + 5] = ws[n - 5] /\ p[at + 6] = ws[n - 6]
      /\ p[at + 7] = ws[n - 7] /\ p[at + 8] = ws[n - 8] /\ p[at + 9] = ws[n - 9]
      /\ p[at + 10] = ws[n - 10] /\ p[at + 11] = ws[n - 11]
    BY <1>1, <1>4
<1>7. n = 14 => p[at + 12] = ws[n - 12]
    BY <1>4
<1>8. ~CONFIG_64BIT /\ c.cpl = USER => n = 14
    BY DEF n, FrameSize
<1>9. FrameHolds(c, at, p)
    <2>1. /\ ws[n] = c.bp /\ ws[n - 1] = c.ax /\ ws[n - 2] = c.cx /\ ws[n - 3] = c.dx
          /\ ws[n - 4] = c.si /\ ws[n - 5] = c.di
          /\ CONFIG_64BIT =>
                ws[n - 7] = c.ip /\ ws[n - 8] = c.cpl /\ ws[n - 9] = c.if /\ ws[n - 10] = c.sp
          /\ ~CONFIG_64BIT =>
                /\ ws[n - 6] = c.ds
                /\ ws[n - 9] = c.ip /\ ws[n - 10] = c.cpl /\ ws[n - 11] = c.if
                /\ c.cpl = USER => ws[n - 12] = c.sp
        BY WordsAre DEF ws, n
    <2> QED BY <1>5, <1>6, <1>7, <1>8, <2>1 DEF FrameHolds
<1> QED BY <1>1, <1>2, <1>3, <1>9

-----------------------------------------------------------------------------
(* Entering the kernel.                                                    *)

\* What the invariant says means the same after a step.
LEMMA SameBuild ==
    ASSUME UNCHANGED build, NEW c, NEW m, NEW cl, NEW at, NEW n
    PROVE  /\ Lowest(c, m, cl)' = Lowest(c, m, cl) /\ IsBack(c, m, cl)' = IsBack(c, m, cl)
           /\ Handler(c, at)' = Handler(c, at)
           /\ FrameAt(c, at)' = FrameAt(c, at) /\ FrameHolds(c, at, m)' = FrameHolds(c, at, m)
           /\ FrameTop(c)' = FrameTop(c) /\ Ceiling(c)' = Ceiling(c) /\ Floor(c, n)' = Floor(c, n)
BY DEF Lowest, InTest, InStub, InFn, InRet, IsBack, AtUser, CallHeld, Handler, HandlerDs,
       FrameAt, FrameSize, FrameHolds, FrameTop, Ceiling, Floor,
       KERN, CONFIG_PV, CONFIG_64BIT, WorkTop, TrapTop

\* An element of a sequence.
LEMMA ElementIn == ASSUME NEW S, NEW t \in Seq(S), NEW k \in DOMAIN t PROVE t[k] \in S
OBVIOUS

\* The contexts that are interrupted.
LEMMA Contexts ==
    ASSUME TrapsInv
    PROVE  /\ Len(interrupted) \in Nat /\ DOMAIN interrupted = 1..Len(interrupted)
           /\ interrupted = <<>> <=> Len(interrupted) = 0
           /\ interrupted \in Seq([cpu : Cpus, regs : Int])
           /\ \A k \in DOMAIN interrupted : interrupted[k].cpu \in Cpus /\ interrupted[k].regs \in Int
           /\ mem \in [0..(UserTop - 1) -> Int] /\ cpu \in Cpus
<1>1. interrupted \in Seq([cpu : Cpus, regs : Int]) /\ mem \in [0..(UserTop - 1) -> Int] /\ cpu \in Cpus
    BY DEF TrapsInv, TrapsTypeOK
<1>2. \A k \in DOMAIN interrupted : interrupted[k] \in [cpu : Cpus, regs : Int]
    <2>1. interrupted \in Seq([cpu : Cpus, regs : Int])
        BY <1>1
    <2> QED BY <2>1, ElementIn
<1>3. \A k \in DOMAIN interrupted : interrupted[k].cpu \in Cpus /\ interrupted[k].regs \in Int
    BY <1>2
<1>4. /\ Len(interrupted) \in Nat /\ DOMAIN interrupted = 1..Len(interrupted)
      /\ interrupted = <<>> <=> Len(interrupted) = 0
    BY <1>1
<1> QED BY <1>1, <1>3, <1>4

\* Where the frame of c goes if c is the n-th context to be interrupted: right
\* below what the one before it has, and above the floor.
LEMMA FrameFits ==
    ASSUME TrapsInv, NEW c \in Cpus, Len(interrupted) < MaxNest,
           NEW first, first = IF interrupted = <<>> THEN c ELSE interrupted[1].cpu,
           IF interrupted = <<>> THEN Lowest(c, mem, call)
           ELSE Handler(c, interrupted[Len(interrupted)].regs),
           NEW at \in Int, FrameAt(c, at)
    PROVE  /\ at - 2 >= Floor(first, Len(interrupted) + 1) /\ 2 <= at
           /\ FrameTop(c) <= Ceiling(first) /\ FrameTop(c) <= UserTop /\ FrameTop(c) \in Int
           /\ first.cpl = USER => at - 2 >= WorkTop
           /\ \A j \in DOMAIN interrupted : FrameTop(c) < interrupted[j].regs - 1
<1> DEFINE n == Len(interrupted)
<1>1. /\ n \in Nat /\ DOMAIN interrupted = 1..n /\ (interrupted = <<>> <=> n = 0) /\ n < MaxNest
      /\ \A k \in 1..n : interrupted[k].cpu \in Cpus /\ interrupted[k].regs \in Int
    BY Contexts
<1>2. c.sp \in Int /\ c.cpl \in Int /\ c.sp % 2 \in {0, 1}
    BY DEF Cpus
<1>3. /\ FrameSize(c) = IF ~CONFIG_64BIT /\ c.cpl = USER THEN 14 ELSE 12
      /\ at + FrameSize(c) = FrameTop(c)
      /\ FrameTop(c) = IF c.cpl = USER THEN TrapTop ELSE IF CONFIG_64BIT THEN c.sp - (c.sp % 2) ELSE c.sp
    BY DEF FrameSize, FrameAt, FrameTop
<1>a. c.cpl # USER => /\ FrameTop(c) \in Int /\ FrameTop(c) <= c.sp /\ FrameTop(c) >= c.sp - 1
                      /\ at = FrameTop(c) - 12
    <2>1. CASE CONFIG_64BIT
        BY <1>2, <1>3, <2>1
    <2>2. CASE ~CONFIG_64BIT
        BY <1>2, <1>3, <2>2
    <2> QED BY <2>1, <2>2
<1> HIDE DEF n
<1>4. CASE n = 0
    <2>1. first = c /\ Lowest(c, mem, call)
        BY <1>1, <1>4
    <2>2. c.cpl = USER \/ (c.cpl = KERN /\ c.sp \in {WorkTop - 1, WorkTop - 2})
        BY <2>1 DEF Lowest, InTest, InStub, InFn, InRet, AtUser
    <2>3. CASE c.cpl = USER
        BY <1>1, <1>2, <1>3, <1>4, <2>1, <2>3, Sizes DEF Floor, Ceiling
    <2>4. CASE c.cpl = KERN /\ c.sp \in {WorkTop - 1, WorkTop - 2}
        <3>1. c.cpl # USER /\ FrameTop(c) <= WorkTop /\ FrameTop(c) >= WorkTop - 3
              /\ at = FrameTop(c) - 12 /\ FrameTop(c) \in Int
            BY <1>2, <1>a, <2>4, Sizes
        <3>2. Ceiling(first) = WorkTop /\ Floor(first, 1) = WorkTop - 18 /\ first.cpl # USER
            BY <2>1, <3>1, Sizes DEF Floor, Ceiling
        <3>3. /\ at - 2 >= WorkTop - 18 /\ 2 <= at
              /\ FrameTop(c) <= WorkTop /\ FrameTop(c) <= UserTop
            BY <3>1, Sizes
        <3> QED BY <1>1, <1>4, <3>1, <3>2, <3>3 DEF n
    <2> QED BY <2>2, <2>3, <2>4
<1>5. CASE n # 0
    <2>1. /\ first = interrupted[1].cpu /\ n \in 1..n /\ 1 \in 1..n
          /\ c.cpl = KERN /\ c.sp = interrupted[n].regs - 2
        BY <1>1, <1>5 DEF Handler, n
    <2>2. /\ interrupted[n].regs - 2 >= Floor(first, n)
          /\ FrameTop(interrupted[n].cpu) <= Ceiling(first)
          /\ FrameAt(interrupted[n].cpu, interrupted[n].regs)
          /\ \A j \in 1..(n - 1) : FrameTop(interrupted[n].cpu) < interrupted[j].regs - 1
        BY <1>1, <2>1 DEF TrapsInv, FramesInv
    <2>3. FrameTop(interrupted[n].cpu) \in {interrupted[n].regs + 12, interrupted[n].regs + 14}
        BY <2>2 DEF FrameAt, FrameSize
    <2>4. Ceiling(first) \in {WorkTop, TrapTop} /\ (first.cpl = USER => Ceiling(first) = TrapTop)
        BY DEF Ceiling
    <2>5. Floor(first, n + 1) = Floor(first, n) - 16 /\ Floor(first, n) = Ceiling(first) - 2 - 16 * n
        BY <1>1, <2>4, Sizes DEF Floor
    <2>6. /\ c.cpl # USER /\ FrameTop(c) <= interrupted[n].regs - 2
          /\ FrameTop(c) >= interrupted[n].regs - 3 /\ at = FrameTop(c) - 12 /\ FrameTop(c) \in Int
        BY <1>1, <1>2, <1>a, <2>1, Sizes
    <2>7. /\ interrupted[n].regs \in Int /\ Ceiling(first) \in Int /\ Floor(first, n) \in Int
          /\ 16 * n \in Int /\ 16 * n + 16 <= 16 * MaxNest
        <3>1. interrupted[n].regs \in Int
            BY <1>1, <2>1
        <3>2. Ceiling(first) \in Int
            BY <2>4, Sizes
        <3>3. 16 * n \in Int /\ 16 * n + 16 <= 16 * MaxNest
            BY <1>1, Sizes
        <3>4. Floor(first, n) \in Int
            BY <2>5, <3>2, <3>3
        <3> QED BY <3>1, <3>2, <3>3, <3>4
    <2> DEFINE r == interrupted[n].regs
               high == Ceiling(first)
               low == Floor(first, n)
               next == Floor(first, n + 1)
               t == FrameTop(c)
    <2>8. /\ r \in Int /\ high \in Int /\ low \in Int /\ t \in Int /\ next = low - 16 /\ r - 2 >= low
          /\ r + 12 <= high /\ t >= r - 3 /\ t <= r - 2 /\ at = t - 12
        <3>1. r + 12 <= high
            <4> DEFINE f == FrameTop(interrupted[n].cpu)
            <4>1. f \in {r + 12, r + 14} /\ f <= high /\ r \in Int /\ high \in Int
                BY <2>2, <2>3, <2>7
            <4> HIDE DEF f, r, high
            <4> QED BY <4>1
        <3>2. r - 2 >= low
            BY <2>2
        <3> QED BY <2>5, <2>6, <2>7, <3>1, <3>2
    <2>12. at - 2 >= next /\ t <= high
        <3> HIDE DEF r, high, low, next, t
        <3> QED BY <2>8
    <2>13. Floor(first, n + 1) >= Ceiling(first) - PageWords + 8
        <3> DEFINE w == 16 * n
        <3>1. next = high - 2 - w - 16 /\ high \in Int /\ w \in Int
            BY <2>5, <2>7
        <3>2. w + 16 <= PageWords - 10 /\ PageWords \in Int
            BY <2>7, Sizes
        <3> HIDE DEF w, next, high
        <3>3. next >= high - PageWords + 8
            BY <3>1, <3>2
        <3> QED BY <3>3 DEF next, high
    <2>9. ASSUME NEW j \in 1..n PROVE FrameTop(c) < interrupted[j].regs - 1
        <3>1. CASE j = n
            BY <1>1, <2>6, <3>1
        <3>2. CASE j # n
            <4>1. j \in 1..(n - 1)
                BY <1>1, <3>2
            <4> DEFINE f == FrameTop(interrupted[n].cpu)
                       y == interrupted[j].regs
            <4>2. f \in {r + 12, r + 14} /\ r \in Int /\ t \in Int /\ t <= r - 2
                BY <2>3, <2>8
            <4>3. f < y - 1 /\ y \in Int
                BY <1>1, <2>2, <4>1
            <4> HIDE DEF f, y, r, t
            <4>4. t < y - 1
                BY <4>2, <4>3
            <4> QED BY <4>4 DEF t, y
        <3> QED BY <3>1, <3>2
    <2>10. /\ at - 2 >= Ceiling(first) - PageWords + 8 /\ at \in Int
           /\ Ceiling(first) \in Int /\ FrameTop(c) <= UserTop
        <3>1. Floor(first, n + 1) \in Int
            BY <2>5, <2>7
        <3>2. high - PageWords + 8 <= next /\ high <= UserTop
            BY <2>4, <2>13, Sizes
        <3>3. next \in Int
            BY <3>1
        <3> HIDE DEF r, high, low, next, t
        <3>4. at - 2 >= high - PageWords + 8 /\ at \in Int /\ t <= UserTop
            BY <2>8, <2>12, <3>2, <3>3, Sizes
        <3> QED BY <2>8, <3>4 DEF high, t
    <2>11. 2 <= at /\ (first.cpl = USER => at - 2 >= WorkTop)
        BY <2>4, <2>10, Sizes
    <2> QED BY <1>1, <2>6, <2>12, <2>9, <2>10, <2>11 DEF n
<1> QED BY <1>1, <1>4, <1>5

\* The words on which the lowest context depends.
LEMMA LowestStays ==
    ASSUME NEW c, NEW m, NEW p, Lowest(c, m, call),
           c.cpl = USER => \A a \in 0..(UserTop - 1) : a < WorkTop \/ TrapTop <= a => p[a] = m[a]
    PROVE  Lowest(c, p, call)
<1>1. CASE InTest(c)
    BY <1>1 DEF Lowest
<1>2. CASE ~InTest(c)
    <2>1. c.cpl = USER /\ CallHeld(m, call)
        BY <1>2 DEF Lowest, InStub, InFn, InRet, AtUser
    <2>2. call.sp \in {WorkTop - 1, WorkTop - 2}
        BY <2>1 DEF CallHeld
    <2>3. /\ p[call.sp - 1] = m[call.sp - 1] /\ p[call.sp - 2] = m[call.sp - 2]
          /\ p[call.sp - 3] = m[call.sp - 3]
          /\ p[UserTop - 1] = m[UserTop - 1] /\ p[UserTop - 2] = m[UserTop - 2]
        <3>1. \A a \in 0..(UserTop - 1) : a < WorkTop \/ TrapTop <= a => p[a] = m[a]
            BY <2>1
        <3>2. /\ call.sp - 1 \in 0..(UserTop - 1) /\ call.sp - 2 \in 0..(UserTop - 1)
              /\ call.sp - 3 \in 0..(UserTop - 1)
              /\ UserTop - 1 \in 0..(UserTop - 1) /\ UserTop - 2 \in 0..(UserTop - 1)
              /\ call.sp - 1 < WorkTop /\ call.sp - 2 < WorkTop /\ call.sp - 3 < WorkTop
              /\ TrapTop <= UserTop - 1 /\ TrapTop <= UserTop - 2
            BY <2>2, Sizes
        <3> QED BY <3>1, <3>2, Zenon
    <2>4. CallHeld(p, call)
        BY <2>1, <2>3 DEF CallHeld
    <2> QED BY <1>2, <2>3, <2>4 DEF Lowest, InStub, InFn, InRet
<1> QED BY <1>1, <1>2

\* An entry stub keeps the invariant, whatever it interrupts.
LEMMA EnterKeeps ==
    ASSUME TrapsInv, state = "run", NEW c \in Cpus, NEW vector \in Int,
           NEW handler \in {DO_EXCEPTION, DO_SYSCALL, DO_EVTCHN},
           IF interrupted = <<>> THEN Lowest(c, mem, call)
           ELSE Handler(c, interrupted[Len(interrupted)].regs) /\ c.ip \in HandlerCode,
           Enter(c, vector, handler)
    PROVE  TrapsInv'
<1> DEFINE n == Len(interrupted)
           at == FrameTop(c) - FrameSize(c)
           new == [cpu |-> c, regs |-> at]
           first == IF interrupted = <<>> THEN c ELSE interrupted[1].cpu
<1>1. /\ n \in Nat /\ DOMAIN interrupted = 1..n /\ (interrupted = <<>> <=> n = 0)
      /\ interrupted \in Seq([cpu : Cpus, regs : Int])
      /\ \A k \in 1..n : interrupted[k].cpu \in Cpus /\ interrupted[k].regs \in Int
      /\ mem \in [0..(UserTop - 1) -> Int]
    BY Contexts
<1>2. /\ n < MaxNest
      /\ mem' = Push(mem, FrameTop(c), Pushed(c, vector))
      /\ interrupted' = Append(interrupted, new)
      /\ cpu' = [ip |-> Running(handler), ax |-> at, cx |-> 0, dx |-> 0, si |-> 0,
                 di |-> at, bp |-> at - 2, sp |-> at - 2, cpl |-> KERN,
                 ds |-> IF CONFIG_64BIT THEN c.ds ELSE KERN, if |-> 0]
      /\ UNCHANGED <<build, user, state, call>>
    <2>1. Len(HardwareFrame(c) \o StubFrame(c, vector) \o SAVE_ALL(c)) = FrameSize(c)
        BY WordsAre
    <2> QED BY <2>1, Zenon DEF Enter, Pushed
<1>3. c.sp \in Int /\ c.cpl \in Int /\ c.ds \in Int /\ FrameTop(c) \in Int /\ FrameSize(c) \in {12, 14}
    BY Sizes DEF Cpus, FrameTop, FrameSize
<1>4. at \in Int /\ FrameAt(c, at)
    BY <1>3 DEF FrameAt
<1> HIDE DEF at
<1>5. /\ at - 2 >= Floor(first, n + 1) /\ 2 <= at
      /\ FrameTop(c) <= Ceiling(first) /\ FrameTop(c) <= UserTop
      /\ first.cpl = USER => at - 2 >= WorkTop
      /\ \A j \in DOMAIN interrupted : FrameTop(c) < interrupted[j].regs - 1
    BY <1>2, <1>4, FrameFits
<1>6. /\ mem' \in [0..(UserTop - 1) -> Int]
      /\ FrameHolds(c, at, mem')
      /\ Untouched(mem', mem, at - 2, FrameTop(c))
    <2>1. FrameTop(c) <= UserTop /\ 2 <= at
        BY <1>5
    <2>2. mem \in [0..(UserTop - 1) -> Int] /\ mem' = Push(mem, FrameTop(c), Pushed(c, vector))
        BY <1>1, <1>2
    <2>3. at \in Int /\ FrameAt(c, at)
        BY <1>4
    <2> QED BY <2>1, <2>2, <2>3, EntersFrame
<1>7. /\ Len(interrupted') = n + 1 /\ DOMAIN interrupted' = 1..(n + 1)
      /\ interrupted'[n + 1].cpu = c /\ interrupted'[n + 1].regs = at
      /\ \A k \in 1..n : interrupted'[k] = interrupted[k]
      /\ interrupted' \in Seq([cpu : Cpus, regs : Int]) /\ interrupted' # <<>>
      /\ interrupted'[1].cpu = first
    <2>1. new \in [cpu : Cpus, regs : Int] /\ new.cpu = c /\ new.regs = at
        BY <1>4
    <2> HIDE DEF new
    <2>2. /\ Len(interrupted') = n + 1 /\ DOMAIN interrupted' = 1..(n + 1)
          /\ interrupted'[n + 1] = new
          /\ \A k \in 1..n : interrupted'[k] = interrupted[k]
          /\ interrupted' \in Seq([cpu : Cpus, regs : Int])
        BY <1>1, <1>2, <2>1
    <2>3. interrupted' # <<>> /\ 1 \in 1..(n + 1)
        BY <1>1, <2>2
    <2>4. interrupted'[1].cpu = first
        <3>1. CASE n = 0
            BY <1>1, <2>1, <2>2, <3>1
        <3>2. CASE n # 0
            <4>1. 1 \in 1..n /\ interrupted # <<>>
                BY <1>1, <3>2
            <4> QED BY <2>2, <4>1
        <3> QED BY <3>1, <3>2
    <2> QED BY <2>1, <2>2, <2>3, <2>4
<1>8. TrapsTypeOK'
    <2>1. cpu' \in Cpus
        BY <1>2, <1>3, <1>4, Sizes DEF Cpus, Running, DO_EXCEPTION, DO_SYSCALL, DO_EVTCHN
    <2>2. /\ Len(interrupted') <= MaxNest /\ interrupted' \in Seq([cpu : Cpus, regs : Int])
          /\ mem' \in [0..(UserTop - 1) -> Int]
        <3>1. Len(interrupted') <= MaxNest
            BY <1>1, <1>2, <1>7, Sizes
        <3> QED BY <1>6, <1>7, <3>1
    <2>3. /\ build \in Builds /\ user \subseteq Sections /\ state \in {"run", "panic"}
          /\ call \in [sp : Int, bp : Int, p1 : Int, got : Int, ret : Int]
        BY DEF TrapsInv, TrapsTypeOK
    <2>4. UNCHANGED <<build, user, state, call>>
        BY <1>2
    <2> QED BY <2>1, <2>2, <2>3, <2>4 DEF TrapsTypeOK, UserTop
<1>9. LowestInv'
    <2>1. Lowest(first, mem, call)
        BY <1>1 DEF TrapsInv, LowestInv
    <2>2. first.cpl = USER => \A a \in 0..(UserTop - 1) : a < WorkTop \/ TrapTop <= a => mem'[a] = mem[a]
        <3>1. Ceiling(first) = IF first.cpl = USER THEN TrapTop ELSE WorkTop
            BY DEF Ceiling
        <3> HIDE DEF first
        <3>2. SUFFICES ASSUME first.cpl = USER, NEW a \in 0..(UserTop - 1),
                              a < WorkTop \/ TrapTop <= a
                       PROVE  mem'[a] = mem[a]
            OBVIOUS
        <3>3. WorkTop <= at - 2 /\ FrameTop(c) <= TrapTop
            BY <1>5, <3>1, <3>2
        <3>4. at \in Int /\ FrameTop(c) \in Int /\ a \in Int /\ WorkTop \in Int /\ TrapTop \in Int
            BY <1>3, <1>4, <3>2, Sizes
        <3>5. a < at - 2 \/ FrameTop(c) <= a
            BY <3>2, <3>3, <3>4
        <3> QED BY <1>6, <3>2, <3>5, Zenon DEF Untouched
    <2>3. Lowest(first, mem', call)
        BY <2>1, <2>2, LowestStays
    <2>4. interrupted'[1].cpu = first /\ interrupted' # <<>> /\ UNCHANGED <<build, call>>
        BY <1>2, <1>7
    <2> HIDE DEF first
    <2> QED BY <2>3, <2>4, SameBuild DEF LowestInv
<1>10. HandlersInv'
    <2>1. ASSUME NEW k \in 1..n
          PROVE  Handler(interrupted'[k + 1].cpu, interrupted'[k].regs) /\ interrupted'[k + 1].cpu.ip \in HandlerCode
        <3>1. CASE k = n
            <4>1. interrupted # <<>> /\ interrupted'[k + 1].cpu = c /\ interrupted'[k] = interrupted[n]
                BY <1>1, <1>7, <3>1
            <4> QED BY <3>1, <4>1
        <3>2. CASE k # n
            <4>1. k \in 1..(n - 1) /\ k \in 1..n /\ k + 1 \in 1..n
                <5>1. n \in Nat
                    BY <1>1
                <5> HIDE DEF n
                <5> QED BY <3>2, <5>1
            <4>2. interrupted'[k] = interrupted[k] /\ interrupted'[k + 1] = interrupted[k + 1]
                BY <1>7, <4>1
            <4> QED BY <4>1, <4>2 DEF TrapsInv, HandlersInv
        <3> QED BY <3>1, <3>2
    <2>2. Handler(cpu', at) /\ cpu'.ip \in HandlerIps
        <3>1. c.ds = USER \/ ~CONFIG_64BIT
            <4>1. CASE interrupted = <<>>
                BY <4>1 DEF Lowest, InTest, InStub, InFn, InRet, AtUser
            <4>2. CASE interrupted # <<>>
                BY <4>2 DEF Handler, HandlerDs
            <4> QED BY <4>1, <4>2
        <3> QED BY <1>2, <3>1 DEF Handler, HandlerDs, HandlerIps, HandlerCode, Within
    <2>3. Len(interrupted') = n + 1 /\ n + 1 - 1 = n /\ interrupted'[n + 1].regs = at /\ UNCHANGED build
        BY <1>1, <1>2, <1>7
    <2>4. n \in Nat
        BY <1>1
    <2> HIDE DEF n, new
    <2>5. ASSUME NEW k \in 1..(Len(interrupted') - 1)
          PROVE  Handler(interrupted[k + 1].cpu, interrupted[k].regs)'
                 /\ interrupted'[k + 1].cpu.ip \in HandlerCode
        <3>1. k \in 1..n
            BY <2>3, <2>4
        <3> QED BY <2>1, <2>3, <3>1, SameBuild
    <2>6. Handler(cpu, interrupted[Len(interrupted)].regs)'
        BY <2>2, <2>3, SameBuild
    <2> QED BY <2>2, <2>5, <2>6 DEF HandlersInv
<1>11. FramesInv'
    <2>1. ASSUME NEW k \in 1..(n + 1)
          PROVE  /\ FrameAt(interrupted'[k].cpu, interrupted'[k].regs)
                 /\ FrameHolds(interrupted'[k].cpu, interrupted'[k].regs, mem')
                 /\ interrupted'[k].regs - 2 >= Floor(first, k)
                 /\ FrameTop(interrupted'[k].cpu) <= Ceiling(first)
                 /\ \A j \in 1..(k - 1) : FrameTop(interrupted'[k].cpu) < interrupted'[j].regs - 1
        <3>1. CASE k = n + 1
            <4>1. interrupted'[k].cpu = c /\ interrupted'[k].regs = at /\ k - 1 = n
                BY <1>1, <1>7, <3>1
            <4> HIDE DEF first
            <4> QED BY <1>1, <1>4, <1>5, <1>6, <1>7, <3>1, <4>1
        <3>2. CASE k # n + 1
            <4>1. k \in 1..n /\ n # 0 /\ interrupted'[k] = interrupted[k] /\ first = interrupted[1].cpu
                BY <1>1, <1>7, <3>2
            <4> HIDE DEF first
            <4>2. /\ FrameAt(interrupted[k].cpu, interrupted[k].regs)
                  /\ FrameHolds(interrupted[k].cpu, interrupted[k].regs, mem)
                  /\ interrupted[k].regs - 2 >= Floor(first, k)
                  /\ FrameTop(interrupted[k].cpu) <= Ceiling(first)
                  /\ \A j \in 1..(k - 1) : FrameTop(interrupted[k].cpu) < interrupted[j].regs - 1
                BY <1>1, <4>1 DEF TrapsInv, FramesInv
            <4>3. FrameHolds(interrupted[k].cpu, interrupted[k].regs, mem')
                <5> DEFINE d == interrupted[k].cpu
                           r == interrupted[k].regs
                <5>1. d \in Cpus /\ r \in Int /\ FrameTop(c) < r - 1
                    BY <1>1, <1>5, <4>1
                <5>2. r + FrameSize(d) = FrameTop(d) /\ FrameTop(d) <= Ceiling(first)
                    BY <4>2 DEF FrameAt
                <5>3. FrameSize(d) \in {12, 14} /\ Ceiling(first) \in {WorkTop, TrapTop}
                    BY DEF FrameSize, Ceiling
                <5> HIDE DEF d, r
                <5>4. ASSUME NEW a \in Int, r <= a, a < r + FrameSize(d) PROVE mem'[a] = mem[a]
                    <6>1. a \in Int /\ FrameTop(c) <= a
                        BY <1>3, <5>1, <5>4
                    <6>2. 0 <= a
                        BY <1>3, <1>4, <1>5, <6>1 DEF FrameAt
                    <6>3. a < UserTop
                        BY <5>1, <5>2, <5>3, <5>4, Sizes
                    <6>4. a \in 0..(UserTop - 1)
                        BY <6>1, <6>2, <6>3, Sizes
                    <6> QED BY <1>6, <6>1, <6>4 DEF Untouched
                <5>5. FrameHolds(d, r, mem)
                    BY <4>2 DEF d, r
                <5>6. FrameHolds(d, r, mem')
                    BY <5>1, <5>4, <5>5, FrameStays
                <5> QED BY <5>6 DEF d, r
            <4>4. \A j \in 1..(k - 1) : interrupted'[j] = interrupted[j]
                BY <1>1, <1>7, <4>1
            <4> QED BY <4>1, <4>2, <4>3, <4>4
        <3> QED BY <3>1, <3>2
    <2>2. interrupted'[1].cpu = first /\ UNCHANGED build
        BY <1>2, <1>7
    <2> HIDE DEF first
    <2>3. DOMAIN interrupted' = 1..(n + 1)
        BY <1>7
    <2> HIDE DEF n, new
    <2>4. ASSUME NEW k \in DOMAIN interrupted'
          PROVE  /\ FrameAt(interrupted[k].cpu, interrupted[k].regs)'
                 /\ FrameHolds(interrupted[k].cpu, interrupted[k].regs, mem)'
                 /\ (interrupted[k].regs - 2 >= Floor(interrupted[1].cpu, k))'
                 /\ (FrameTop(interrupted[k].cpu) <= Ceiling(interrupted[1].cpu))'
                 /\ \A j \in 1..(k - 1) : (FrameTop(interrupted[k].cpu) < interrupted[j].regs - 1)'
        <3>1. k \in 1..(n + 1)
            BY <2>3
        <3>2. /\ FrameAt(interrupted'[k].cpu, interrupted'[k].regs)
              /\ FrameHolds(interrupted'[k].cpu, interrupted'[k].regs, mem')
              /\ interrupted'[k].regs - 2 >= Floor(interrupted'[1].cpu, k)
              /\ FrameTop(interrupted'[k].cpu) <= Ceiling(interrupted'[1].cpu)
            BY <2>1, <2>2, <3>1, Zenon
        <3>3. \A j \in 1..(k - 1) : FrameTop(interrupted'[k].cpu) < interrupted'[j].regs - 1
            BY <2>1, <3>1, Zenon
        <3>4. UNCHANGED build
            BY <2>2
        <3>5. /\ FrameAt(interrupted[k].cpu, interrupted[k].regs)'
              /\ FrameHolds(interrupted[k].cpu, interrupted[k].regs, mem)'
            BY <3>2, <3>4, SameBuild
        <3>6. /\ (interrupted[k].regs - 2 >= Floor(interrupted[1].cpu, k))'
              /\ (FrameTop(interrupted[k].cpu) <= Ceiling(interrupted[1].cpu))'
            BY <3>2, <3>4, SameBuild
        <3>7. \A j \in 1..(k - 1) : (FrameTop(interrupted[k].cpu) < interrupted[j].regs - 1)'
            BY <3>3, <3>4, SameBuild
        <3> QED BY <3>5, <3>6, <3>7
    <2> QED BY <2>4 DEF FramesInv
<1> QED BY <1>8, <1>9, <1>10, <1>11 DEF TrapsInv

-----------------------------------------------------------------------------
(* Where the code that runs is.                                            *)

\* The places of the code, as numbers.
LEMMA Places ==
    /\ Within(TEST) = {3, 4, 5} /\ Within(FN) = {6, 7, 8} /\ Within(HOOK) = {9, 10, 11}
    /\ Within(DO_SYSCALL) = {12, 13, 14} /\ Within(DO_EVTCHN) = {15, 16, 17}
    /\ Running(TEST) = 3 /\ Running(FN) = 6 /\ Running(HOOK) = 9 /\ Running(DO_SYSCALL) = 12
    /\ Running(DO_EVTCHN) = 15 /\ Running(DO_EXCEPTION) = 18 /\ Running(STUB) = 21
    /\ Running(RET2KERN) = 24 /\ Running(RETURNED) = 27 /\ Running(EPILOGUE) = 30
    /\ HandlerCode = 9..17 /\ HandlerIps = (9..17) \union {18, 30}
<1>1. /\ Within(HOOK) = {9, 10, 11} /\ Within(DO_SYSCALL) = {12, 13, 14}
      /\ Within(DO_EVTCHN) = {15, 16, 17}
    BY DEF Within, Running, InTable, Bare, HOOK, DO_SYSCALL, DO_EVTCHN
<1>2. HandlerCode = 9..17
    BY <1>1 DEF HandlerCode
<1>3. Within(TEST) = {3, 4, 5} /\ Within(FN) = {6, 7, 8}
    BY DEF Within, Running, InTable, Bare, TEST, FN
<1>4. /\ Running(TEST) = 3 /\ Running(FN) = 6 /\ Running(HOOK) = 9 /\ Running(DO_SYSCALL) = 12
      /\ Running(DO_EVTCHN) = 15 /\ Running(DO_EXCEPTION) = 18 /\ Running(STUB) = 21
      /\ Running(RET2KERN) = 24 /\ Running(RETURNED) = 27 /\ Running(EPILOGUE) = 30
    BY DEF Running, TEST, FN, HOOK, DO_SYSCALL, DO_EVTCHN, DO_EXCEPTION, STUB, RET2KERN, RETURNED, EPILOGUE
<1> QED BY <1>1, <1>2, <1>3, <1>4 DEF HandlerIps

\* What runs tells where the context is.
LEMMA Placed ==
    ASSUME TrapsInv
    PROVE  /\ cpu.ip \in 9..18 \/ cpu.ip = 30 => interrupted # <<>>
           /\ ~(cpu.ip \in 9..18 \/ cpu.ip = 30) => interrupted = <<>>
           /\ cpu.ip \in 3..5 => InTest(cpu)
           /\ cpu.ip = 21 => InStub(cpu, mem, call)
           /\ cpu.ip \in 6..8 => InFn(cpu, mem, call)
           /\ cpu.ip = 24 => InRet(cpu, mem, call)
           /\ cpu.ip = 27 => IsBack(cpu, mem, call)
           /\ cpu.ip \in (3..18) \union {21, 24, 27, 30}
<1>1. CASE interrupted = <<>>
    <2>1. InTest(cpu) \/ InStub(cpu, mem, call) \/ InFn(cpu, mem, call) \/ InRet(cpu, mem, call)
          \/ IsBack(cpu, mem, call)
        BY <1>1 DEF TrapsInv, LowestInv, Lowest
    <2>2. /\ InTest(cpu) => cpu.ip \in 3..5
          /\ InStub(cpu, mem, call) => cpu.ip = 21
          /\ InFn(cpu, mem, call) => cpu.ip \in 6..8
          /\ InRet(cpu, mem, call) => cpu.ip = 24
          /\ IsBack(cpu, mem, call) => cpu.ip = 27
        BY Places DEF InTest, InStub, InFn, InRet, IsBack
    <2>3. CASE InTest(cpu)
        BY <1>1, <2>2, <2>3
    <2>4. CASE InStub(cpu, mem, call)
        BY <1>1, <2>2, <2>4
    <2>5. CASE InFn(cpu, mem, call)
        BY <1>1, <2>2, <2>5
    <2>6. CASE InRet(cpu, mem, call)
        BY <1>1, <2>2, <2>6
    <2>7. CASE IsBack(cpu, mem, call)
        BY <1>1, <2>2, <2>7
    <2> QED BY <2>1, <2>3, <2>4, <2>5, <2>6, <2>7
<1>2. CASE interrupted # <<>>
    <2>1. cpu.ip \in (9..17) \union {18, 30}
        BY <1>2, Places DEF TrapsInv, HandlersInv
    <2>2. cpu.ip \in Int /\ 9 <= cpu.ip /\ (cpu.ip <= 18 \/ cpu.ip = 30)
        BY <2>1
    <2> QED BY <1>2, <2>2
<1> QED BY <1>1, <1>2

\* Every interrupted context is the lowest one or a handler.
LEMMA ContextIs ==
    ASSUME TrapsInv, NEW k \in DOMAIN interrupted
    PROVE  /\ k = 1 => Lowest(interrupted[k].cpu, mem, call)
           /\ k # 1 => /\ k - 1 \in DOMAIN interrupted
                       /\ Handler(interrupted[k].cpu, interrupted[k - 1].regs)
                       /\ interrupted[k].cpu.ip \in HandlerCode
           /\ interrupted[k].cpu.cpl \in {KERN, USER}
           /\ interrupted[k].cpu.ds \in {KERN, USER}
           /\ interrupted[k].cpu.cpl <= interrupted[k].cpu.ds
           /\ CONFIG_64BIT => interrupted[k].cpu.ds = USER
<1>1. DOMAIN interrupted = 1..Len(interrupted) /\ Len(interrupted) \in Nat /\ interrupted # <<>>
    BY Contexts
<1>2. CASE k = 1
    <2>1. Lowest(interrupted[k].cpu, mem, call)
        BY <1>1, <1>2 DEF TrapsInv, LowestInv
    <2>2. /\ interrupted[k].cpu.cpl \in {KERN, USER} /\ interrupted[k].cpu.ds = USER
        BY <2>1 DEF Lowest, InTest, InStub, InFn, InRet, AtUser
    <2> QED BY <1>2, <2>1, <2>2, Sizes
<1>3. CASE k # 1
    <2>1. k - 1 \in 1..(Len(interrupted) - 1) /\ k - 1 + 1 = k
        BY <1>1, <1>3
    <2>2. /\ Handler(interrupted[k - 1 + 1].cpu, interrupted[k - 1].regs)
          /\ interrupted[k - 1 + 1].cpu.ip \in HandlerCode
        BY <2>1, Zenon DEF TrapsInv, HandlersInv
    <2>3. Handler(interrupted[k].cpu, interrupted[k - 1].regs) /\ interrupted[k].cpu.ip \in HandlerCode
        BY <2>1, <2>2
    <2>4. k - 1 \in DOMAIN interrupted
        BY <1>1, <2>1
    <2>5. interrupted[k].cpu.cpl = KERN /\ interrupted[k].cpu.ds = IF CONFIG_64BIT THEN USER ELSE KERN
        BY <2>3 DEF Handler, HandlerDs
    <2>6. KERN <= KERN /\ KERN <= USER
        BY Sizes
    <2> QED BY <1>3, <2>3, <2>4, <2>5, <2>6
<1> QED BY <1>2, <1>3

\* The code that runs goes on, with its stack as it was.
LEMMA GoesOn ==
    ASSUME TrapsInv, UNCHANGED <<build, user, mem, interrupted, call>>,
           state' \in {"run", "panic"}, cpu' \in Cpus,
           interrupted = <<>> => Lowest(cpu', mem, call) \/ IsBack(cpu', mem, call),
           interrupted # <<>> =>
              Handler(cpu', interrupted[Len(interrupted)].regs) /\ cpu'.ip \in HandlerIps
    PROVE  TrapsInv'
<1>1. TrapsTypeOK'
    BY DEF TrapsInv, TrapsTypeOK, UserTop
<1>2. LowestInv'
    BY SameBuild DEF TrapsInv, LowestInv
<1>3. HandlersInv'
    BY SameBuild DEF TrapsInv, HandlersInv
<1>4. FramesInv'
    <2>1. ASSUME NEW k \in DOMAIN interrupted
          PROVE  /\ FrameAt(interrupted[k].cpu, interrupted[k].regs)'
                 /\ FrameHolds(interrupted[k].cpu, interrupted[k].regs, mem)'
                 /\ (interrupted[k].regs - 2 >= Floor(interrupted[1].cpu, k))'
                 /\ (FrameTop(interrupted[k].cpu) <= Ceiling(interrupted[1].cpu))'
                 /\ \A j \in 1..(k - 1) : (FrameTop(interrupted[k].cpu) < interrupted[j].regs - 1)'
        <3>1. /\ FrameAt(interrupted[k].cpu, interrupted[k].regs)
              /\ FrameHolds(interrupted[k].cpu, interrupted[k].regs, mem)
              /\ interrupted[k].regs - 2 >= Floor(interrupted[1].cpu, k)
              /\ FrameTop(interrupted[k].cpu) <= Ceiling(interrupted[1].cpu)
            BY DEF TrapsInv, FramesInv
        <3>2. \A j \in 1..(k - 1) : FrameTop(interrupted[k].cpu) < interrupted[j].regs - 1
            BY DEF TrapsInv, FramesInv
        <3>3. /\ FrameAt(interrupted[k].cpu, interrupted[k].regs)'
              /\ FrameHolds(interrupted[k].cpu, interrupted[k].regs, mem)'
            BY <3>1, SameBuild
        <3>4. /\ (interrupted[k].regs - 2 >= Floor(interrupted[1].cpu, k))'
              /\ (FrameTop(interrupted[k].cpu) <= Ceiling(interrupted[1].cpu))'
            BY <3>1, SameBuild
        <3>5. \A j \in 1..(k - 1) : (FrameTop(interrupted[k].cpu) < interrupted[j].regs - 1)'
            BY <3>2, SameBuild
        <3> QED BY <3>3, <3>4, <3>5
    <2> QED BY <2>1 DEF FramesInv
<1> QED BY <1>1, <1>2, <1>3, <1>4 DEF TrapsInv

\* Nothing is interrupted after the step.
LEMMA GoesOnAlone ==
    ASSUME TrapsInv, UNCHANGED <<build, user, state>>, interrupted' = <<>>,
           cpu' \in Cpus, mem' \in [0..(UserTop - 1) -> Int],
           call' \in [sp : Int, bp : Int, p1 : Int, got : Int, ret : Int],
           Lowest(cpu', mem', call') \/ IsBack(cpu', mem', call')
    PROVE  TrapsInv'
<1>1. interrupted' \in Seq([cpu : Cpus, regs : Int]) /\ Len(interrupted') = 0 /\ DOMAIN interrupted' = {}
    OBVIOUS
<1>2. TrapsTypeOK'
    BY <1>1, Sizes DEF TrapsInv, TrapsTypeOK, UserTop
<1>3. LowestInv'
    BY SameBuild DEF LowestInv
<1>4. HandlersInv'
    BY <1>1 DEF HandlersInv
<1>5. FramesInv'
    BY <1>1 DEF FramesInv
<1> QED BY <1>2, <1>3, <1>4, <1>5 DEF TrapsInv

\* The test starts with nothing interrupted.
LEMMA InvInit == Init => TrapsInv
<1> SUFFICES ASSUME Init PROVE TrapsInv
    OBVIOUS
<1>1. interrupted = <<>> /\ interrupted \in Seq([cpu : Cpus, regs : Int]) /\ Len(interrupted) = 0
    BY DEF Init
<1>2. InTest(cpu) /\ cpu \in Cpus
    <2>1. cpu \in [ip : {Running(TEST)}, ax : {0}, cx : {0}, dx : {0}, si : {0}, di : {0},
                   bp : {WorkTop}, sp : {WorkTop - 1, WorkTop - 2}, cpl : {KERN}, ds : {USER}, if : {0}]
        BY DEF Init
    <2> QED BY <2>1, Places, Sizes DEF InTest, Cpus
<1>3. mem \in [0..(UserTop - 1) -> Int]
    BY DEF Init
<1>4. TrapsTypeOK
    <2>1. call \in [sp : Int, bp : Int, p1 : Int, got : Int, ret : Int]
        BY DEF Init, NoCall
    <2>2. build \in Builds /\ user \subseteq Sections /\ state \in {"run", "panic"}
        BY DEF Init
    <2> QED BY <1>1, <1>2, <1>3, <2>1, <2>2, Sizes DEF TrapsTypeOK
<1>5. LowestInv /\ HandlersInv /\ FramesInv
    BY <1>1, <1>2 DEF LowestInv, Lowest, HandlersInv, FramesInv
<1> QED BY <1>4, <1>5 DEF TrapsInv

-----------------------------------------------------------------------------
(* Entries, and code that goes on by itself.                               *)

\* The context that runs, somewhere else in the same code.
LEMMA SameRoutine ==
    ASSUME TrapsInv, NEW r \in Code, cpu.ip \in Within(r), NEW d, d.ip \in Within(r),
           d.sp = cpu.sp, d.bp = cpu.bp, d.cpl = cpu.cpl, d.ds = cpu.ds
    PROVE  /\ interrupted = <<>> => Lowest(d, mem, call)
           /\ interrupted # <<>> =>
                 Handler(d, interrupted[Len(interrupted)].regs) /\ d.ip \in HandlerCode
<1>1. r \in {TEST, FN, HOOK, DO_SYSCALL, DO_EVTCHN}
    BY DEF Code
<1>2. CASE r = TEST
    <2>1. cpu.ip \in {3, 4, 5}
        BY <1>2, Places
    <2>2. cpu.ip \in 3..5 /\ ~(cpu.ip \in 9..18 \/ cpu.ip = 30)
        BY <2>1
    <2>3. InTest(cpu) /\ interrupted = <<>>
        BY <2>2, Placed, Zenon
    <2> QED BY <1>2, <2>3 DEF InTest, Lowest
<1>3. CASE r = FN
    <2>1. cpu.ip \in {6, 7, 8}
        BY <1>3, Places
    <2>2. cpu.ip \in 6..8 /\ ~(cpu.ip \in 9..18 \/ cpu.ip = 30)
        BY <2>1
    <2>3. InFn(cpu, mem, call) /\ interrupted = <<>>
        BY <2>2, Placed, Zenon
    <2> QED BY <1>3, <2>3 DEF InFn, AtUser, Lowest
<1>4. CASE r \in {HOOK, DO_SYSCALL, DO_EVTCHN}
    <2>1. d.ip \in HandlerCode
        BY <1>4 DEF HandlerCode
    <2>2. cpu.ip \in HandlerCode
        BY <1>4 DEF HandlerCode
    <2>3. cpu.ip \in 9..18
        BY <2>2, Places
    <2>4. interrupted # <<>>
        BY <2>3, Placed, Zenon
    <2>5. Handler(cpu, interrupted[Len(interrupted)].regs)
        BY <2>4 DEF TrapsInv, HandlersInv
    <2> QED BY <2>1, <2>4, <2>5 DEF Handler
<1> QED BY <1>1, <1>2, <1>3, <1>4

\* Where a routine runs unharmed.
LEMMA AtStart ==
    ASSUME TrapsInv
    PROVE  /\ cpu.ip = Running(TEST) => interrupted = <<>> /\ InTest(cpu)
           /\ cpu.ip = Running(FN) => interrupted = <<>> /\ InFn(cpu, mem, call)
           /\ cpu.ip = Running(STUB) => interrupted = <<>> /\ InStub(cpu, mem, call)
           /\ cpu.ip = Running(RET2KERN) => interrupted = <<>> /\ InRet(cpu, mem, call)
           /\ cpu.ip = Running(RETURNED) => interrupted = <<>> /\ IsBack(cpu, mem, call)
           /\ cpu.ip \in HandlerIps => interrupted # <<>>
<1>1. /\ cpu.ip = 3 => cpu.ip \in 3..5 /\ ~(cpu.ip \in 9..18 \/ cpu.ip = 30)
      /\ cpu.ip = 6 => cpu.ip \in 6..8 /\ ~(cpu.ip \in 9..18 \/ cpu.ip = 30)
      /\ cpu.ip = 21 => ~(cpu.ip \in 9..18 \/ cpu.ip = 30)
      /\ cpu.ip = 24 => ~(cpu.ip \in 9..18 \/ cpu.ip = 30)
      /\ cpu.ip = 27 => ~(cpu.ip \in 9..18 \/ cpu.ip = 30)
      /\ cpu.ip \in (9..17) \union {18, 30} => cpu.ip \in 9..18 \/ cpu.ip = 30
    OBVIOUS
<1>2. /\ Running(TEST) = 3 /\ Running(FN) = 6 /\ Running(STUB) = 21 /\ Running(RET2KERN) = 24
      /\ Running(RETURNED) = 27 /\ HandlerIps = (9..17) \union {18, 30}
    BY Places
<1> QED BY <1>1, <1>2, Placed, Zenon

\* Everything that enters the kernel by a stub.
LEMMA EntriesKeep ==
    ASSUME TrapsInv, \/ \E r \in Code : Fault(r) \/ SoftwareInterrupt(r)
                     \/ Syscall \/ Upcall \/ StubFaults
    PROVE  TrapsInv'
<1>1. cpu \in Cpus
    BY Contexts
<1>2. ASSUME NEW ip \in Int
      PROVE  /\ At(ip) \in Cpus /\ At(ip).ip = ip /\ At(ip).sp = cpu.sp /\ At(ip).bp = cpu.bp
             /\ At(ip).cpl = cpu.cpl /\ At(ip).ds = cpu.ds
    BY <1>1 DEF At, Cpus
<1>3. ASSUME NEW r \in Code, NEW ip \in Within(r), cpu.ip \in Within(r), state = "run",
             NEW c \in {cpu, At(ip)}, NEW vector \in Int, c.ip \in Within(r),
             Enter(c, vector, DO_EXCEPTION)
      PROVE  TrapsInv'
    <2>1. ip \in Int
        BY <1>3, Places DEF Code
    <2>2. /\ c \in Cpus /\ c.sp = cpu.sp /\ c.bp = cpu.bp /\ c.cpl = cpu.cpl /\ c.ds = cpu.ds
        BY <1>1, <1>2, <1>3, <2>1
    <2> QED BY <1>3, <2>2, SameRoutine, EnterKeeps
<1>4. ASSUME interrupted = <<>>, Lowest(cpu, mem, call), state = "run", NEW vector \in Int,
             NEW handler \in {DO_EXCEPTION, DO_SYSCALL, DO_EVTCHN}, Enter(cpu, vector, handler)
      PROVE  TrapsInv'
    BY <1>1, <1>4, EnterKeeps
<1>5. ASSUME NEW r \in Code, Fault(r) PROVE TrapsInv'
    <2>1. ASSUME Runs(r), NEW ip \in {InTable(r), Bare(r)}, Enter(At(ip), X86_EXC_UD, DO_EXCEPTION)
          PROVE  TrapsInv'
        <3>1. ip \in Within(r) /\ cpu.ip \in Within(r) /\ state = "run"
            BY <2>1 DEF Runs, Within
        <3>2. At(ip).ip \in Within(r) /\ X86_EXC_UD \in Int
            BY <3>1 DEF At, X86_EXC_UD
        <3> QED BY <1>3, <2>1, <3>1, <3>2
    <2>2. ASSUME state = "run", cpu.ip \in {InTable(r), Bare(r)}, Enter(cpu, X86_EXC_UD, DO_EXCEPTION)
          PROVE  TrapsInv'
        <3>1. cpu.ip \in Within(r) /\ X86_EXC_UD \in Int
            BY <2>2 DEF Within, X86_EXC_UD
        <3> QED BY <1>3, <2>2, <3>1
    <2> QED BY <1>5, <2>1, <2>2 DEF Fault
<1>6. ASSUME NEW r \in Code, SoftwareInterrupt(r) PROVE TrapsInv'
    <2>1. cpu.ip \in Within(r) /\ state = "run" /\ Bare(r) \in Within(r)
        BY <1>6 DEF SoftwareInterrupt, Runs, Within
    <2>2. PICK vector \in {X86_EXC_BP, X86_EXC_UD} :
              Enter(cpu, vector, DO_EXCEPTION) \/ Enter(At(Bare(r)), X86_EXC_GP, DO_EXCEPTION)
        BY <1>6 DEF SoftwareInterrupt
    <2>3. vector \in Int /\ X86_EXC_GP \in Int
        BY DEF X86_EXC_BP, X86_EXC_UD, X86_EXC_GP
    <2>4. At(Bare(r)).ip \in Within(r)
        BY <2>1 DEF At
    <2> QED BY <1>3, <2>1, <2>2, <2>3, <2>4
<1>7. CASE Syscall
    <2>1. state = "run" /\ interrupted = <<>> /\ Lowest(cpu, mem, call)
        BY <1>7, AtStart DEF Syscall, Runs, Lowest
    <2>2. PICK vector \in {SYSCALL, SYSENTER} : Enter(cpu, vector, DO_SYSCALL)
        BY <1>7 DEF Syscall
    <2>3. vector \in Int
        BY DEF SYSCALL, SYSENTER
    <2> QED BY <1>4, <2>1, <2>2, <2>3
<1>8. CASE Upcall
    <2>1. state = "run" /\ cpu.ip \in {Running(TEST), Running(STUB), Running(FN), Running(RET2KERN)}
        BY <1>8 DEF Upcall, Runs
    <2>2. interrupted = <<>> /\ Lowest(cpu, mem, call)
        BY <2>1, AtStart DEF Lowest
    <2>3. Enter(cpu, UPCALL, DO_EVTCHN) /\ UPCALL \in Int
        BY <1>8 DEF Upcall, UPCALL
    <2> QED BY <1>4, <2>1, <2>2, <2>3
<1>9. CASE StubFaults
    <2>1. state = "run" /\ interrupted = <<>> /\ Lowest(cpu, mem, call)
        BY <1>9, AtStart DEF StubFaults, Runs, Lowest
    <2>2. Enter(cpu, X86_EXC_PF, DO_EXCEPTION) /\ X86_EXC_PF \in Int
        BY <1>9 DEF StubFaults, X86_EXC_PF
    <2> QED BY <1>4, <2>1, <2>2
<1> QED BY <1>5, <1>6, <1>7, <1>8, <1>9

\* Code that goes on by itself.
LEMMA OthersKeep ==
    ASSUME TrapsInv, (\E r \in Code : Retried(r)) \/ SetIf \/ CallHook \/ HandlerReturns \/ Panic
    PROVE  TrapsInv'
<1>1. interrupted # <<>> => Handler(cpu, interrupted[Len(interrupted)].regs)
    BY DEF TrapsInv, HandlersInv
<1>0. cpu \in Cpus /\ state \in {"run", "panic"}
    BY Contexts DEF TrapsInv, TrapsTypeOK
<1>2. ASSUME NEW ip \in Int, cpu' = [cpu EXCEPT !.ip = ip]
      PROVE  /\ cpu' \in Cpus /\ cpu'.ip = ip /\ cpu'.sp = cpu.sp /\ cpu'.bp = cpu.bp
             /\ cpu'.cpl = cpu.cpl /\ cpu'.ds = cpu.ds
    BY <1>0, <1>2 DEF Cpus
<1>3. ASSUME NEW r \in Code, Retried(r) PROVE TrapsInv'
    <2>1. /\ cpu.ip \in Within(r) /\ cpu' = [cpu EXCEPT !.ip = Running(r)]
          /\ UNCHANGED <<build, user, mem, interrupted, call, state>>
        BY <1>3 DEF Retried, Within
    <2>2. Running(r) \in Within(r) /\ Running(r) \in Int
        BY Places DEF Code, Within
    <2>3. /\ cpu' \in Cpus /\ cpu'.ip = Running(r) /\ cpu'.sp = cpu.sp /\ cpu'.bp = cpu.bp
          /\ cpu'.cpl = cpu.cpl /\ cpu'.ds = cpu.ds
        BY <1>2, <2>1, <2>2
    <2> QED BY <1>0, <2>1, <2>2, <2>3, SameRoutine, GoesOn DEF HandlerIps
<1>4. CASE SetIf
    <2>1. /\ cpu.ip = Running(TEST) /\ cpu' = [cpu EXCEPT !.if = 1 - cpu.if]
          /\ UNCHANGED <<build, user, mem, interrupted, call, state>>
        BY <1>4 DEF SetIf, Runs
    <2>2. interrupted = <<>> /\ InTest(cpu)
        BY <2>1, AtStart
    <2>3. cpu' \in Cpus /\ InTest(cpu')
        <3>1. 1 - cpu.if \in Int /\ cpu \in Cpus
            BY <1>0 DEF Cpus
        <3>2. /\ cpu' \in Cpus /\ cpu'.ip = cpu.ip /\ cpu'.sp = cpu.sp /\ cpu'.bp = cpu.bp
              /\ cpu'.cpl = cpu.cpl /\ cpu'.ds = cpu.ds
            BY <2>1, <3>1 DEF Cpus
        <3> QED BY <2>2, <3>2 DEF InTest
    <2> QED BY <1>0, <2>1, <2>2, <2>3, GoesOn DEF Lowest
<1>5. ASSUME NEW r \in {HOOK, EPILOGUE}, cpu.ip \in HandlerIps, cpu' = [cpu EXCEPT !.ip = Running(r)],
             UNCHANGED <<build, user, mem, interrupted, call, state>>
      PROVE  TrapsInv'
    <2>1. Running(r) \in Int /\ Running(r) \in HandlerIps /\ interrupted # <<>>
        <3>1. Running(HOOK) = 9 /\ Running(EPILOGUE) = 30 /\ HandlerIps = (9..17) \union {18, 30}
            BY Places
        <3>2. Running(r) = 9 \/ Running(r) = 30
            BY <1>5, <3>1
        <3> QED BY <1>5, <3>1, <3>2, AtStart
    <2>2. cpu' \in Cpus /\ cpu'.ip \in HandlerIps /\ Handler(cpu', interrupted[Len(interrupted)].regs)
        <3>1. /\ cpu' \in Cpus /\ cpu'.ip = Running(r) /\ cpu'.sp = cpu.sp /\ cpu'.bp = cpu.bp
              /\ cpu'.cpl = cpu.cpl /\ cpu'.ds = cpu.ds
            BY <1>2, <1>5, <2>1
        <3> QED BY <1>1, <2>1, <3>1 DEF Handler
    <2> QED BY <1>0, <1>5, <2>1, <2>2, GoesOn
<1>6. CASE CallHook
    <2>1. cpu.ip \in HandlerIps
        BY <1>6, Places DEF CallHook, Runs
    <2> QED BY <1>5, <1>6, <2>1 DEF CallHook, Goto
<1>7. CASE HandlerReturns
    <2>1. cpu.ip \in HandlerIps
        BY <1>7, Places DEF HandlerReturns, Runs
    <2> QED BY <1>5, <1>7, <2>1 DEF HandlerReturns, Goto
<1>8. CASE Panic
    <2>1. interrupted # <<>> /\ cpu.ip \in HandlerIps
        BY <1>8, Places, AtStart DEF Panic, Runs
    <2> QED BY <1>0, <1>1, <1>8, <2>1, GoesOn DEF Panic
<1> QED BY <1>3, <1>4, <1>6, <1>7, <1>8

-----------------------------------------------------------------------------
(* exec_user_param().                                                      *)

\* exec_user_param() calls the function and returns.
LEMMA ExecUserKeeps == ASSUME TrapsInv, ExecUser PROVE TrapsInv'
<1>1. PICK p1 \in Values :
          /\ mem' = Push(mem, cpu.sp, <<Running(TEST), cpu.bp, Running(RETURNED),
                                        USER, UserTop, UserFlags(pushf), USER, Running(STUB)>>)
          /\ cpu' = [WithParams(cpu, Running(FN), p1) EXCEPT
                        !.ip = Running(STUB), !.cpl = USER,
                        !.if = UserFlags(pushf), !.sp = UserTop, !.bp = cpu.sp - 3]
          /\ call' = [sp |-> cpu.sp, bp |-> cpu.bp, p1 |-> p1, got |-> 0, ret |-> -1]
    BY DEF ExecUser
<1>2. /\ cpu.ip = Running(TEST) /\ UNCHANGED <<build, user, state, interrupted>>
      /\ interrupted = <<>> /\ InTest(cpu)
    BY AtStart DEF ExecUser, Runs
<1>3. cpu \in Cpus /\ mem \in [0..(UserTop - 1) -> Int]
    BY Contexts
<1>4. /\ cpu.sp \in {WorkTop - 1, WorkTop - 2} /\ cpu.bp = WorkTop /\ cpu.ds = USER /\ p1 \in Int
      /\ UserFlags(pushf) \in Int /\ Running(TEST) \in Int /\ Running(RETURNED) \in Int
      /\ Running(STUB) \in Int /\ Running(FN) \in Int
    BY <1>2, <1>3, Places, TrapsAssumption DEF InTest, UserFlags, pushf, Cpus
<1> DEFINE ws == <<Running(TEST), cpu.bp, Running(RETURNED),
                   USER, UserTop, UserFlags(pushf), USER, Running(STUB)>>
<1>5. /\ ws \in Seq(Int) /\ Len(ws) = 8
      /\ ws[1] = Running(TEST) /\ ws[2] = WorkTop /\ ws[3] = Running(RETURNED)
    <2>1. USER \in Int /\ UserTop \in Int /\ cpu.bp \in Int
        BY <1>4, Sizes
    <2> QED BY <1>4, <2>1
<1> HIDE DEF ws
<1>6. IsPushed(mem', mem, cpu.sp, ws)
    <2>1. mem' = Push(mem, cpu.sp, ws)
        BY <1>1, Zenon DEF ws
    <2>2. cpu.sp \in Int /\ ws \in Seq(Int)
        BY <1>4, <1>5, Sizes
    <2> QED BY <1>3, <2>1, <2>2, PushIs
<1>7. /\ mem' \in [0..(UserTop - 1) -> Int]
      /\ mem'[cpu.sp - 1] = Running(TEST) /\ mem'[cpu.sp - 2] = WorkTop
      /\ mem'[cpu.sp - 3] = Running(RETURNED)
    <2>0. cpu.sp \in Int /\ 8 <= cpu.sp /\ cpu.sp <= UserTop /\ UserTop \in Int
        <3>1. cpu.sp = WorkTop - 1 \/ cpu.sp = WorkTop - 2
            BY <1>4
        <3> QED BY <3>1, Sizes
    <2>1. ASSUME NEW k \in 1..3 PROVE mem'[cpu.sp - k] = ws[k]
        <3>1. /\ cpu.sp - k \in 0..(UserTop - 1) /\ cpu.sp - Len(ws) <= cpu.sp - k
              /\ cpu.sp - k < cpu.sp /\ cpu.sp - (cpu.sp - k) = k
            <4>1. Len(ws) = 8 /\ k \in Int /\ 1 <= k /\ k <= 3
                BY <1>5
            <4> QED BY <2>0, <4>1
        <3>2. mem'[cpu.sp - k] = ws[cpu.sp - (cpu.sp - k)]
            BY <1>6, <3>1, Zenon DEF IsPushed
        <3> QED BY <3>1, <3>2
    <2> QED BY <1>5, <1>6, <2>1 DEF IsPushed
<1>8. /\ cpu' \in Cpus /\ cpu'.ip = Running(STUB) /\ cpu'.cpl = USER /\ cpu'.ds = USER
      /\ cpu'.sp = UserTop /\ cpu'.bp = cpu.sp - 3
      /\ IF CONFIG_64BIT THEN cpu'.di = Running(FN) /\ cpu'.si = p1
                         ELSE cpu'.ax = Running(FN) /\ cpu'.dx = p1
    <2>1. cpu.sp - 3 \in Int /\ USER \in Int /\ UserTop \in Int
        BY <1>4, Sizes
    <2>2. CASE CONFIG_64BIT
        BY <1>1, <1>3, <1>4, <2>1, <2>2 DEF WithParams, Cpus
    <2>3. CASE ~CONFIG_64BIT
        BY <1>1, <1>3, <1>4, <2>1, <2>3 DEF WithParams, Cpus
    <2> QED BY <2>2, <2>3
<1>9. /\ call' \in [sp : Int, bp : Int, p1 : Int, got : Int, ret : Int]
      /\ call'.sp = cpu.sp /\ call'.bp = cpu.bp /\ call'.p1 = p1
    <2>1. cpu.sp \in Int /\ cpu.bp \in Int
        BY <1>4, Sizes
    <2> QED BY <1>1, <1>4, <2>1
<1>10. InStub(cpu', mem', call')
    BY <1>4, <1>7, <1>8, <1>9 DEF InStub, AtUser, CallHeld
<1> QED BY <1>2, <1>7, <1>8, <1>9, <1>10, GoesOnAlone DEF Lowest

\* exec_user_stub() calls the function.
LEMMA StubCallsKeeps == ASSUME TrapsInv, StubCalls PROVE TrapsInv'
<1>1. /\ mem' = Push(mem, cpu.sp, <<Running(RET2KERN), cpu.bp>>)
      /\ cpu' = [WithParams(cpu, Param2, Param1) EXCEPT
                    !.ip = Param1, !.sp = cpu.sp - 2, !.bp = cpu.sp - 2]
      /\ call' = [call EXCEPT !.got = Param2]
      /\ UNCHANGED <<build, user, state, interrupted>>
    BY DEF StubCalls
<1>2. interrupted = <<>> /\ InStub(cpu, mem, call)
    BY AtStart DEF StubCalls, Runs
<1>3. /\ cpu \in Cpus /\ mem \in [0..(UserTop - 1) -> Int]
      /\ call \in [sp : Int, bp : Int, p1 : Int, got : Int, ret : Int]
    BY Contexts DEF TrapsInv, TrapsTypeOK
<1>4. /\ cpu.sp = UserTop /\ cpu.bp = call.sp - 3 /\ cpu.cpl = USER /\ cpu.ds = USER
      /\ CallHeld(mem, call) /\ mem[call.sp - 3] = Running(RETURNED)
      /\ Param1 = Running(FN) /\ Param2 = call.p1
    BY <1>2 DEF InStub, AtUser, Param1, Param2
<1>5. call.sp \in {WorkTop - 1, WorkTop - 2} /\ UserTop \in Int /\ call.p1 \in Int
    BY <1>3, <1>4, Sizes DEF CallHeld
<1> DEFINE ws == <<Running(RET2KERN), cpu.bp>>
<1>6. ws \in Seq(Int) /\ Len(ws) = 2 /\ ws[1] = Running(RET2KERN) /\ ws[2] = call.sp - 3
    <2>1. Running(RET2KERN) \in Int /\ cpu.bp \in Int
        BY <1>3, Places DEF Cpus
    <2> QED BY <1>4, <2>1
<1> HIDE DEF ws
<1>7. IsPushed(mem', mem, UserTop, ws)
    <2>1. mem' = Push(mem, UserTop, ws)
        BY <1>1, <1>4, Zenon DEF ws
    <2> QED BY <1>3, <1>5, <1>6, <2>1, PushIs
<1>8. /\ mem' \in [0..(UserTop - 1) -> Int]
      /\ mem'[UserTop - 1] = Running(RET2KERN) /\ mem'[UserTop - 2] = call.sp - 3
      /\ mem'[call.sp - 1] = mem[call.sp - 1] /\ mem'[call.sp - 2] = mem[call.sp - 2]
      /\ mem'[call.sp - 3] = mem[call.sp - 3]
    <2>1. ASSUME NEW k \in 1..2 PROVE mem'[UserTop - k] = ws[k]
        <3>1. /\ UserTop - k \in 0..(UserTop - 1) /\ UserTop - Len(ws) <= UserTop - k
              /\ UserTop - k < UserTop /\ UserTop - (UserTop - k) = k
            BY <1>6, Sizes
        <3>2. mem'[UserTop - k] = ws[UserTop - (UserTop - k)]
            BY <1>7, <3>1, Zenon DEF IsPushed
        <3> QED BY <3>1, <3>2
    <2>2. ASSUME NEW k \in 1..3 PROVE mem'[call.sp - k] = mem[call.sp - k]
        <3>1. call.sp - k \in 0..(UserTop - 1) /\ call.sp - k < UserTop - Len(ws)
            <4>1. /\ WorkTop \in Int /\ UserTop \in Int /\ WorkTop - 5 >= 0 /\ WorkTop < UserTop - 2
                  /\ call.sp \in {WorkTop - 1, WorkTop - 2} /\ Len(ws) = 2
                BY <1>5, <1>6, Sizes
            <4> QED BY <4>1
        <3> QED BY <1>7, <3>1, Zenon DEF IsPushed, Untouched
    <2> QED BY <1>6, <1>7, <2>1, <2>2 DEF IsPushed
<1>9. /\ cpu' \in Cpus /\ cpu'.ip = Running(FN) /\ cpu'.cpl = USER /\ cpu'.ds = USER
      /\ cpu'.sp = UserTop - 2 /\ cpu'.bp = UserTop - 2
    <2>1. Running(FN) \in Int /\ Param1 \in Int /\ Param2 \in Int /\ UserTop - 2 \in Int
        BY <1>4, <1>5, Places
    <2>2. WithParams(cpu, Param2, Param1) \in Cpus
          /\ WithParams(cpu, Param2, Param1).cpl = USER /\ WithParams(cpu, Param2, Param1).ds = USER
        <3>1. CASE CONFIG_64BIT
            <4>1. WithParams(cpu, Param2, Param1) = [cpu EXCEPT !.di = Param2, !.si = Param1]
                BY <3>1, Zenon DEF WithParams
            <4> QED BY <1>3, <1>4, <2>1, <4>1 DEF Cpus
        <3>2. CASE ~CONFIG_64BIT
            <4>1. WithParams(cpu, Param2, Param1) = [cpu EXCEPT !.ax = Param2, !.dx = Param1]
                BY <3>2, Zenon DEF WithParams
            <4> QED BY <1>3, <1>4, <2>1, <4>1 DEF Cpus
        <3> QED BY <3>1, <3>2
    <2> DEFINE d == WithParams(cpu, Param2, Param1)
    <2>3. cpu' = [d EXCEPT !.ip = Running(FN), !.sp = UserTop - 2, !.bp = UserTop - 2]
        BY <1>1, <1>4
    <2>4. d \in Cpus /\ d.cpl = USER /\ d.ds = USER
        BY <2>2
    <2> HIDE DEF d
    <2> QED BY <2>1, <2>3, <2>4 DEF Cpus
<1>10. /\ call' \in [sp : Int, bp : Int, p1 : Int, got : Int, ret : Int]
       /\ call'.sp = call.sp /\ call'.bp = call.bp /\ call'.p1 = call.p1 /\ call'.got = call.p1
    BY <1>1, <1>3, <1>4, <1>5
<1>11. InFn(cpu', mem', call')
    BY <1>4, <1>8, <1>9, <1>10 DEF InFn, AtUser, CallHeld, Within
<1> QED BY <1>1, <1>2, <1>8, <1>9, <1>10, <1>11, GoesOnAlone DEF Lowest

\* The words that exec_user_param() has on the stack of the test, if what is
\* discarded is above it.
LEMMA CallStays ==
    ASSUME NEW m, NEW p, NEW cl, CallHeld(m, cl), NEW low \in Int, WorkTop <= low, NEW high,
           Untouched(p, m, low, high)
    PROVE  CallHeld(p, cl) /\ p[cl.sp - 3] = m[cl.sp - 3]
<1>1. cl.sp \in {WorkTop - 1, WorkTop - 2}
    BY DEF CallHeld
<1>2. ASSUME NEW k \in 1..3 PROVE p[cl.sp - k] = m[cl.sp - k]
    <2>1. cl.sp - k \in 0..(UserTop - 1) /\ cl.sp - k < low
        BY <1>1, Sizes
    <2> QED BY <2>1, Zenon DEF Untouched
<1>3. /\ p[cl.sp - 1] = m[cl.sp - 1] /\ p[cl.sp - 2] = m[cl.sp - 2] /\ p[cl.sp - 3] = m[cl.sp - 3]
    BY <1>2
<1> QED BY <1>3 DEF CallHeld

\* The function returns to exec_user_stub().
LEMMA FnReturnsKeeps == ASSUME TrapsInv, FnReturns PROVE TrapsInv'
<1>1. PICK v \in Values :
          /\ cpu' = [cpu EXCEPT !.ax = v, !.bp = mem[cpu.bp], !.ip = mem[cpu.bp + 1],
                                !.sp = cpu.bp + 2]
          /\ call' = [call EXCEPT !.ret = v]
    BY DEF FnReturns
<1>2. /\ mem' = Discard(mem, cpu.sp, cpu.bp + 2) /\ UNCHANGED <<build, user, state, interrupted>>
      /\ interrupted = <<>> /\ InFn(cpu, mem, call) /\ v \in Int
    BY AtStart, TrapsAssumption DEF FnReturns, Runs
<1>3. /\ cpu \in Cpus /\ mem \in [0..(UserTop - 1) -> Int]
      /\ call \in [sp : Int, bp : Int, p1 : Int, got : Int, ret : Int]
    BY Contexts DEF TrapsInv, TrapsTypeOK
<1>4. /\ cpu.sp = UserTop - 2 /\ cpu.bp = UserTop - 2 /\ cpu.cpl = USER /\ cpu.ds = USER
      /\ CallHeld(mem, call) /\ mem[call.sp - 3] = Running(RETURNED) /\ call.got = call.p1
      /\ mem[UserTop - 1] = Running(RET2KERN) /\ mem[UserTop - 2] = call.sp - 3
    BY <1>2 DEF InFn, AtUser
<1>5. cpu.bp + 1 = UserTop - 1 /\ cpu.bp + 2 = UserTop /\ UserTop \in Int /\ WorkTop <= UserTop - 2
    BY <1>4, Sizes
<1>6. mem' \in [0..(UserTop - 1) -> Int] /\ Untouched(mem', mem, UserTop - 2, UserTop)
    <2>1. mem' = Discard(mem, UserTop - 2, UserTop)
        BY <1>2, <1>4, <1>5, Zenon
    <2>2. UserTop - 2 \in Int
        BY <1>5
    <2> QED BY <1>3, <1>5, <2>1, <2>2, DiscardIs
<1>7. CallHeld(mem', call) /\ mem'[call.sp - 3] = Running(RETURNED)
    <2>1. UserTop - 2 \in Int /\ WorkTop <= UserTop - 2
        BY <1>5
    <2>2. CallHeld(mem, call) /\ mem[call.sp - 3] = Running(RETURNED)
        BY <1>4
    <2>3. Untouched(mem', mem, UserTop - 2, UserTop)
        BY <1>6
    <2> QED BY <2>1, <2>2, <2>3, CallStays
<1>8. /\ cpu' \in Cpus /\ cpu'.ip = Running(RET2KERN) /\ cpu'.cpl = USER /\ cpu'.ds = USER
      /\ cpu'.sp = UserTop /\ cpu'.bp = call.sp - 3 /\ cpu'.ax = v
    <2>1. /\ mem[cpu.bp] = call.sp - 3 /\ mem[cpu.bp + 1] = Running(RET2KERN)
          /\ call.sp - 3 \in Int /\ Running(RET2KERN) \in Int
        BY <1>3, <1>4, <1>5, Places
    <2> QED BY <1>1, <1>2, <1>3, <1>4, <1>5, <2>1 DEF Cpus
<1>9. /\ call' \in [sp : Int, bp : Int, p1 : Int, got : Int, ret : Int]
      /\ call'.sp = call.sp /\ call'.bp = call.bp /\ call'.p1 = call.p1 /\ call'.got = call.got
      /\ call'.ret = v
    BY <1>1, <1>2, <1>3
<1>10. InRet(cpu', mem', call')
    BY <1>4, <1>7, <1>8, <1>9 DEF InRet, AtUser, CallHeld
<1> QED BY <1>2, <1>6, <1>8, <1>9, <1>10, GoesOnAlone DEF Lowest

\* The stub goes back to the kernel.
LEMMA RetToKernelKeeps == ASSUME TrapsInv, RetToKernel PROVE TrapsInv'
<1>1. /\ mem' = Discard(mem, FrameTop(cpu) - Len(HardwareFrame(cpu)), FrameTop(cpu))
      /\ cpu' = [cpu EXCEPT !.cpl = KERN, !.if = 0, !.ip = mem[cpu.bp], !.sp = cpu.bp + 1]
      /\ UNCHANGED <<build, user, state, interrupted, call>>
    BY DEF RetToKernel
<1>2. interrupted = <<>> /\ InRet(cpu, mem, call)
    BY AtStart DEF RetToKernel, Runs
<1>3. /\ cpu \in Cpus /\ mem \in [0..(UserTop - 1) -> Int]
      /\ call \in [sp : Int, bp : Int, p1 : Int, got : Int, ret : Int]
    BY Contexts DEF TrapsInv, TrapsTypeOK
<1>4. /\ cpu.bp = call.sp - 3 /\ cpu.cpl = USER /\ cpu.ds = USER
      /\ CallHeld(mem, call) /\ mem[call.sp - 3] = Running(RETURNED)
      /\ call.got = call.p1 /\ cpu.ax = call.ret
    BY <1>2 DEF InRet, AtUser
<1>5. FrameTop(cpu) = TrapTop /\ Len(HardwareFrame(cpu)) = 5
    BY <1>3, <1>4, HardwareFrameIs DEF FrameTop
<1>6. mem' \in [0..(UserTop - 1) -> Int] /\ Untouched(mem', mem, TrapTop - 5, TrapTop)
    <2>1. TrapTop - 5 \in Int /\ TrapTop \in Int
        BY Sizes
    <2>2. mem' = Discard(mem, TrapTop - 5, TrapTop)
        BY <1>1, <1>5, Zenon
    <2> QED BY <1>3, <2>1, <2>2, DiscardIs
<1>7. CallHeld(mem', call)
    <2>1. TrapTop - 5 \in Int /\ WorkTop <= TrapTop - 5
        BY Sizes
    <2> QED BY <1>4, <1>6, <2>1, CallStays
<1>8. /\ cpu' \in Cpus /\ cpu'.ip = Running(RETURNED) /\ cpu'.cpl = KERN /\ cpu'.ds = USER
      /\ cpu'.sp = call.sp - 2 /\ cpu'.ax = call.ret
    <2>1. Running(RETURNED) \in Int /\ KERN \in Int /\ cpu.bp + 1 = call.sp - 2 /\ call.sp - 2 \in Int
        <3>1. Running(RETURNED) \in Int
            BY Places
        <3>2. KERN \in Int
            BY Sizes
        <3>3. cpu.bp + 1 = call.sp - 2 /\ call.sp - 2 \in Int
            BY <1>3, <1>4
        <3> QED BY <3>1, <3>2, <3>3
    <2>2. mem[cpu.bp] = Running(RETURNED)
        BY <1>4
    <2>3. cpu' = [cpu EXCEPT !.cpl = KERN, !.if = 0, !.ip = Running(RETURNED), !.sp = call.sp - 2]
        BY <1>1, <2>1, <2>2, Zenon
    <2>4. cpu' \in Cpus
        <3> DEFINE k == KERN
                   there == Running(RETURNED)
                   top == call.sp - 2
                   zero == 0
        <3>1. k \in Int /\ zero \in Int /\ there \in Int /\ top \in Int /\ cpu \in Cpus
              /\ cpu' = [cpu EXCEPT !.cpl = k, !.if = zero, !.ip = there, !.sp = top]
            BY <1>3, <2>1, <2>3
        <3> HIDE DEF k, there, top, zero
        <3> QED BY <3>1 DEF Cpus
    <2>5. /\ cpu'.ip = Running(RETURNED) /\ cpu'.cpl = KERN /\ cpu'.ds = cpu.ds
          /\ cpu'.sp = call.sp - 2 /\ cpu'.ax = cpu.ax
        BY <1>3, <2>3 DEF Cpus
    <2> QED BY <1>4, <2>4, <2>5
<1>9. IsBack(cpu', mem', call')
    BY <1>1, <1>4, <1>7, <1>8 DEF IsBack
<1> QED BY <1>1, <1>2, <1>3, <1>6, <1>8, <1>9, GoesOnAlone

\* It returns to the test, which finds its stack.
LEMMA ReturnsToTest ==
    ASSUME TrapsInv, ExecUserReturns
    PROVE  /\ interrupted = <<>> /\ IsBack(cpu, mem, call)
           /\ cpu' \in Cpus /\ cpu'.ip = Running(TEST) /\ cpu'.sp = call.sp /\ cpu'.bp = call.bp
           /\ cpu'.cpl = KERN /\ cpu'.ds = USER /\ cpu'.ax = call.ret
<1>1. cpu' = [cpu EXCEPT !.bp = mem[cpu.sp], !.ip = mem[cpu.sp + 1], !.sp = cpu.sp + 2]
    BY DEF ExecUserReturns
<1>2. interrupted = <<>> /\ IsBack(cpu, mem, call)
    BY AtStart DEF ExecUserReturns, Runs
<1>3. cpu \in Cpus /\ call \in [sp : Int, bp : Int, p1 : Int, got : Int, ret : Int]
    BY Contexts DEF TrapsInv, TrapsTypeOK
<1>4. /\ cpu.cpl = KERN /\ cpu.ds = USER /\ cpu.sp = call.sp - 2 /\ cpu.ax = call.ret
      /\ call.bp = WorkTop /\ mem[call.sp - 1] = Running(TEST) /\ mem[call.sp - 2] = WorkTop
    BY <1>2 DEF IsBack, CallHeld
<1>5. /\ cpu.sp + 1 = call.sp - 1 /\ cpu.sp + 2 = call.sp /\ call.sp \in Int
      /\ Running(TEST) \in Int /\ WorkTop \in Int
    BY <1>3, <1>4, Places, Sizes
<1>6. mem[cpu.sp] = call.bp /\ mem[cpu.sp + 1] = Running(TEST) /\ call.bp \in Int
    BY <1>4, <1>5
<1> QED BY <1>1, <1>2, <1>3, <1>4, <1>5, <1>6 DEF Cpus

\* And exec_user_param() returns.
LEMMA ExecUserReturnsKeeps == ASSUME TrapsInv, ExecUserReturns PROVE TrapsInv'
<1>1. /\ mem' = Discard(mem, 0, cpu.sp + 2) /\ call' = NoCall
      /\ UNCHANGED <<build, user, state, interrupted>>
    BY DEF ExecUserReturns
<1>2. mem' \in [0..(UserTop - 1) -> Int]
    <2>1. cpu.sp + 2 \in Int /\ mem \in [0..(UserTop - 1) -> Int]
        BY Contexts DEF Cpus
    <2> QED BY <1>1, <2>1, DiscardIs
<1>3. call' \in [sp : Int, bp : Int, p1 : Int, got : Int, ret : Int]
    BY <1>1 DEF NoCall
<1>4. InTest(cpu')
    BY ReturnsToTest DEF InTest, IsBack, CallHeld, Within
<1> QED BY <1>1, <1>2, <1>3, <1>4, ReturnsToTest, GoesOnAlone DEF Lowest

-----------------------------------------------------------------------------
(* Going back to the context that was interrupted.                         *)

\* Where the frames are.
LEMMA FrameIn ==
    ASSUME TrapsInv, NEW k \in DOMAIN interrupted,
           NEW e, e = interrupted[k].cpu, NEW r, r = interrupted[k].regs
    PROVE  /\ r \in Int /\ 2 <= r /\ FrameSize(e) \in {12, 14} /\ FrameTop(e) = r + FrameSize(e)
           /\ FrameTop(e) <= UserTop
           /\ interrupted[1].cpu.cpl = USER => r - 2 >= WorkTop /\ FrameTop(e) <= TrapTop
           /\ \A j \in 1..(k - 1) : FrameTop(e) < interrupted[j].regs - 1
<1>1. /\ k \in 1..Len(interrupted) /\ Len(interrupted) \in Nat /\ r \in Int /\ e \in Cpus
    BY Contexts
<1>2. /\ FrameAt(e, r) /\ r - 2 >= Floor(interrupted[1].cpu, k)
      /\ FrameTop(e) <= Ceiling(interrupted[1].cpu)
      /\ \A j \in 1..(k - 1) : FrameTop(e) < interrupted[j].regs - 1
    BY DEF TrapsInv, FramesInv
<1>3. FrameTop(e) = r + FrameSize(e) /\ FrameSize(e) \in {12, 14}
    BY <1>2 DEF FrameAt, FrameSize
<1>4. k <= MaxNest /\ k \in Int /\ 1 <= k
    BY <1>1, Sizes DEF TrapsInv, TrapsTypeOK
<1>5. /\ Ceiling(interrupted[1].cpu) \in {WorkTop, TrapTop}
      /\ interrupted[1].cpu.cpl = USER => Ceiling(interrupted[1].cpu) = TrapTop
    BY DEF Ceiling
<1> DEFINE high == Ceiling(interrupted[1].cpu)
<1>6. Floor(interrupted[1].cpu, k) = high - 2 - 16 * k
    BY DEF Floor
<1> HIDE DEF high
<1>7. high \in {WorkTop, TrapTop} /\ (interrupted[1].cpu.cpl = USER => high = TrapTop)
    BY <1>5 DEF high
<1>8. 16 * k <= 16 * MaxNest /\ 16 * k \in Int
    BY <1>4, Sizes
<1>9. high \in Int /\ high - 2 - 16 * k >= high - PageWords + 8
    BY <1>7, <1>8, Sizes
<1>10. r - 2 >= high - PageWords + 8
    <2> DEFINE low == Floor(interrupted[1].cpu, k)
               below == 16 * k
    <2>1. /\ r \in Int /\ high \in Int /\ PageWords \in Int /\ below \in Int /\ low \in Int
          /\ r - 2 >= low /\ low = high - 2 - below /\ high - 2 - below >= high - PageWords + 8
        BY <1>1, <1>2, <1>6, <1>8, <1>9, Sizes
    <2> HIDE DEF low, below
    <2> QED BY <2>1
<1>11. FrameTop(e) <= high
    BY <1>2 DEF high
<1>12. FrameTop(e) \in Int
    BY <1>1, <1>3
<1>13. 2 <= r /\ FrameTop(e) <= UserTop
    <2>1. PageWords \in Int /\ PageWords <= high /\ high <= UserTop /\ UserTop \in Int
        BY <1>7, Sizes
    <2>2. r \in Int /\ high \in Int /\ r - 2 >= high - PageWords + 8
        BY <1>1, <1>9, <1>10
    <2>3. 2 <= r
        BY <2>1, <2>2
    <2>4. FrameTop(e) <= UserTop
        BY <1>9, <1>11, <1>12, <2>1
    <2> QED BY <2>3, <2>4
<1>14. interrupted[1].cpu.cpl = USER => r - 2 >= WorkTop /\ FrameTop(e) <= TrapTop
    BY <1>1, <1>7, <1>10, <1>11, <1>12, Sizes
<1> QED BY <1>1, <1>2, <1>3, <1>13, <1>14

\* Two contexts with the same registers.
LEMMA SameRegisters ==
    ASSUME NEW c \in Cpus, NEW d \in Cpus,
           c.ip = d.ip, c.ax = d.ax, c.cx = d.cx, c.dx = d.dx, c.si = d.si, c.di = d.di,
           c.bp = d.bp, c.sp = d.sp, c.cpl = d.cpl, c.ds = d.ds, c.if = d.if
    PROVE  c = d
BY DEF Cpus

\* The context that the handler which runs was called for.
LEMMA Handled ==
    ASSUME TrapsInv, cpu.ip \in HandlerIps
    PROVE  /\ Len(interrupted) \in DOMAIN interrupted /\ Len(interrupted) \in Nat
           /\ DOMAIN interrupted = 1..Len(interrupted) /\ interrupted # <<>>
           /\ regs = interrupted[Len(interrupted)].regs
           /\ Handler(cpu, regs)
           /\ interrupted[Len(interrupted)].cpu \in Cpus
           /\ FrameAt(interrupted[Len(interrupted)].cpu, regs)
           /\ FrameHolds(interrupted[Len(interrupted)].cpu, regs, mem)
<1> DEFINE n == Len(interrupted)
<1>1. interrupted # <<>> /\ n \in DOMAIN interrupted /\ n \in Nat /\ DOMAIN interrupted = 1..n
    BY AtStart, Contexts
<1>2. interrupted[n].cpu \in Cpus /\ interrupted[n].regs \in Int
    BY <1>1, Contexts
<1>3. Handler(cpu, interrupted[n].regs)
    BY <1>1 DEF TrapsInv, HandlersInv
<1>4. regs = interrupted[n].regs
    <2>1. cpu.bp = interrupted[n].regs - 2
        BY <1>3 DEF Handler
    <2> QED BY <1>2, <2>1 DEF regs
<1>5. FrameAt(interrupted[n].cpu, interrupted[n].regs) /\ FrameHolds(interrupted[n].cpu, interrupted[n].regs, mem)
    BY <1>1 DEF TrapsInv, FramesInv
<1> QED BY <1>1, <1>2, <1>3, <1>4, <1>5

\* The handler returns to the context.
LEMMA ResumesContext ==
    ASSUME TrapsInv, Resume
    PROVE  /\ interrupted # <<>> /\ cpu.ip \in HandlerIps
           /\ cpu' = interrupted[Len(interrupted)].cpu
<1> DEFINE n == Len(interrupted)
           e == interrupted[n].cpu
           c == RESTORE_ALL(regs)
           d == IF CONFIG_64BIT THEN c ELSE [c EXCEPT !.ds = RegsField("ds")]
           s == regs + offsetof("ip")
<1>1. cpu.ip \in HandlerIps
    BY Places DEF Resume
<1>2. /\ n \in DOMAIN interrupted /\ interrupted # <<>> /\ regs = interrupted[n].regs
      /\ Handler(cpu, regs) /\ e \in Cpus /\ FrameAt(e, regs) /\ FrameHolds(e, regs, mem)
    BY <1>1, Handled
<1>3. cpu \in Cpus /\ regs \in Int
    BY <1>2, Contexts
<1>4. /\ e.cpl \in {KERN, USER} /\ e.ds \in {KERN, USER} /\ e.cpl <= e.ds
      /\ CONFIG_64BIT => e.ds = USER
    BY <1>2, ContextIs
<1>5. cpu' = Iret(d, s)
    BY DEF Resume
<1> HIDE DEF e, n
<1>6. /\ c \in Cpus /\ c.bp = e.bp /\ c.ax = e.ax /\ c.cx = e.cx /\ c.dx = e.dx
      /\ c.si = e.si /\ c.di = e.di /\ c.cpl = KERN /\ c.ds = HandlerDs
    <2>1. /\ mem[regs] = e.bp /\ mem[regs + 1] = e.ax /\ mem[regs + 2] = e.cx
          /\ mem[regs + 3] = e.dx /\ mem[regs + 4] = e.si /\ mem[regs + 5] = e.di
        BY <1>2 DEF FrameHolds
    <2>2. c = [cpu EXCEPT !.bp = e.bp, !.ax = e.ax, !.cx = e.cx,
                          !.dx = e.dx, !.si = e.si, !.di = e.di]
        BY <2>1 DEF RESTORE_ALL
    <2>3. /\ e.bp \in Int /\ e.ax \in Int /\ e.cx \in Int /\ e.dx \in Int /\ e.si \in Int
          /\ e.di \in Int
        BY <1>2 DEF Cpus
    <2>4. cpu.cpl = KERN /\ cpu.ds = HandlerDs
        BY <1>2 DEF Handler
    <2> HIDE DEF c
    <2>5. c \in Cpus
        BY <1>3, <2>2, <2>3 DEF Cpus
    <2> QED BY <1>3, <2>2, <2>4, <2>5 DEF Cpus
<1> HIDE DEF c
<1>7. /\ d \in Cpus /\ d.bp = e.bp /\ d.ax = e.ax /\ d.cx = e.cx /\ d.dx = e.dx
      /\ d.si = e.si /\ d.di = e.di /\ d.cpl = KERN /\ d.ds = e.ds
    <2>1. CASE CONFIG_64BIT
        BY <1>4, <1>6, <2>1 DEF HandlerDs
    <2>2. CASE ~CONFIG_64BIT
        <3>1. RegsField("ds") = e.ds
            BY <1>2, <2>2, OffsetsAre DEF RegsField, FrameHolds
        <3>2. d = [c EXCEPT !.ds = e.ds] /\ e.ds \in Int
            BY <1>2, <2>2, <3>1 DEF Cpus
        <3> HIDE DEF d
        <3> QED BY <1>6, <3>2 DEF Cpus
    <2> QED BY <2>1, <2>2
<1>8. mem[s] = e.ip /\ mem[s + 1] = e.cpl /\ mem[s + 2] = e.if
    <2>1. CASE CONFIG_64BIT
        <3>1. s = regs + 7 /\ s + 1 = regs + 8 /\ s + 2 = regs + 9
            BY <1>3, <2>1, OffsetsAre
        <3> QED BY <1>2, <2>1, <3>1 DEF FrameHolds
    <2>2. CASE ~CONFIG_64BIT
        <3>1. s = regs + 9 /\ s + 1 = regs + 10 /\ s + 2 = regs + 11
            BY <1>3, <2>2, OffsetsAre
        <3> QED BY <1>2, <2>2, <3>1 DEF FrameHolds
    <2> QED BY <2>1, <2>2
<1>9. (IF CONFIG_64BIT \/ mem[s + 1] > d.cpl THEN mem[s + 3] ELSE s + 3) = e.sp
    <2>1. CASE CONFIG_64BIT
        <3>1. s + 3 = regs + 10
            BY <1>3, <2>1, OffsetsAre
        <3> QED BY <1>2, <2>1, <3>1 DEF FrameHolds
    <2>2. CASE ~CONFIG_64BIT
        <3>1. s + 3 = regs + 12
            BY <1>3, <2>2, OffsetsAre
        <3>2. CASE e.cpl = USER
            <4>1. mem[regs + 12] = e.sp
                BY <1>2, <2>2, <3>2 DEF FrameHolds
            <4>2. e.cpl > KERN
                BY <3>2, Sizes
            <4> QED BY <1>7, <1>8, <2>2, <3>1, <4>1, <4>2
        <3>3. CASE e.cpl # USER
            <4>1. e.cpl = KERN /\ ~(KERN > KERN)
                BY <1>4, <3>3, Sizes
            <4>2. regs + 12 = e.sp
                BY <1>2, <2>2, <3>3 DEF FrameAt, FrameSize, FrameTop
            <4> QED BY <1>7, <1>8, <2>2, <3>1, <4>1, <4>2
        <3> QED BY <3>2, <3>3
    <2> QED BY <2>1, <2>2
<1>10. (IF mem[s + 1] > d.ds THEN 0 ELSE d.ds) = e.ds
    <2>1. ~(e.cpl > e.ds)
        BY <1>2, <1>4 DEF Cpus
    <2> QED BY <1>7, <1>8, <2>1
<1> HIDE DEF d, s
<1>11. cpu' = [d EXCEPT !.ip = e.ip, !.cpl = e.cpl, !.if = e.if, !.sp = e.sp, !.ds = e.ds]
    BY <1>5, <1>8, <1>9, <1>10, Zenon DEF Iret
<1>12. cpu' = e
    <2>1. e.ip \in Int /\ e.cpl \in Int /\ e.if \in Int /\ e.sp \in Int /\ e.ds \in Int
        BY <1>2 DEF Cpus
    <2>2. /\ cpu' \in Cpus
          /\ cpu'.ip = e.ip /\ cpu'.cpl = e.cpl /\ cpu'.if = e.if /\ cpu'.sp = e.sp /\ cpu'.ds = e.ds
        BY <1>7, <1>11, <2>1 DEF Cpus
    <2>3. /\ cpu'.bp = e.bp /\ cpu'.ax = e.ax /\ cpu'.cx = e.cx /\ cpu'.dx = e.dx
          /\ cpu'.si = e.si /\ cpu'.di = e.di
        BY <1>7, <1>11 DEF Cpus
    <2> QED BY <1>2, <2>2, <2>3, SameRegisters
<1> QED BY <1>1, <1>2, <1>12 DEF e, n

\* What the invariant says of the frame of the k-th context of t.
FrameOK(t, m, k) ==
    /\ FrameAt(t[k].cpu, t[k].regs) /\ FrameHolds(t[k].cpu, t[k].regs, m)
    /\ t[k].regs - 2 >= Floor(t[1].cpu, k) /\ FrameTop(t[k].cpu) <= Ceiling(t[1].cpu)
    /\ \A j \in 1..(k - 1) : FrameTop(t[k].cpu) < t[j].regs - 1

LEMMA FramesAfter ==
    ASSUME UNCHANGED build, \A k \in DOMAIN interrupted' : FrameOK(interrupted', mem', k)
    PROVE  FramesInv'
<1>1. ASSUME NEW k \in DOMAIN interrupted'
      PROVE  /\ FrameAt(interrupted[k].cpu, interrupted[k].regs)'
             /\ FrameHolds(interrupted[k].cpu, interrupted[k].regs, mem)'
             /\ (interrupted[k].regs - 2 >= Floor(interrupted[1].cpu, k))'
             /\ (FrameTop(interrupted[k].cpu) <= Ceiling(interrupted[1].cpu))'
             /\ \A j \in 1..(k - 1) : (FrameTop(interrupted[k].cpu) < interrupted[j].regs - 1)'
    <2>1. FrameOK(interrupted', mem', k)
        OBVIOUS
    <2>2. /\ FrameAt(interrupted[k].cpu, interrupted[k].regs)'
          /\ FrameHolds(interrupted[k].cpu, interrupted[k].regs, mem)'
        BY <2>1, SameBuild DEF FrameOK
    <2>3. /\ (interrupted[k].regs - 2 >= Floor(interrupted[1].cpu, k))'
          /\ (FrameTop(interrupted[k].cpu) <= Ceiling(interrupted[1].cpu))'
        BY <2>1, SameBuild DEF FrameOK
    <2>4. \A j \in 1..(k - 1) : (FrameTop(interrupted[k].cpu) < interrupted[j].regs - 1)'
        BY <2>1, SameBuild DEF FrameOK
    <2> QED BY <2>2, <2>3, <2>4
<1> QED BY <1>1 DEF FramesInv

\* A frame above which nothing is written to is still right.
LEMMA FrameKeeps ==
    ASSUME TrapsInv, NEW k \in DOMAIN interrupted, NEW t, \A j \in 1..k : t[j] = interrupted[j],
           NEW p, NEW low \in Int, NEW high \in Int, Untouched(p, mem, low, high),
           high <= interrupted[k].regs
    PROVE  FrameOK(t, p, k)
<1> DEFINE e == interrupted[k].cpu
           r == interrupted[k].regs
<1>1. k \in 1..k /\ 1 \in 1..k /\ \A j \in 1..(k - 1) : j \in 1..k
    BY Contexts
<1>2. t[k] = interrupted[k] /\ t[1] = interrupted[1] /\ \A j \in 1..(k - 1) : t[j] = interrupted[j]
    BY <1>1
<1>3. FrameOK(interrupted, mem, k)
    BY DEF TrapsInv, FramesInv, FrameOK
<1>4. FrameHolds(e, r, p)
    <2>1. e \in Cpus /\ r \in Int
        BY Contexts
    <2>2. /\ 2 <= r /\ FrameSize(e) \in {12, 14} /\ r + FrameSize(e) <= UserTop
        BY FrameIn
    <2>3. FrameHolds(e, r, mem) /\ high <= r
        BY <1>3 DEF FrameOK
    <2> HIDE DEF e, r
    <2>4. ASSUME NEW a \in Int, r <= a, a < r + FrameSize(e) PROVE p[a] = mem[a]
        <3>1. a \in 0..(UserTop - 1) /\ high <= a
            BY <2>1, <2>2, <2>3, <2>4, Sizes
        <3> QED BY <3>1 DEF Untouched
    <2> QED BY <2>1, <2>3, <2>4, FrameStays
<1> QED BY <1>2, <1>3, <1>4 DEF FrameOK

\* A sequence without its last element.
LEMMA Shorter ==
    ASSUME NEW X, NEW t \in Seq(X), t # <<>>
    PROVE  LET u == SubSeq(t, 1, Len(t) - 1)
           IN  u \in Seq(X) /\ Len(u) = Len(t) - 1 /\ \A k \in 1..(Len(t) - 1) : u[k] = t[k]
<1>1. Len(t) \in Nat /\ Len(t) # 0 /\ \A i \in 1..(Len(t) - 1) : t[i] \in X
    OBVIOUS
<1> DEFINE m == Len(t) - 1
<1>2. m \in Int /\ 1 \in Int /\ 0 <= m /\ \A i \in 1..m : t[i] \in X
    BY <1>1
<1> HIDE DEF m
<1>3. /\ SubSeq(t, 1, m) \in Seq(X)
      /\ Len(SubSeq(t, 1, m)) = IF 1 <= m THEN m - 1 + 1 ELSE 0
      /\ \A i \in 1..(m - 1 + 1) : SubSeq(t, 1, m)[i] = t[1 + i - 1]
    BY <1>2, SubSeqProperties
<1>4. Len(SubSeq(t, 1, m)) = m /\ m - 1 + 1 = m
    BY <1>2, <1>3
<1>5. \A i \in 1..m : SubSeq(t, 1, m)[i] = t[i]
    BY <1>3, <1>4
<1> QED BY <1>3, <1>4, <1>5 DEF m

\* The return from a handler keeps the invariant.
LEMMA ResumeKeeps == ASSUME TrapsInv, Resume PROVE TrapsInv'
<1> DEFINE n == Len(interrupted)
           e == interrupted[n].cpu
           r == interrupted[n].regs
           first == interrupted[1].cpu
           high == IF e.cpl = USER THEN TrapTop ELSE e.sp
<1>1. interrupted # <<>> /\ cpu.ip \in HandlerIps /\ cpu' = e
    BY ResumesContext
<1>2. /\ n \in DOMAIN interrupted /\ n \in Nat /\ DOMAIN interrupted = 1..n /\ n \in 1..n
      /\ regs = r /\ Handler(cpu, r) /\ e \in Cpus /\ r \in Int
    BY <1>1, Handled, Contexts
<1>3. /\ mem' = Discard(mem, cpu.sp, high)
      /\ interrupted' = SubSeq(interrupted, 1, n - 1)
      /\ UNCHANGED <<build, user, state, call>>
    BY <1>1 DEF Resume
<1>4. /\ 2 <= r /\ FrameSize(e) \in {12, 14} /\ FrameTop(e) = r + FrameSize(e)
      /\ FrameTop(e) <= UserTop
      /\ first.cpl = USER => r - 2 >= WorkTop /\ FrameTop(e) <= TrapTop
      /\ \A j \in 1..(n - 1) : FrameTop(e) < interrupted[j].regs - 1
    BY <1>2, FrameIn
<1>5. high \in Int
    BY <1>2, Sizes DEF Cpus
<1>6. mem' \in [0..(UserTop - 1) -> Int] /\ Untouched(mem', mem, r - 2, high)
    <2>1. cpu.sp = r - 2 /\ r - 2 \in Int
        BY <1>2 DEF Handler
    <2>2. mem' = Discard(mem, r - 2, high)
        BY <1>3, <2>1
    <2>3. mem \in [0..(UserTop - 1) -> Int]
        BY Contexts
    <2> HIDE DEF high, r
    <2> QED BY <1>5, <2>1, <2>2, <2>3, DiscardIs
<1>7. /\ interrupted' \in Seq([cpu : Cpus, regs : Int]) /\ Len(interrupted') = n - 1
      /\ DOMAIN interrupted' = 1..(n - 1)
      /\ \A k \in 1..(n - 1) : interrupted'[k] = interrupted[k] /\ k \in DOMAIN interrupted
      /\ interrupted' = <<>> <=> n = 1
    <2>1. interrupted \in Seq([cpu : Cpus, regs : Int]) /\ n \in Nat /\ 1 <= n
        BY <1>2, Contexts
    <2>2. /\ interrupted' \in Seq([cpu : Cpus, regs : Int]) /\ Len(interrupted') = n - 1
          /\ \A k \in 1..(n - 1) : interrupted'[k] = interrupted[k]
        BY <1>1, <1>3, <2>1, Shorter
    <2> QED BY <1>2, <2>1, <2>2
<1>8. TrapsTypeOK'
    <2>1. n <= MaxNest /\ MaxNest \in Nat
        BY Sizes DEF TrapsInv, TrapsTypeOK
    <2>2. Len(interrupted') <= MaxNest
        BY <1>2, <1>7, <2>1
    <2>3. cpu' \in Cpus
        BY <1>1, <1>2
    <2>4. /\ build \in Builds /\ user \subseteq Sections /\ state \in {"run", "panic"}
          /\ call \in [sp : Int, bp : Int, p1 : Int, got : Int, ret : Int]
        BY DEF TrapsInv, TrapsTypeOK
    <2> QED BY <1>3, <1>6, <1>7, <2>2, <2>3, <2>4 DEF TrapsTypeOK, UserTop
<1>9. n # 1 => /\ n - 1 \in 1..(n - 1) /\ 1 \in 1..(n - 1)
               /\ Handler(e, interrupted[n - 1].regs) /\ e.ip \in HandlerCode
               /\ high = interrupted[n - 1].regs - 2
    <2>1. n # 1 => Handler(e, interrupted[n - 1].regs) /\ e.ip \in HandlerCode
        BY <1>2, ContextIs
    <2>2. n # 1 => high = interrupted[n - 1].regs - 2
        BY <2>1, Sizes DEF Handler
    <2>3. n # 1 => n - 1 \in 1..(n - 1) /\ 1 \in 1..(n - 1)
        BY <1>2
    <2> QED BY <2>1, <2>2, <2>3
<1>10. LowestInv'
    <2>1. Lowest(first, mem, call)
        BY <1>1 DEF TrapsInv, LowestInv
    <2>2. first.cpl = USER => \A a \in 0..(UserTop - 1) : a < WorkTop \/ TrapTop <= a => mem'[a] = mem[a]
        <3>1. first.cpl = USER => high <= TrapTop
            <4>1. CASE n = 1
                <5>1. first.cpl = USER => high = TrapTop
                    BY <4>1
                <5> QED BY <5>1, Sizes
            <4>2. CASE n # 1
                <5>1. n - 1 \in DOMAIN interrupted
                    BY <1>7, <1>9, <4>2
                <5>2. /\ interrupted[n - 1].regs \in Int
                      /\ FrameSize(interrupted[n - 1].cpu) \in {12, 14}
                      /\ FrameTop(interrupted[n - 1].cpu) = interrupted[n - 1].regs + FrameSize(interrupted[n - 1].cpu)
                      /\ first.cpl = USER => FrameTop(interrupted[n - 1].cpu) <= TrapTop
                    BY <5>1, FrameIn
                <5> QED BY <1>9, <4>2, <5>2, Sizes
            <4> QED BY <4>1, <4>2
        <3>2. first.cpl = USER => WorkTop <= r - 2
            BY <1>4
        <3> HIDE DEF high, r, first
        <3> QED BY <1>2, <1>5, <1>6, <3>1, <3>2, Sizes DEF Untouched
    <2>3. Lowest(first, mem', call)
        BY <2>1, <2>2, LowestStays
    <2>4. CASE n = 1
        <3>1. interrupted' = <<>> /\ cpu' = first
            BY <1>1, <1>7, <2>4
        <3> HIDE DEF first
        <3> QED BY <1>3, <2>3, <3>1, SameBuild DEF LowestInv
    <2>5. CASE n # 1
        <3>1. interrupted' # <<>> /\ interrupted'[1].cpu = first
            BY <1>7, <1>9, <2>5
        <3> HIDE DEF first
        <3> QED BY <1>3, <2>3, <3>1, SameBuild DEF LowestInv
    <2> QED BY <2>4, <2>5
<1>11. HandlersInv'
    <2>1. ASSUME NEW k \in 1..(n - 2)
          PROVE  Handler(interrupted'[k + 1].cpu, interrupted'[k].regs) /\ interrupted'[k + 1].cpu.ip \in HandlerCode
        <3>1. k \in 1..(n - 1) /\ k + 1 \in 1..(n - 1)
            BY <1>2
        <3>2. interrupted'[k] = interrupted[k] /\ interrupted'[k + 1] = interrupted[k + 1]
            BY <1>7, <3>1
        <3> QED BY <3>1, <3>2 DEF TrapsInv, HandlersInv
    <2>2. interrupted' # <<>> =>
             Handler(cpu', interrupted'[Len(interrupted')].regs) /\ cpu'.ip \in HandlerIps
        BY <1>1, <1>7, <1>9 DEF HandlerIps
    <2>3. Len(interrupted') - 1 = n - 2 /\ UNCHANGED build
        BY <1>2, <1>3, <1>7
    <2> HIDE DEF n, e
    <2>4. ASSUME NEW k \in 1..(Len(interrupted') - 1)
          PROVE  Handler(interrupted[k + 1].cpu, interrupted[k].regs)'
                 /\ interrupted'[k + 1].cpu.ip \in HandlerCode
        BY <2>1, <2>3, SameBuild
    <2> QED BY <2>2, <2>3, <2>4, SameBuild DEF HandlersInv
<1>12. FramesInv'
    <2>1. ASSUME NEW k \in 1..(n - 1) PROVE FrameOK(interrupted', mem', k)
        <3>1. k \in DOMAIN interrupted /\ n # 1 /\ \A j \in 1..k : interrupted'[j] = interrupted[j]
            BY <1>2, <1>7
        <3>2. high <= interrupted[k].regs
            <4>1. n - 1 \in DOMAIN interrupted
                BY <1>7, <1>9, <3>1
            <4>2. /\ interrupted[n - 1].regs \in Int
                  /\ FrameSize(interrupted[n - 1].cpu) \in {12, 14}
                  /\ FrameTop(interrupted[n - 1].cpu) = interrupted[n - 1].regs + FrameSize(interrupted[n - 1].cpu)
                  /\ \A j \in 1..(n - 1 - 1) : FrameTop(interrupted[n - 1].cpu) < interrupted[j].regs - 1
                BY <4>1, FrameIn
            <4>3. interrupted[k].regs \in Int
                BY <3>1, Contexts
            <4>4. high = interrupted[n - 1].regs - 2
                BY <1>9, <3>1
            <4>5. CASE k = n - 1
                BY <4>2, <4>4, <4>5
            <4>6. CASE k # n - 1
                <5>1. k \in 1..(n - 1 - 1)
                    BY <1>2, <4>6
                <5>2. FrameTop(interrupted[n - 1].cpu) < interrupted[k].regs - 1
                    BY <4>2, <5>1
                <5> HIDE DEF high
                <5> QED BY <4>2, <4>3, <4>4, <5>2
            <4> QED BY <4>5, <4>6
        <3>3. r - 2 \in Int
            BY <1>2
        <3> HIDE DEF high, r
        <3> QED BY <1>5, <1>6, <3>1, <3>2, <3>3, FrameKeeps
    <2> QED BY <1>3, <1>7, <2>1, FramesAfter
<1> QED BY <1>8, <1>10, <1>11, <1>12 DEF TrapsInv

-----------------------------------------------------------------------------
(* What handlers set.                                                      *)

\* What handlers set in the context that they are to resume.
Settable == {"ip", "ax", "cx", "dx", "di"}

\* u sets some of them, and always the address.
Setting(u) == DOMAIN u \subseteq Settable /\ "ip" \in DOMAIN u /\ \A f \in DOMAIN u : u[f] \in Int

\* The registers of the context e then.
WithSet(e, u) == [f \in DOMAIN e |-> IF f \in DOMAIN u THEN u[f] ELSE e[f]]

\* The context with it.
LEMMA ContextSet ==
    ASSUME NEW e \in Cpus, NEW u, Setting(u), NEW d, d = WithSet(e, u)
    PROVE  /\ d \in Cpus
           /\ d.ip = u["ip"]
           /\ d.ax = IF "ax" \in DOMAIN u THEN u["ax"] ELSE e.ax
           /\ d.cx = IF "cx" \in DOMAIN u THEN u["cx"] ELSE e.cx
           /\ d.dx = IF "dx" \in DOMAIN u THEN u["dx"] ELSE e.dx
           /\ d.di = IF "di" \in DOMAIN u THEN u["di"] ELSE e.di
           /\ d.si = e.si /\ d.bp = e.bp /\ d.sp = e.sp /\ d.cpl = e.cpl /\ d.ds = e.ds /\ d.if = e.if
<1>1. DOMAIN e = {"ip", "ax", "cx", "dx", "si", "di", "bp", "sp", "cpl", "ds", "if"}
    BY DEF Cpus
<1>2. d = [f \in {"ip", "ax", "cx", "dx", "si", "di", "bp", "sp", "cpl", "ds", "if"} |->
              IF f \in DOMAIN u THEN u[f] ELSE e[f]]
    BY <1>1 DEF WithSet
<1>3. "si" \notin DOMAIN u /\ "bp" \notin DOMAIN u /\ "sp" \notin DOMAIN u /\ "cpl" \notin DOMAIN u
      /\ "ds" \notin DOMAIN u /\ "if" \notin DOMAIN u
    BY DEF Setting, Settable
<1>4. /\ d.ip = u["ip"]
      /\ d.ax = IF "ax" \in DOMAIN u THEN u["ax"] ELSE e.ax
      /\ d.cx = IF "cx" \in DOMAIN u THEN u["cx"] ELSE e.cx
      /\ d.dx = IF "dx" \in DOMAIN u THEN u["dx"] ELSE e.dx
      /\ d.di = IF "di" \in DOMAIN u THEN u["di"] ELSE e.di
      /\ d.si = e.si /\ d.bp = e.bp /\ d.sp = e.sp /\ d.cpl = e.cpl /\ d.ds = e.ds /\ d.if = e.if
    BY <1>2, <1>3 DEF Setting
<1>5. d \in Cpus
    <2>1. /\ d.ip \in Int /\ d.ax \in Int /\ d.cx \in Int /\ d.dx \in Int /\ d.di \in Int
          /\ d.si \in Int /\ d.bp \in Int /\ d.sp \in Int /\ d.cpl \in Int /\ d.ds \in Int
          /\ d.if \in Int
        BY <1>4 DEF Setting, Cpus
    <2> QED BY <1>2, <2>1 DEF Cpus
<1> QED BY <1>4, <1>5

\* The fields and their places belong together.
LEMMA FieldsAndOffsets ==
    /\ \A i \in DOMAIN cpu_regs : offsetof(cpu_regs[i]) = i - 1
    /\ \A g \in Settable : offsetof(g) \in 0..9 /\ cpu_regs[offsetof(g) + 1] = g
    /\ 1..12 \subseteq DOMAIN cpu_regs /\ (~CONFIG_64BIT => 1..14 \subseteq DOMAIN cpu_regs)
<1>1. CASE CONFIG_64BIT
    <2>1. \A i \in DOMAIN cpu_regs : offsetof(cpu_regs[i]) = i - 1
        <3>1. ASSUME NEW i \in DOMAIN cpu_regs PROVE offsetof(cpu_regs[i]) = i - 1
            <4>1. \A j \in DOMAIN cpu_regs : cpu_regs[j] = cpu_regs[i] => j = i
                BY <1>1, FieldsAre
            <4> QED BY <4>1 DEF offsetof
        <3> QED BY <3>1
    <2>2. \A g \in Settable : offsetof(g) \in 0..9 /\ cpu_regs[offsetof(g) + 1] = g
        BY <1>1, FieldsAre, OffsetsAre DEF Settable
    <2> QED BY <1>1, <2>1, <2>2, FieldsAre
<1>2. CASE ~CONFIG_64BIT
    <2>1. \A i \in DOMAIN cpu_regs : offsetof(cpu_regs[i]) = i - 1
        <3>1. ASSUME NEW i \in DOMAIN cpu_regs PROVE offsetof(cpu_regs[i]) = i - 1
            <4>1. \A j \in DOMAIN cpu_regs : cpu_regs[j] = cpu_regs[i] => j = i
                BY <1>2, FieldsAre
            <4> QED BY <4>1 DEF offsetof
        <3> QED BY <3>1
    <2>2. \A g \in Settable : offsetof(g) \in 0..9 /\ cpu_regs[offsetof(g) + 1] = g
        BY <1>2, FieldsAre, OffsetsAre DEF Settable
    <2> QED BY <1>2, <2>1, <2>2, FieldsAre
<1> QED BY <1>1, <1>2

\* The memory with it.
MemSet(m, at, u) ==
    [a \in DOMAIN m |->
        IF \E f \in DOMAIN u : a = at + offsetof(f) THEN u[cpu_regs[a - at + 1]] ELSE m[a]]

LEMMA FrameSet ==
    ASSUME NEW e \in Cpus, NEW u, Setting(u), NEW d, d = WithSet(e, u),
           NEW m \in [0..(UserTop - 1) -> Int], NEW at \in Int, 0 <= at,
           at + FrameSize(e) <= UserTop, FrameHolds(e, at, m),
           NEW p, p = MemSet(m, at, u)
    PROVE  /\ p \in [0..(UserTop - 1) -> Int] /\ Untouched(p, m, at, at + 10)
           /\ FrameHolds(d, at, p)
<1>1. /\ DOMAIN u \subseteq Settable
      /\ \A f \in DOMAIN u : u[f] \in Int /\ offsetof(f) \in 0..9 /\ cpu_regs[offsetof(f) + 1] = f
    BY FieldsAndOffsets DEF Setting
<1>2. p = [a \in 0..(UserTop - 1) |->
              IF \E f \in DOMAIN u : a = at + offsetof(f) THEN u[cpu_regs[a - at + 1]] ELSE m[a]]
    BY DEF MemSet
<1>3. ASSUME NEW a \in 0..(UserTop - 1), NEW f \in DOMAIN u, a = at + offsetof(f)
      PROVE  u[cpu_regs[a - at + 1]] \in Int /\ at <= a /\ a < at + 10
    <2> DEFINE o == offsetof(f)
    <2>1. o \in 0..9 /\ a = at + o
        BY <1>1, <1>3
    <2> HIDE DEF o
    <2>2. a - at + 1 = o + 1 /\ at <= a /\ a < at + 10
        BY <2>1
    <2> QED BY <1>1, <2>2 DEF o
<1>4. p \in [0..(UserTop - 1) -> Int]
    BY <1>2, <1>3
<1>5. Untouched(p, m, at, at + 10)
    <2>1. ASSUME NEW a \in 0..(UserTop - 1), a < at \/ at + 10 <= a PROVE p[a] = m[a]
        <3>1. ~\E f \in DOMAIN u : a = at + offsetof(f)
            <4>1. a \in Int
                BY Sizes
            <4> QED BY <1>3, <2>1, <4>1
        <3> QED BY <1>2, <3>1
    <2> QED BY <2>1 DEF Untouched
<1>6. FrameSize(e) \in {12, 14} /\ (~CONFIG_64BIT /\ e.cpl = USER => FrameSize(e) = 14)
      /\ 1..FrameSize(e) \subseteq DOMAIN cpu_regs
    BY FieldsAndOffsets DEF FrameSize
<1>7. ASSUME NEW o \in 0..(FrameSize(e) - 1)
      PROVE  p[at + o] = IF cpu_regs[o + 1] \in DOMAIN u THEN u[cpu_regs[o + 1]] ELSE m[at + o]
    <2>1. /\ at + o \in 0..(UserTop - 1) /\ at + o - at + 1 = o + 1 /\ o + 1 \in DOMAIN cpu_regs
          /\ o + 1 - 1 = o
        <3>1. o + 1 \in 1..FrameSize(e) /\ at + o \in 0..(UserTop - 1) /\ at + o - at + 1 = o + 1
              /\ o + 1 - 1 = o
            BY <1>6, Sizes
        <3> QED BY <1>6, <3>1
    <2>2. p[at + o] = IF \E f \in DOMAIN u : at + o = at + offsetof(f)
                      THEN u[cpu_regs[o + 1]] ELSE m[at + o]
        BY <1>2, <2>1
    <2>3. ASSUME cpu_regs[o + 1] \in DOMAIN u PROVE \E f \in DOMAIN u : at + o = at + offsetof(f)
        <3>1. offsetof(cpu_regs[o + 1]) = o
            BY <2>1, FieldsAndOffsets
        <3> QED BY <2>3, <3>1
    <2>4. ASSUME NEW f \in DOMAIN u, at + o = at + offsetof(f) PROVE cpu_regs[o + 1] \in DOMAIN u
        <3>1. offsetof(f) = o
            BY <1>1, <2>4
        <3> QED BY <1>1, <3>1
    <2> QED BY <2>2, <2>3, <2>4
<1>8. /\ d.ip = u["ip"] /\ "ip" \in DOMAIN u
      /\ d.ax = IF "ax" \in DOMAIN u THEN u["ax"] ELSE e.ax
      /\ d.cx = IF "cx" \in DOMAIN u THEN u["cx"] ELSE e.cx
      /\ d.dx = IF "dx" \in DOMAIN u THEN u["dx"] ELSE e.dx
      /\ d.di = IF "di" \in DOMAIN u THEN u["di"] ELSE e.di
      /\ d.si = e.si /\ d.bp = e.bp /\ d.sp = e.sp /\ d.cpl = e.cpl /\ d.ds = e.ds /\ d.if = e.if
    BY ContextSet DEF Setting
<1>9. /\ "bp" \notin DOMAIN u /\ "si" \notin DOMAIN u /\ "ds" \notin DOMAIN u
      /\ "cs" \notin DOMAIN u /\ "flags" \notin DOMAIN u /\ "_sp" \notin DOMAIN u
    BY <1>1 DEF Settable
<1>10. /\ p[at] = m[at] /\ p[at + 4] = m[at + 4]
       /\ p[at + 1] = IF "ax" \in DOMAIN u THEN u["ax"] ELSE m[at + 1]
       /\ p[at + 2] = IF "cx" \in DOMAIN u THEN u["cx"] ELSE m[at + 2]
       /\ p[at + 3] = IF "dx" \in DOMAIN u THEN u["dx"] ELSE m[at + 3]
       /\ p[at + 5] = IF "di" \in DOMAIN u THEN u["di"] ELSE m[at + 5]
    <2>1. /\ 0 \in 0..(FrameSize(e) - 1) /\ 1 \in 0..(FrameSize(e) - 1)
          /\ 2 \in 0..(FrameSize(e) - 1) /\ 3 \in 0..(FrameSize(e) - 1)
          /\ 4 \in 0..(FrameSize(e) - 1) /\ 5 \in 0..(FrameSize(e) - 1)
        BY <1>6
    <2>2. /\ p[at + 0] = IF cpu_regs[0 + 1] \in DOMAIN u THEN u[cpu_regs[0 + 1]] ELSE m[at + 0]
          /\ p[at + 1] = IF cpu_regs[1 + 1] \in DOMAIN u THEN u[cpu_regs[1 + 1]] ELSE m[at + 1]
          /\ p[at + 2] = IF cpu_regs[2 + 1] \in DOMAIN u THEN u[cpu_regs[2 + 1]] ELSE m[at + 2]
          /\ p[at + 3] = IF cpu_regs[3 + 1] \in DOMAIN u THEN u[cpu_regs[3 + 1]] ELSE m[at + 3]
          /\ p[at + 4] = IF cpu_regs[4 + 1] \in DOMAIN u THEN u[cpu_regs[4 + 1]] ELSE m[at + 4]
          /\ p[at + 5] = IF cpu_regs[5 + 1] \in DOMAIN u THEN u[cpu_regs[5 + 1]] ELSE m[at + 5]
        BY <1>7, <2>1, Zenon
    <2> QED BY <1>9, <2>2, FieldsAre
<1>11. CASE CONFIG_64BIT
    <2>1. /\ 7 \in 0..(FrameSize(e) - 1) /\ 8 \in 0..(FrameSize(e) - 1)
          /\ 9 \in 0..(FrameSize(e) - 1) /\ 10 \in 0..(FrameSize(e) - 1)
        BY <1>6
    <2>2. /\ p[at + 7] = IF cpu_regs[7 + 1] \in DOMAIN u THEN u[cpu_regs[7 + 1]] ELSE m[at + 7]
          /\ p[at + 8] = IF cpu_regs[8 + 1] \in DOMAIN u THEN u[cpu_regs[8 + 1]] ELSE m[at + 8]
          /\ p[at + 9] = IF cpu_regs[9 + 1] \in DOMAIN u THEN u[cpu_regs[9 + 1]] ELSE m[at + 9]
          /\ p[at + 10] = IF cpu_regs[10 + 1] \in DOMAIN u THEN u[cpu_regs[10 + 1]] ELSE m[at + 10]
        BY <1>7, <2>1, Zenon
    <2>3. /\ p[at + 7] = u["ip"] /\ p[at + 8] = m[at + 8] /\ p[at + 9] = m[at + 9]
          /\ p[at + 10] = m[at + 10]
        BY <1>8, <1>9, <1>11, <2>2, FieldsAre
    <2>4. FrameHolds(d, at, p)
        BY <1>8, <1>10, <1>11, <2>3 DEF FrameHolds
    <2> QED BY <1>4, <1>5, <2>4
<1>12. CASE ~CONFIG_64BIT
    <2>1. /\ 6 \in 0..(FrameSize(e) - 1) /\ 9 \in 0..(FrameSize(e) - 1)
          /\ 10 \in 0..(FrameSize(e) - 1) /\ 11 \in 0..(FrameSize(e) - 1)
          /\ e.cpl = USER => 12 \in 0..(FrameSize(e) - 1)
        BY <1>6, <1>12
    <2>2. /\ p[at + 6] = IF cpu_regs[6 + 1] \in DOMAIN u THEN u[cpu_regs[6 + 1]] ELSE m[at + 6]
          /\ p[at + 9] = IF cpu_regs[9 + 1] \in DOMAIN u THEN u[cpu_regs[9 + 1]] ELSE m[at + 9]
          /\ p[at + 10] = IF cpu_regs[10 + 1] \in DOMAIN u THEN u[cpu_regs[10 + 1]] ELSE m[at + 10]
          /\ p[at + 11] = IF cpu_regs[11 + 1] \in DOMAIN u THEN u[cpu_regs[11 + 1]] ELSE m[at + 11]
          /\ e.cpl = USER =>
                p[at + 12] = IF cpu_regs[12 + 1] \in DOMAIN u THEN u[cpu_regs[12 + 1]] ELSE m[at + 12]
        BY <1>7, <2>1, Zenon
    <2>3. /\ p[at + 6] = m[at + 6] /\ p[at + 9] = u["ip"] /\ p[at + 10] = m[at + 10]
          /\ p[at + 11] = m[at + 11] /\ (e.cpl = USER => p[at + 12] = m[at + 12])
        BY <1>8, <1>9, <1>12, <2>2, FieldsAre
    <2>4. FrameHolds(d, at, p)
        BY <1>8, <1>10, <1>12, <2>3 DEF FrameHolds
    <2> QED BY <1>4, <1>5, <2>4
<1> QED BY <1>11, <1>12

\* The context goes on after the instruction that it was interrupted at, and
\* its registers are other ones only where the instruction is in the table.
LEMMA MovedContext ==
    ASSUME NEW e \in Cpus, NEW u, Setting(u), NEW d, d = WithSet(e, u),
           u["ip"] = Running(RoutineAt(e.ip)), IsInTable(e.ip) \/ DOMAIN u = {"ip"},
           NEW m, NEW cl, NEW at
    PROVE  /\ Lowest(e, m, cl) => Lowest(d, m, cl)
           /\ Handler(e, at) /\ e.ip \in HandlerCode => Handler(d, at) /\ d.ip \in HandlerCode
<1>1. /\ d.ip = 3 * (e.ip \div 3) /\ e.ip \in Int
      /\ d.bp = e.bp /\ d.sp = e.sp /\ d.cpl = e.cpl /\ d.ds = e.ds
    BY ContextSet DEF Running, RoutineAt, IsInTable, Cpus
<1>2. e.ip % 3 # 1 => d.ax = e.ax /\ d.dx = e.dx /\ d.di = e.di /\ d.si = e.si
    <2>1. e.ip % 3 # 1 => DOMAIN u = {"ip"}
        BY DEF IsInTable
    <2> QED BY <2>1, ContextSet
<1>3. /\ e.ip \in {3, 4, 5} => d.ip = 3
      /\ e.ip \in {6, 7, 8} => d.ip = 6
      /\ e.ip = 21 => d.ip = 21 /\ e.ip % 3 # 1
      /\ e.ip = 24 => d.ip = 24 /\ e.ip % 3 # 1
      /\ e.ip \in 9..17 => d.ip \in 9..17
    BY <1>1
<1>4. ASSUME InTest(e) PROVE InTest(d)
    BY <1>1, <1>3, <1>4, Places DEF InTest
<1>5. ASSUME InStub(e, m, cl) PROVE InStub(d, m, cl)
    BY <1>1, <1>2, <1>3, <1>5, Places DEF InStub, AtUser
<1>6. ASSUME InFn(e, m, cl) PROVE InFn(d, m, cl)
    BY <1>1, <1>3, <1>6, Places DEF InFn, AtUser
<1>7. ASSUME InRet(e, m, cl) PROVE InRet(d, m, cl)
    BY <1>1, <1>2, <1>3, <1>7, Places DEF InRet, AtUser
<1>8. ASSUME Handler(e, at), e.ip \in HandlerCode PROVE Handler(d, at) /\ d.ip \in HandlerCode
    BY <1>1, <1>3, <1>8, Places DEF Handler
<1> QED BY <1>4, <1>5, <1>6, <1>7, <1>8 DEF Lowest

\* A sequence with another element.
LEMMA Replaced ==
    ASSUME NEW X, NEW t \in Seq(X), NEW i \in DOMAIN t, NEW x \in X
    PROVE  LET v == [t EXCEPT ![i] = x]
           IN  /\ v \in Seq(X) /\ Len(v) = Len(t) /\ v[i] = x
               /\ \A k \in DOMAIN t : k # i => v[k] = t[k]
OBVIOUS

\* A handler that sets fields of the context and returns.
LEMMA SetContextKeeps ==
    ASSUME TrapsInv, cpu.ip \in HandlerIps, NEW u, Setting(u), SetContext(u),
           u["ip"] = Running(RoutineAt(interrupted[Len(interrupted)].cpu.ip)),
           IsInTable(interrupted[Len(interrupted)].cpu.ip) \/ DOMAIN u = {"ip"},
           Goto(EPILOGUE), UNCHANGED <<build, user, state, call>>
    PROVE  TrapsInv'
<1> DEFINE n == Len(interrupted)
           e == interrupted[n].cpu
           r == interrupted[n].regs
           d == WithSet(e, u)
           first == interrupted[1].cpu
<1>1. /\ n \in DOMAIN interrupted /\ n \in Nat /\ DOMAIN interrupted = 1..n /\ interrupted # <<>>
      /\ regs = r /\ Handler(cpu, r) /\ e \in Cpus /\ FrameAt(e, r) /\ FrameHolds(e, r, mem)
      /\ r \in Int
    BY Handled, Contexts
<1>2. /\ 2 <= r /\ FrameSize(e) \in {12, 14} /\ FrameTop(e) = r + FrameSize(e)
      /\ FrameTop(e) <= UserTop
      /\ first.cpl = USER => r - 2 >= WorkTop /\ FrameTop(e) <= TrapTop
      /\ \A j \in 1..(n - 1) : FrameTop(e) < interrupted[j].regs - 1
    BY <1>1, FrameIn
<1>3. mem' = MemSet(mem, r, u)
    BY <1>1 DEF SetContext, MemSet
<1>4. d \in Cpus /\ d.sp = e.sp /\ d.cpl = e.cpl
    BY <1>1, ContextSet
<1>5. /\ mem' \in [0..(UserTop - 1) -> Int] /\ Untouched(mem', mem, r, r + 10)
      /\ FrameHolds(d, r, mem')
    <2>1. mem \in [0..(UserTop - 1) -> Int] /\ 0 <= r /\ r + FrameSize(e) <= UserTop
        BY <1>1, <1>2, Contexts
    <2> HIDE DEF e, r
    <2> QED BY <1>1, <1>3, <2>1, FrameSet
<1> DEFINE x == [interrupted[n] EXCEPT !.cpu = d]
<1>6. x \in [cpu : Cpus, regs : Int] /\ x.cpu = d /\ x.regs = r
    <2>1. interrupted[n] \in [cpu : Cpus, regs : Int]
        <3>1. interrupted \in Seq([cpu : Cpus, regs : Int])
            BY Contexts
        <3> QED BY <1>1, <3>1, ElementIn
    <2> HIDE DEF d
    <2> QED BY <1>4, <2>1
<1>7. /\ interrupted' \in Seq([cpu : Cpus, regs : Int]) /\ Len(interrupted') = n
      /\ interrupted'[n].cpu = d /\ interrupted'[n].regs = r
      /\ DOMAIN interrupted' = 1..n /\ interrupted' # <<>>
      /\ \A k \in 1..(n - 1) : interrupted'[k] = interrupted[k] /\ k \in DOMAIN interrupted
    <2>1. interrupted' = [interrupted EXCEPT ![n] = x]
        BY DEF SetContext, WithSet
    <2>2. interrupted \in Seq([cpu : Cpus, regs : Int]) /\ x \in [cpu : Cpus, regs : Int]
        BY <1>6, Contexts
    <2> HIDE DEF x
    <2>3. /\ interrupted' \in Seq([cpu : Cpus, regs : Int]) /\ Len(interrupted') = n
          /\ interrupted'[n] = x /\ \A k \in 1..n : k # n => interrupted'[k] = interrupted[k]
        <3>1. n \in DOMAIN interrupted
            BY <1>1
        <3> DEFINE v == [interrupted EXCEPT ![n] = x]
        <3>2. /\ v \in Seq([cpu : Cpus, regs : Int]) /\ Len(v) = Len(interrupted) /\ v[n] = x
              /\ \A k \in DOMAIN interrupted : k # n => v[k] = interrupted[k]
            BY <2>2, <3>1, Replaced
        <3>3. interrupted' = v
            BY <2>1
        <3> HIDE DEF v
        <3> QED BY <1>1, <3>2, <3>3
    <2>4. DOMAIN interrupted' = 1..n /\ interrupted' # <<>>
        <3>1. n \in Nat /\ n # 0
            BY <1>1
        <3> HIDE DEF n
        <3> QED BY <2>3, <3>1
    <2>5. \A k \in 1..(n - 1) : k \in 1..n /\ k # n
        <3>1. n \in Nat
            BY <1>1
        <3> HIDE DEF n
        <3> QED BY <3>1
    <2> HIDE DEF n
    <2> QED BY <1>1, <1>6, <2>3, <2>4, <2>5
<1>8. /\ cpu' \in Cpus /\ cpu'.ip \in HandlerIps /\ Handler(cpu', r)
    <2>1. cpu \in Cpus /\ cpu' = [cpu EXCEPT !.ip = 30] /\ 30 \in HandlerIps
        BY Places, Contexts DEF Goto
    <2>2. /\ cpu' \in Cpus /\ cpu'.ip = 30 /\ cpu'.cpl = cpu.cpl /\ cpu'.ds = cpu.ds
          /\ cpu'.bp = cpu.bp /\ cpu'.sp = cpu.sp
        <3> DEFINE there == 30
        <3>1. there \in Int /\ cpu \in Cpus /\ cpu' = [cpu EXCEPT !.ip = there]
            BY <2>1
        <3> HIDE DEF there
        <3>2. /\ cpu' \in Cpus /\ cpu'.ip = there /\ cpu'.cpl = cpu.cpl /\ cpu'.ds = cpu.ds
              /\ cpu'.bp = cpu.bp /\ cpu'.sp = cpu.sp
            BY <3>1 DEF Cpus
        <3> QED BY <3>2 DEF there
    <2> QED BY <1>1, <2>1, <2>2 DEF Handler
<1>9. TrapsTypeOK'
    <2>1. /\ build \in Builds /\ user \subseteq Sections /\ state \in {"run", "panic"}
          /\ call \in [sp : Int, bp : Int, p1 : Int, got : Int, ret : Int]
          /\ n <= MaxNest
        BY DEF TrapsInv, TrapsTypeOK
    <2> QED BY <1>5, <1>7, <1>8, <2>1 DEF TrapsTypeOK, UserTop
<1>10. /\ n = 1 => Lowest(d, mem, call)
       /\ n # 1 => /\ Handler(d, interrupted[n - 1].regs) /\ d.ip \in HandlerCode
                   /\ n - 1 \in 1..(n - 1) /\ 1 \in 1..(n - 1)
    <2>1. /\ n = 1 => Lowest(e, mem, call)
          /\ n # 1 => Handler(e, interrupted[n - 1].regs) /\ e.ip \in HandlerCode
        BY <1>1, ContextIs
    <2>2. n # 1 => n - 1 \in 1..(n - 1) /\ 1 \in 1..(n - 1)
        BY <1>1
    <2> HIDE DEF e, d
    <2> QED BY <1>1, <2>1, <2>2, MovedContext DEF e, d
<1> DEFINE second == interrupted'[1].cpu
<1>11. /\ n = 1 => second = d /\ first = e
       /\ n # 1 => second = first
       /\ second.cpl = first.cpl
    BY <1>4, <1>7, <1>10
<1>12. LowestInv'
    <2>1. Lowest(second, mem, call)
        <3>1. Lowest(first, mem, call)
            BY <1>1 DEF TrapsInv, LowestInv
        <3> QED BY <1>10, <1>11, <3>1
    <2>2. second.cpl = USER => \A a \in 0..(UserTop - 1) : a < WorkTop \/ TrapTop <= a => mem'[a] = mem[a]
        <3>1. second.cpl = USER => WorkTop <= r - 2 /\ r + 10 <= TrapTop
            BY <1>1, <1>2, <1>11, Sizes
        <3> HIDE DEF r, second
        <3> QED BY <1>1, <1>5, <3>1, Sizes DEF Untouched
    <2>3. Lowest(second, mem', call)
        BY <2>1, <2>2, LowestStays
    <2> QED BY <1>7, <2>3, SameBuild DEF LowestInv
<1>13. HandlersInv'
    <2>1. ASSUME NEW k \in 1..(n - 1)
          PROVE  Handler(interrupted'[k + 1].cpu, interrupted'[k].regs) /\ interrupted'[k + 1].cpu.ip \in HandlerCode
        <3>1. CASE k = n - 1
            <4>1. k + 1 = n /\ n # 1 /\ interrupted'[k] = interrupted[n - 1]
                BY <1>1, <1>7, <3>1
            <4> QED BY <1>7, <1>10, <4>1
        <3>2. CASE k # n - 1
            <4>1. k + 1 \in 1..(n - 1)
                <5>1. n \in Nat
                    BY <1>1
                <5> HIDE DEF n
                <5> QED BY <3>2, <5>1
            <4>2. interrupted'[k] = interrupted[k] /\ interrupted'[k + 1] = interrupted[k + 1]
                BY <1>7, <4>1
            <4> QED BY <4>2 DEF TrapsInv, HandlersInv
        <3> QED BY <3>1, <3>2
    <2>2. Handler(cpu', interrupted'[Len(interrupted')].regs) /\ cpu'.ip \in HandlerIps
        BY <1>7, <1>8
    <2>3. Len(interrupted') - 1 = n - 1
        BY <1>7
    <2> HIDE DEF n
    <2>4. ASSUME NEW k \in 1..(Len(interrupted') - 1)
          PROVE  Handler(interrupted[k + 1].cpu, interrupted[k].regs)'
                 /\ interrupted'[k + 1].cpu.ip \in HandlerCode
        BY <2>1, <2>3, SameBuild
    <2> QED BY <2>2, <2>4, SameBuild DEF HandlersInv
<1>14. FramesInv'
    <2>1. ASSUME NEW k \in 1..(n - 1) PROVE FrameOK(interrupted', mem', k)
        <3>1. k \in DOMAIN interrupted /\ \A j \in 1..k : interrupted'[j] = interrupted[j]
            BY <1>1, <1>7
        <3>2. r + 10 <= interrupted[k].regs
            <4>1. interrupted[k].regs \in Int
                BY <3>1, Contexts
            <4>2. FrameTop(e) < interrupted[k].regs - 1
                BY <1>2
            <4> HIDE DEF r, e
            <4> QED BY <1>1, <1>2, <4>1, <4>2
        <3>3. r \in Int /\ r + 10 \in Int
            BY <1>1
        <3> HIDE DEF r
        <3> QED BY <1>5, <3>1, <3>2, <3>3, FrameKeeps
    <2>2. FrameOK(interrupted', mem', n)
        <3>1. FrameTop(d) = FrameTop(e) /\ FrameSize(d) = FrameSize(e)
            BY <1>4 DEF FrameTop, FrameSize
        <3>2. FrameAt(d, r)
            BY <1>1, <3>1 DEF FrameAt
        <3>3. Floor(second, n) = Floor(first, n) /\ Ceiling(second) = Ceiling(first)
            BY <1>11 DEF Floor, Ceiling
        <3>4. r - 2 >= Floor(first, n) /\ FrameTop(e) <= Ceiling(first)
            BY <1>1 DEF TrapsInv, FramesInv
        <3>5. \A j \in 1..(n - 1) : FrameTop(d) < interrupted'[j].regs - 1
            BY <1>2, <1>7, <3>1
        <3>6. /\ FrameHolds(d, r, mem')
              /\ r - 2 >= Floor(second, n) /\ FrameTop(d) <= Ceiling(second)
            BY <1>5, <3>1, <3>3, <3>4
        <3>7. interrupted'[n].cpu = d /\ interrupted'[n].regs = r
            BY <1>7
        <3> HIDE DEF d, e, r, n, first
        <3> QED BY <3>2, <3>5, <3>6, <3>7 DEF FrameOK
    <2>3. \A k \in 1..n : k = n \/ k \in 1..(n - 1)
        <3>1. n \in Nat
            BY <1>1
        <3> HIDE DEF n
        <3> QED BY <3>1
    <2> HIDE DEF n
    <2> QED BY <1>7, <2>1, <2>2, <2>3, FramesAfter
<1> QED BY <1>9, <1>12, <1>13, <1>14 DEF TrapsInv

\* What the handlers find in the frame, and what they tell of the stack.
LEMMA FieldsAreRead ==
    ASSUME TrapsInv, cpu.ip \in HandlerIps, NEW e, e = interrupted[Len(interrupted)].cpu
    PROVE  RegsField("ip") = e.ip /\ RegsField("vector") \in Int /\ cpu_regs_sp = e.sp
<1>1. /\ Len(interrupted) \in DOMAIN interrupted /\ e \in Cpus /\ FrameAt(e, regs)
      /\ FrameHolds(e, regs, mem) /\ Handler(cpu, regs)
      /\ regs = interrupted[Len(interrupted)].regs
    BY Handled
<1>2. regs \in Int /\ mem \in [0..(UserTop - 1) -> Int]
    BY <1>1, Contexts
<1>3. /\ 2 <= regs /\ FrameSize(e) \in {12, 14} /\ FrameTop(e) = regs + FrameSize(e)
      /\ FrameTop(e) <= UserTop
    BY <1>1, FrameIn
<1>4. mem[regs + 6] \in Int /\ mem[regs + 7] \in Int
    <2>1. regs + 6 \in 0..(UserTop - 1) /\ regs + 7 \in 0..(UserTop - 1)
        BY <1>2, <1>3, Sizes
    <2> QED BY <1>2, <2>1
<1>5. e.cpl \in {KERN, USER}
    BY <1>1, ContextIs
<1>6. CASE CONFIG_64BIT
    BY <1>1, <1>4, <1>6, OffsetsAre DEF RegsField, FrameHolds, cpu_regs_sp
<1>7. CASE ~CONFIG_64BIT
    <2>1. RegsField("ip") = e.ip /\ RegsField("cs") = e.cpl /\ RegsField("vector") \in Int
        BY <1>1, <1>4, <1>7, OffsetsAre DEF RegsField, FrameHolds
    <2>2. offsetof("_sp") = 12 /\ cpu.cpl = KERN
        BY <1>1, <1>7, OffsetsAre DEF Handler
    <2>3. CASE e.cpl = USER
        <3>1. RegsField("_sp") = e.sp
            BY <1>1, <1>7, <2>2, <2>3 DEF RegsField, FrameHolds
        <3>2. e.cpl > KERN
            BY <2>3, Sizes
        <3> QED BY <2>1, <2>2, <3>1, <3>2 DEF cpu_regs_sp
    <2>4. CASE e.cpl # USER
        <3>1. regs + 12 = e.sp
            BY <1>1, <1>7, <2>4 DEF FrameAt, FrameSize, FrameTop
        <3>2. e.cpl = KERN /\ ~(KERN > KERN)
            BY <1>5, <2>4, Sizes
        <3> QED BY <1>7, <2>1, <2>2, <3>1, <3>2 DEF cpu_regs_sp
    <2> QED BY <2>1, <2>3, <2>4
<1> QED BY <1>6, <1>7

\* A handler of the exception table keeps the invariant.
LEMMA FixupKeeps == ASSUME TrapsInv, Fixup PROVE TrapsInv'
<1> DEFINE e == interrupted[Len(interrupted)].cpu
           x == EXINFO(RegsField("vector"))
           there == FixupAddress
<1>1. /\ cpu.ip \in HandlerIps /\ IsInTable(RegsField("ip")) /\ Goto(EPILOGUE)
      /\ UNCHANGED <<build, user, state, call>>
    BY Places DEF Fixup, Runs
<1>2. PICK u \in Fixups : SetContext(u)
    BY DEF Fixup
<1>3. RegsField("ip") = e.ip /\ RegsField("vector") \in Int /\ e.ip \in Int
    <2>1. e \in Cpus
        BY <1>1, Handled
    <2> QED BY <1>1, <2>1, FieldsAreRead DEF Cpus
<1>4. there = Running(RoutineAt(e.ip)) /\ there \in Int /\ x \in Int
    BY <1>3 DEF FixupAddress, Running, RoutineAt, EXINFO
<1>5. Setting(u) /\ u["ip"] = there
    <2>1. u \in {[ip |-> there], [ip |-> there, ax |-> x], [ip |-> there, di |-> x],
                 [ip |-> there, ax |-> 0, dx |-> 0, cx |-> -1], [ip |-> there, cx |-> -1]}
        BY <1>2 DEF Fixups
    <2> HIDE DEF there, x
    <2> QED BY <1>4, <2>1 DEF Setting, Settable
<1> HIDE DEF e, there
<1> QED BY <1>1, <1>2, <1>3, <1>4, <1>5, SetContextKeeps DEF e

\* The hook of the test resolves the exception.
LEMMA HookResolvesKeeps == ASSUME TrapsInv, HookResolves PROVE TrapsInv'
<1> DEFINE e == interrupted[Len(interrupted)].cpu
           there == FixupAddress
           u == [ip |-> there]
<1>1. /\ cpu.ip \in HandlerIps /\ Goto(EPILOGUE) /\ UNCHANGED <<build, user, state, call>>
    BY Places DEF HookResolves, Runs
<1>2. RegsField("ip") = e.ip /\ e.ip \in Int
    <2>1. e \in Cpus
        BY <1>1, Handled
    <2> QED BY <1>1, <2>1, FieldsAreRead DEF Cpus
<1>3. there = Running(RoutineAt(e.ip)) /\ there \in Int
    BY <1>2 DEF FixupAddress, Running, RoutineAt
<1>4. CASE SetContext(u)
    <2>1. Setting(u) /\ u["ip"] = there /\ DOMAIN u = {"ip"}
        <3> HIDE DEF there
        <3> QED BY <1>3 DEF Setting, Settable
    <2> HIDE DEF u, e, there
    <2> QED BY <1>1, <1>3, <1>4, <2>1, SetContextKeeps DEF e
<1>5. CASE UNCHANGED <<mem, interrupted>>
    <2>1. interrupted # <<>> /\ Handler(cpu, interrupted[Len(interrupted)].regs)
        BY <1>1, Handled
    <2>2. cpu \in Cpus /\ cpu' = [cpu EXCEPT !.ip = 30] /\ 30 \in HandlerIps
        BY <1>1, Places, Contexts DEF Goto
    <2>3. /\ cpu' \in Cpus /\ cpu'.ip = 30 /\ cpu'.cpl = cpu.cpl /\ cpu'.ds = cpu.ds
          /\ cpu'.bp = cpu.bp /\ cpu'.sp = cpu.sp
        BY <2>2 DEF Cpus
    <2>4. Handler(cpu', interrupted[Len(interrupted)].regs) /\ cpu'.ip \in HandlerIps
        BY <2>1, <2>2, <2>3 DEF Handler
    <2>5. state \in {"run", "panic"}
        BY DEF TrapsInv, TrapsTypeOK
    <2> QED BY <1>1, <1>5, <2>1, <2>3, <2>4, <2>5, GoesOn
<1> QED BY <1>4, <1>5 DEF HookResolves

-----------------------------------------------------------------------------
(* The theorems.                                                           *)

\* Every step.
LEMMA InvNext == ASSUME TrapsInv, [Next]_vars PROVE TrapsInv'
<1>1. CASE UNCHANGED vars
    <2>1. /\ state \in {"run", "panic"} /\ cpu \in Cpus
          /\ UNCHANGED <<build, user, state, cpu, mem, interrupted, call>>
          /\ interrupted = <<>> => Lowest(cpu, mem, call) \/ IsBack(cpu, mem, call)
          /\ interrupted # <<>> =>
                Handler(cpu, interrupted[Len(interrupted)].regs) /\ cpu.ip \in HandlerIps
        BY <1>1 DEF vars, TrapsInv, TrapsTypeOK, LowestInv, HandlersInv
    <2> QED BY <2>1, GoesOn
<1>2. CASE Next
    <2>1. CASE (\E r \in Code : Fault(r) \/ SoftwareInterrupt(r)) \/ Syscall \/ Upcall \/ StubFaults
        BY <2>1, EntriesKeep
    <2>2. CASE (\E r \in Code : Retried(r)) \/ SetIf \/ CallHook \/ HandlerReturns \/ Panic
        BY <2>2, OthersKeep
    <2>3. CASE Fixup
        BY <2>3, FixupKeeps
    <2>4. CASE HookResolves
        BY <2>4, HookResolvesKeeps
    <2>5. CASE Resume
        BY <2>5, ResumeKeeps
    <2>6. CASE ExecUser
        BY <2>6, ExecUserKeeps
    <2>7. CASE StubCalls
        BY <2>7, StubCallsKeeps
    <2>8. CASE FnReturns
        BY <2>8, FnReturnsKeeps
    <2>9. CASE RetToKernel
        BY <2>9, RetToKernelKeeps
    <2>10. CASE ExecUserReturns
        BY <2>10, ExecUserReturnsKeeps
    <2>11. CASE Panicked
        BY <1>1, <2>11 DEF Panicked
    <2> QED BY <1>2, <2>1, <2>2, <2>3, <2>4, <2>5, <2>6, <2>7, <2>8, <2>9, <2>10, <2>11, Zenon DEF Next
<1> QED BY <1>1, <1>2

\* The invariant: what is interrupted is found where it was, whatever the stacks are used
\* for in between.
THEOREM TrapsInvariant == Spec => []TrapsInv
<1> QED BY InvInit, InvNext, PTL DEF Spec

\* FramesAreTrue follows.
LEMMA FramesFollow == TrapsInv => FramesAreTrue
<1> SUFFICES ASSUME TrapsInv PROVE FramesAreTrue
    OBVIOUS
<1>1. FramesHold
    <2> SUFFICES ASSUME NEW k \in DOMAIN interrupted
                 PROVE  LET c == interrupted[k].cpu
                            field(f) == mem[interrupted[k].regs + offsetof(f)]
                        IN  /\ \A r \in {"bp", "ax", "cx", "dx", "si", "di"} : field(r) = c[r]
                            /\ field("ip") = c.ip /\ field("cs") = c.cpl /\ field("flags") = c.if
                            /\ c.cpl = USER => field("_sp") = c.sp
        BY DEF FramesHold
    <2> DEFINE c == interrupted[k].cpu
               at == interrupted[k].regs
    <2>1. FrameHolds(c, at, mem) /\ at \in Int /\ c \in Cpus
        BY Contexts DEF TrapsInv, FramesInv
    <2> HIDE DEF c, at
    <2>2. \A r \in {"bp", "ax", "cx", "dx", "si", "di"} : mem[at + offsetof(r)] = c[r]
        BY <2>1, OffsetsAre DEF FrameHolds
    <2>3. /\ mem[at + offsetof("ip")] = c.ip /\ mem[at + offsetof("cs")] = c.cpl
          /\ mem[at + offsetof("flags")] = c.if
          /\ c.cpl = USER => mem[at + offsetof("_sp")] = c.sp
        <3>1. CASE CONFIG_64BIT
            BY <2>1, <3>1, OffsetsAre DEF FrameHolds
        <3>2. CASE ~CONFIG_64BIT
            BY <2>1, <3>2, OffsetsAre DEF FrameHolds
        <3> QED BY <3>1, <3>2
    <2> QED BY <2>2, <2>3 DEF c, at
<1>2. SpIsReported
    <2>1. ASSUME NEW r \in {DO_EXCEPTION, HOOK, DO_SYSCALL, DO_EVTCHN}, cpu.ip \in {Running(r), Bare(r)}
          PROVE  cpu.ip \in HandlerIps
        <3>1. Bare(r) = Running(r) + 2 /\ Running(r) \in {9, 12, 15, 18}
            BY Places DEF Bare, Running, DO_EXCEPTION, HOOK, DO_SYSCALL, DO_EVTCHN
        <3>2. cpu.ip \in (3..18) \union {21, 24, 27, 30}
            BY Placed
        <3> QED BY <2>1, <3>1, <3>2, Places
    <2>2. cpu.ip \in HandlerIps => cpu_regs_sp = interrupted[Len(interrupted)].cpu.sp
        BY FieldsAreRead
    <2> QED BY <2>1, <2>2, Zenon DEF SpIsReported
<1> QED BY <1>1, <1>2 DEF FramesAreTrue

\* No entry, and no call of exec_user_param(), overwrites what an interrupted context has
\* on the stack, and handlers are told the stack pointer that it had, in every build and
\* however deep contexts are interrupted.
THEOREM FramesAlwaysTrue == Spec => []FramesAreTrue
<1> QED BY TrapsInvariant, FramesFollow, PTL

\* Only the return from a handler leaves fewer contexts interrupted.
LEMMA OnlyResumeShortens ==
    ASSUME TrapsInv, Next, Len(interrupted') < Len(interrupted)
    PROVE  Resume
<1>1. Len(interrupted) \in Nat
    BY Contexts
<1>2. ASSUME NEW c, NEW vector, NEW handler, Enter(c, vector, handler)
      PROVE  FALSE
    <2>1. PICK new : interrupted' = Append(interrupted, new)
        BY <1>2 DEF Enter
    <2>2. interrupted \in Seq([cpu : Cpus, regs : Int])
        BY Contexts
    <2>3. Len(interrupted') = Len(interrupted) + 1
        BY <2>1, <2>2
    <2> QED BY <1>1, <2>3
<1>3. ASSUME UNCHANGED interrupted PROVE FALSE
    BY <1>1, <1>3
<1>4. ASSUME NEW u, SetContext(u) PROVE FALSE
    <2>1. interrupted \in Seq([cpu : Cpus, regs : Int])
        BY Contexts
    <2>2. PICK i, x : interrupted' = [interrupted EXCEPT ![i] = x]
        BY <1>4 DEF SetContext
    <2>3. Len(interrupted') = Len(interrupted)
        BY <2>1, <2>2
    <2> QED BY <1>1, <2>3
<1>5. CASE \E r \in Code : Fault(r) \/ Retried(r) \/ SoftwareInterrupt(r)
    BY <1>2, <1>3, <1>5, Zenon DEF Fault, Retried, SoftwareInterrupt
<1>6. CASE Syscall \/ Upcall \/ StubFaults
    BY <1>2, <1>6, Zenon DEF Syscall, Upcall, StubFaults
<1>7. CASE SetIf \/ CallHook \/ HandlerReturns \/ Panic \/ Panicked
    BY <1>3, <1>7, Zenon DEF SetIf, CallHook, HandlerReturns, Panic, Panicked, vars
<1>8. CASE Fixup \/ HookResolves
    BY <1>3, <1>4, <1>8, Zenon DEF Fixup, HookResolves
<1>9. CASE ExecUser \/ StubCalls \/ FnReturns \/ RetToKernel \/ ExecUserReturns
    BY <1>3, <1>9, Zenon DEF ExecUser, StubCalls, FnReturns, RetToKernel, ExecUserReturns
<1> QED BY <1>5, <1>6, <1>7, <1>8, <1>9, Zenon DEF Next

\* An interrupted context goes on with all of its registers, those excepted that its
\* handler has set, on whichever stack and with whatever in between: no step that returns
\* from a handler does anything else.
THEOREM AlwaysResumed == Spec => ResumesAsInterrupted
<1>1. ASSUME TrapsInv, [Next]_vars, Len(interrupted') < Len(interrupted)
      PROVE  cpu' = interrupted[Len(interrupted)].cpu
    <2>1. CASE UNCHANGED vars
        BY <1>1, <2>1, Contexts DEF vars
    <2>2. CASE Next
        BY <1>1, <2>2, OnlyResumeShortens, ResumesContext
    <2> QED BY <1>1, <2>1, <2>2
<1> QED BY <1>1, TrapsInvariant, PTL DEF Spec, ResumesAsInterrupted

\* Only exec_user_param() goes on from where the call has returned to.
LEMMA OnlyReturns ==
    ASSUME TrapsInv, Next, cpu.ip = Running(RETURNED), cpu' # cpu
    PROVE  ExecUserReturns
<1>1. /\ cpu.ip = 27 /\ \A r \in Code : cpu.ip \notin Within(r)
      /\ cpu.ip \notin {Running(TEST), Running(FN), Running(HOOK), Running(DO_SYSCALL),
                        Running(DO_EVTCHN), Running(DO_EXCEPTION), Running(STUB),
                        Running(RET2KERN), Running(EPILOGUE)}
    BY Places DEF Code
<1>2. ~\E r \in Code : Fault(r) \/ Retried(r) \/ SoftwareInterrupt(r)
    BY <1>1 DEF Fault, Retried, SoftwareInterrupt, Runs, Within
<1>3. ~(Syscall \/ Upcall \/ StubFaults \/ SetIf)
    BY <1>1 DEF Syscall, Upcall, StubFaults, SetIf, Runs
<1>4. ~(Fixup \/ CallHook \/ HookResolves \/ HandlerReturns \/ Panic \/ Resume)
    BY <1>1 DEF Fixup, CallHook, HookResolves, HandlerReturns, Panic, Resume, Runs
<1>5. ~(ExecUser \/ StubCalls \/ FnReturns \/ RetToKernel)
    BY <1>1 DEF ExecUser, StubCalls, FnReturns, RetToKernel, Runs
<1>6. ~Panicked
    BY DEF Panicked, vars
<1> QED BY <1>2, <1>3, <1>4, <1>5, <1>6, Zenon DEF Next

\* exec_user_param() calls fn with p1 and returns what fn returned, to its caller and with
\* the caller's stack, however often fn was interrupted.
THEOREM AlwaysACall == Spec => ExecUserIsACall
<1>1. ASSUME TrapsInv, [Next]_vars, cpu.ip = Running(RETURNED), cpu' # cpu
      PROVE  /\ cpu'.sp = call.sp /\ cpu'.bp = call.bp /\ cpu'.ip = Running(TEST)
             /\ cpu'.cpl = KERN /\ cpu'.ax = call.ret /\ call.got = call.p1
    <2>1. Next
        BY <1>1 DEF vars
    <2>2. ExecUserReturns
        BY <1>1, <2>1, OnlyReturns
    <2> QED BY <1>1, <2>2, ReturnsToTest DEF IsBack
<1> QED BY <1>1, TrapsInvariant, PTL DEF Spec, ExecUserIsACall
=============================================================================
