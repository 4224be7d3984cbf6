---------------------------- MODULE Format_proofs ----------------------------
(***************************************************************************)
(* Proofs about Format.tla: nothing is written past the end of any buffer, *)
(* which holds the text or what fits of it, whatever the conversions print *)
(* (that, being computed by recursion, is for TLC); and the two-step       *)
(* division of a 32-bit build is a division.                               *)
(***************************************************************************)
EXTENDS Format, SequenceTheorems, TLAPS

\* What is in memory while text is PUT(): the text, cut off at the end of the
\* buffer, and what was there before.
Prefix == [i \in 0..(call.size + Guard - 1) |->
    IF i < Len(out) /\ i < call.size THEN out[i + 1] ELSE Clobber]

\* And after the NUL has been written.
Terminated ==
    LET last == IF Len(out) < call.size THEN Len(out) ELSE call.size - 1
    IN  [i \in 0..(call.size + Guard - 1) |->
            IF i < last THEN out[i + 1] ELSE IF i = last THEN NUL ELSE Clobber]

Ended == pc \in {"printk", "done", "panic"}

Inv ==
    /\ TypeOK /\ \E S : out \in Seq(S)
    /\ ~Ended => mem = Prefix
    /\ Ended => mem = Terminated /\ todo = <<>>
    /\ pc = "done" /\ call.op = "printk" => str <= call.size /\ console = [k \in 1..str |-> mem[k - 1]]
    /\ pc = "panic" => str > call.size
    /\ pc \in {"printk", "panic"} => call.op = "printk"

LEMMA CallSize == TypeOK => call.size \in Nat
BY FormatAssumption DEF TypeOK

LEMMA InitInv == Init => Inv
<1> SUFFICES ASSUME Init PROVE Inv
    OBVIOUS
<1>1. out = <<>> /\ Len(out) = 0 /\ out \in Seq({})
      BY DEF Init
<1>2. TypeOK
      BY <1>1, FormatAssumption DEF Init, TypeOK
<1>3. mem = Prefix
      BY <1>1 DEF Init, Prefix
<1> QED
    BY <1>1, <1>2, <1>3 DEF Init, Inv, Ended

\* A step of the scan writes nothing and leaves the loop to nobody.
LEMMA ScanKeeps ==
    ASSUME Inv, ~Ended, UNCHANGED <<call, str, mem, out, console>>,
           pc' \in {"scan", "flags", "precision", "length", "convert"}
    PROVE  Inv'
<1>1. TypeOK' /\ ~Ended'
      BY DEF Inv, TypeOK, Ended
<1>2. Prefix' = Prefix
      BY DEF Prefix
<1> QED
    BY <1>1, <1>2 DEF Inv, Ended

LEMMA PutKeeps == Inv /\ Put => Inv'
<1> SUFFICES ASSUME Inv, Put PROVE Inv'
    OBVIOUS
<1> DEFINE c == Head(todo)
<1>1. /\ ~Ended /\ pc' = pc /\ call' = call /\ console' = console
      /\ out' = Append(out, c) /\ str' = str + 1
      /\ mem' = IF str < call.size THEN [mem EXCEPT ![str] = c] ELSE mem
      BY DEF Put, Inv, Ended, callVars
<1>2. PICK S : out \in Seq(S)
      BY DEF Inv
<1>3. out \in Seq(S \union {c}) /\ c \in S \union {c}
      BY <1>2
<1>4. /\ out' \in Seq(S \union {c}) /\ Len(out') = Len(out) + 1
      /\ \A i \in 1..Len(out) : out'[i] = out[i]
      /\ out'[Len(out) + 1] = c
      BY <1>1, <1>3, AppendProperties
<1>5. str = Len(out) /\ str \in Nat /\ call.size \in Nat /\ Guard \in Nat /\ mem = Prefix
      BY <1>1, CallSize, FormatAssumption DEF Inv, TypeOK
<1>6. mem' = [i \in 0..(call.size + Guard - 1) |->
                 IF i < Len(out) + 1 /\ i < call.size THEN out'[i + 1] ELSE Clobber]
      <2>1. CASE str < call.size
            <3> DEFINE Cells == 0..(call.size + Guard - 1)
            <3>1. mem' = [Prefix EXCEPT ![str] = c]
                  BY <1>1, <1>5, <2>1
            <3>2. mem' = [i \in Cells |-> IF i = str THEN c ELSE Prefix[i]]
                  BY <3>1 DEF Prefix
            <3>3. ASSUME NEW i \in Cells
                  PROVE  (IF i = str THEN c ELSE Prefix[i])
                            = IF i < Len(out) + 1 /\ i < call.size THEN out'[i + 1] ELSE Clobber
                  <4>1. CASE i = str
                        BY <4>1, <1>4, <1>5, <2>1
                  <4>2. CASE i < str
                        BY <4>2, <1>4, <1>5, <2>1 DEF Prefix
                  <4>3. CASE i > str
                        BY <4>3, <1>5 DEF Prefix
                  <4> QED
                      BY <4>1, <4>2, <4>3, <1>5
            <3> QED
                BY <3>2, <3>3, Zenon
      <2>2. CASE ~(str < call.size)
            <3>1. mem' = Prefix
                  BY <1>1, <1>5, <2>2
            <3> QED
                BY <3>1, <1>4, <1>5, <2>2 DEF Prefix
      <2> QED
          BY <2>1, <2>2
<1>7. mem' = Prefix'
      BY <1>1, <1>4, <1>6 DEF Prefix
<1>8. TypeOK'
      BY <1>1, <1>4, <1>5, <1>6 DEF Inv, TypeOK
<1> QED
    BY <1>1, <1>4, <1>7, <1>8 DEF Inv, Ended

LEMMA TerminateKeeps == Inv /\ Terminate => Inv'
<1> SUFFICES ASSUME Inv, Terminate PROVE Inv'
    OBVIOUS
<1>1. /\ ~Ended /\ Ended' /\ pc' \in {"printk", "done"} /\ (pc' = "done" <=> call.op # "printk")
      /\ UNCHANGED <<call, str, out, console, todo>> /\ todo = <<>>
      /\ mem' = CASE str < call.size -> [mem EXCEPT ![str] = NUL]
                  [] str >= call.size /\ call.size > 0 -> [mem EXCEPT ![call.size - 1] = NUL]
                  [] OTHER -> mem
      BY DEF Terminate, Scanning, Ended, callVars
<1>2. str = Len(out) /\ str \in Nat /\ call.size \in Nat /\ Guard \in Nat /\ mem = Prefix
      BY <1>1, CallSize, FormatAssumption DEF Inv, TypeOK
<1>3. mem' = Terminated
      <2>1. CASE str < call.size
            <3> DEFINE Cells == 0..(call.size + Guard - 1)
            <3> DEFINE last == IF Len(out) < call.size THEN Len(out) ELSE call.size - 1
            <3>1. mem' = [Prefix EXCEPT ![str] = NUL]
                  BY <1>1, <1>2, <2>1
            <3>2. mem' = [i \in Cells |-> IF i = str THEN NUL ELSE Prefix[i]]
                  BY <3>1 DEF Prefix
            <3>3. ASSUME NEW i \in Cells
                  PROVE  (IF i = str THEN NUL ELSE Prefix[i])
                            = IF i < last THEN out[i + 1] ELSE IF i = last THEN NUL ELSE Clobber
                  BY <1>2, <2>1 DEF Prefix
            <3>4. Terminated = [i \in Cells |->
                      IF i < last THEN out[i + 1] ELSE IF i = last THEN NUL ELSE Clobber]
                  BY DEF Terminated
            <3> HIDE DEF last
            <3> QED
                BY <3>2, <3>3, <3>4, Zenon
      <2>2. CASE str >= call.size /\ call.size > 0
            <3> DEFINE Cells == 0..(call.size + Guard - 1)
            <3> DEFINE last == IF Len(out) < call.size THEN Len(out) ELSE call.size - 1
            <3>1. mem' = [Prefix EXCEPT ![call.size - 1] = NUL]
                  BY <1>1, <1>2, <2>2
            <3>2. mem' = [i \in Cells |-> IF i = call.size - 1 THEN NUL ELSE Prefix[i]]
                  BY <3>1 DEF Prefix
            <3>3. ASSUME NEW i \in Cells
                  PROVE  (IF i = call.size - 1 THEN NUL ELSE Prefix[i])
                            = IF i < last THEN out[i + 1] ELSE IF i = last THEN NUL ELSE Clobber
                  BY <1>2, <2>2 DEF Prefix
            <3>4. Terminated = [i \in Cells |->
                      IF i < last THEN out[i + 1] ELSE IF i = last THEN NUL ELSE Clobber]
                  BY DEF Terminated
            <3> HIDE DEF last
            <3> QED
                BY <3>2, <3>3, <3>4, Zenon
      <2>3. CASE call.size = 0
            <3>1. mem' = Prefix
                  BY <1>1, <1>2, <2>3
            <3> QED
                BY <3>1, <1>2, <2>3 DEF Prefix, Terminated
      <2> QED
          BY <2>1, <2>2, <2>3, <1>2
<1>4. mem' = Terminated'
      BY <1>1, <1>3 DEF Terminated
<1>5. TypeOK'
      BY <1>1, <1>2, <1>3 DEF Inv, TypeOK, Terminated
<1> QED
    BY <1>1, <1>4, <1>5 DEF Inv

LEMMA VprintkKeeps == Inv /\ Vprintk => Inv'
<1> SUFFICES ASSUME Inv, Vprintk PROVE Inv'
    OBVIOUS
<1>1. /\ pc = "printk" /\ Ended /\ Ended' /\ pc' \in {"done", "panic"}
      /\ UNCHANGED <<call, str, mem, out, todo>>
      /\ call.op = "printk" /\ mem = Terminated /\ todo = <<>> /\ \E S : out \in Seq(S)
      BY DEF Inv, Vprintk, Ended, callVars, putVars
<1>2. TypeOK' /\ Terminated' = Terminated
      BY <1>1 DEF Inv, TypeOK, Terminated
<1>3. str \in Nat /\ call.size \in Nat /\ (pc' = "panic" => str > call.size)
      BY CallSize DEF Inv, TypeOK, Vprintk
<1>4. pc' = "done" => str <= call.size /\ console' = [k \in 1..str |-> mem[k - 1]]
      BY <1>3 DEF Vprintk
<1>5. mem' = Terminated'
      BY <1>1, <1>2
<1>6. (\E S : out \in Seq(S))'
      BY <1>1
<1> QED
    BY <1>1, <1>2, <1>3, <1>4, <1>5, <1>6 DEF Inv

\* The invariant holds: PUT() keeps to the buffer whatever is printed, and
\* nothing else writes to it.
THEOREM Invariance == Spec => []Inv
<1>1. Inv /\ [Next]_vars => Inv'
      <2> SUFFICES ASSUME Inv, [Next]_vars PROVE Inv'
          OBVIOUS
      <2>1. CASE Put
            BY <2>1, PutKeeps
      <2>2. CASE Terminate
            BY <2>2, TerminateKeeps
      <2>3. CASE Vprintk
            BY <2>3, VprintkKeeps
      <2>4. CASE Convert \/ Regular
            <3>1. pc \in {"scan", "convert"}
                  BY <2>4 DEF Convert, Regular, Scanning, Literal, Char, String, HexBuffer,
                     ExceptionInfo, Pointer, Integer, Unrecognised
            <3>2. UNCHANGED <<call, str, mem, out, console>> /\ pc' = "scan"
                  BY <2>4 DEF Convert, Regular, Emit, Literal, Char, String, HexBuffer,
                     ExceptionInfo, Pointer, Integer, Unrecognised, callVars
            <3> QED
                BY <3>1, <3>2, ScanKeeps DEF Ended
      <2>5. CASE Percent \/ Flag \/ Width \/ Precision \/ Length
            BY <2>5, ScanKeeps DEF Percent, Flag, Width, Precision, Length, Scanning, Ended,
               callVars, putVars
      <2>6. CASE UNCHANGED vars
            BY <2>6 DEF vars, callVars, putVars, Inv, TypeOK, Ended, Prefix, Terminated
      <2> QED
          BY <2>1, <2>2, <2>3, <2>4, <2>5, <2>6 DEF Next
<1> QED
    BY InitInv, <1>1, PTL DEF Spec

\* Every variable of the writer stays in its range.
THEOREM TypeCorrect == Spec => []TypeOK
BY Invariance, PTL DEF Inv

\* For every size of the buffer and every text: the buffer holds what fits of
\* the text and a NUL, and nothing past its end has been written.
THEOREM BufferSafety == Spec => []BufferHoldsText
<1>1. Inv => BufferHoldsText
      BY DEF Inv, BufferHoldsText, Returned, Ended, Terminated
<1> QED
    BY Invariance, <1>1, PTL

\* What vprintk() gives to the console callbacks is the text, if it is shorter
\* than the buffer, and it panics if it is longer.
THEOREM ConsoleTextSafety == Spec => []ShortTextReachesConsoles
<1>1. Inv => ShortTextReachesConsoles
      <2> SUFFICES ASSUME Inv, Returned, call.op = "printk"
                   PROVE  /\ Len(out) < call.size => pc = "done" /\ console = out
                          /\ Len(out) > call.size => pc = "panic"
          BY DEF ShortTextReachesConsoles
      <2>1. /\ str = Len(out) /\ str \in Nat /\ call.size \in Nat /\ Guard \in Nat
            /\ mem = Terminated
            BY CallSize, FormatAssumption DEF Inv, TypeOK, Returned, Ended
      <2>2. ASSUME Len(out) < call.size
            PROVE  pc = "done" /\ console = out
            <3>1. pc = "done" /\ console = [k \in 1..str |-> mem[k - 1]]
                  BY <2>1, <2>2 DEF Inv, Returned
            <3>2. ASSUME NEW k \in 1..Len(out)
                  PROVE  mem[k - 1] = out[k]
                  BY <2>1, <2>2 DEF Terminated
            <3>3. PICK S : out \in Seq(S)
                  BY DEF Inv
            <3>4. out = [k \in 1..Len(out) |-> out[k]]
                  BY <3>3
            <3>5. [k \in 1..Len(out) |-> mem[k - 1]] = [k \in 1..Len(out) |-> out[k]]
                  BY <3>2
            <3> QED
                BY <3>1, <3>4, <3>5, <2>1
      <2>3. Len(out) > call.size => pc = "panic"
            BY <2>1 DEF Inv, Returned
      <2> QED
          BY <2>2, <2>3
<1> QED
    BY Invariance, <1>1, PTL

-----------------------------------------------------------------------------
(* divmod64().                                                             *)

\* The Euclidean division is the only one.
LEMMA DivisionIsUnique ==
    ASSUME NEW n \in Nat, NEW d \in Nat \ {0}, NEW q \in Nat, NEW r \in 0..(d - 1), n = q * d + r
    PROVE  n \div d = q /\ n % d = r
OBVIOUS

\* For every dividend and divisor, the division in two halves gives the
\* quotient and the remainder.
THEOREM DivMod64Divides ==
    ASSUME NEW n \in Nat, NEW d \in Nat \ {0}
    PROVE  DivMod64(n, d) = <<n \div d, n % d>>
<1> DEFINE W == 2 ^ IntBits
           high == n \div W
           umod == high % d
           low == umod * W + (n % W)
           q == (high \div d) * W + (low \div d)
<1>1. W \in Nat \ {0}
      BY FormatAssumption
<1> HIDE DEF W
<1>2. high \in Nat /\ n % W \in Nat /\ n = high * W + (n % W)
      BY <1>1
<1> HIDE DEF high
<1>3. umod \in Nat /\ high \div d \in Nat /\ high = (high \div d) * d + umod
      BY <1>2
<1>4. low \in Nat
      BY <1>1, <1>2, <1>3
<1> HIDE DEF low
<1>5. low \div d \in Nat /\ low % d \in 0..(d - 1) /\ low = (low \div d) * d + (low % d)
      BY <1>4
<1>6. n = q * d + (low % d)
      <2> DEFINE a == high \div d
                 b == low \div d
                 s == low % d
                 t == n % W
      <2>1. a \in Nat /\ b \in Nat /\ s \in Nat /\ t \in Nat /\ umod \in Nat
            BY <1>2, <1>3, <1>5
      <2>2. n = (a * d + umod) * W + t /\ umod * W + t = b * d + s
            BY <1>2, <1>3, <1>5 DEF low
      <2> HIDE DEF a, b, s, t, umod
      <2>3. (a * d + umod) * W + t = (a * W) * d + (umod * W + t)
            BY <1>1, <2>1
      <2>4. n = (a * W) * d + (b * d + s)
            BY <2>2, <2>3
      <2>5. n = (a * W + b) * d + s
            BY <2>1, <2>4, <1>1
      <2> QED
          BY <2>5 DEF a, b, s
<1>7. q \in Nat
      BY <1>1, <1>3, <1>5
<1> HIDE DEF q
<1>8. n \div d = q /\ n % d = low % d
      BY <1>5, <1>6, <1>7, DivisionIsUnique
<1>9. (IF high # 0 THEN high % d ELSE 0) = umod
      BY <1>2
<1> QED
    BY <1>8, <1>9 DEF DivMod64, high, W, low, q

\* And the divl of the lower half never raises #DE: with the remainder of the
\* upper half above it, the quotient fits 32 bits.
THEOREM NoDivideError ==
    ASSUME NEW d \in Nat \ {0}, NEW umod \in 0..(d - 1), NEW t \in 0..(2 ^ IntBits - 1)
    PROVE  (umod * 2 ^ IntBits + t) \div d < 2 ^ IntBits
<1> DEFINE W == 2 ^ IntBits
           low == umod * W + t
           q == low \div d
<1>1. W \in Nat \ {0} /\ t \in 0..(W - 1)
      BY FormatAssumption
<1> HIDE DEF W
<1>2. low \in Nat /\ low < (umod + 1) * W
      BY <1>1
<1>3. (umod + 1) * W <= d * W
      BY <1>1
<1>4. low \in Nat /\ low < d * W
      BY <1>1, <1>2, <1>3
<1> HIDE DEF low
<1>5. q \in Nat /\ q * d <= low
      BY <1>4
<1> HIDE DEF q
<1>6. q < W
      BY <1>1, <1>4, <1>5
<1> QED
    BY <1>6 DEF q, low, W
=============================================================================
