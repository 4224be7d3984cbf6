---------------------------- MODULE Setup_proofs ----------------------------
(***************************************************************************)
(* What is proved of the exception table and of Setup.  heapsort() sorts   *)
(* and search_extable() finds, for every table.  Whatever boots around it, *)
(* the table only takes steps of Extable, so that what is proved of it on  *)
(* its own holds of the table of a microkernel.  And once the test runs,   *)
(* the processor's features are known, addresses mean what they should,    *)
(* what is shared is found and exceptions get to their handlers: two       *)
(* invariants say what the steps taken so far have set up, and there is    *)
(* none left.                                                              *)
(***************************************************************************)
EXTENDS Setup, Arithmetic, TLAPS

-----------------------------------------------------------------------------
(* The exception table.                                                    *)

\* What the leaves below need of the type invariant: positions and addresses
\* are integers.
LEMMA FaultType ==
    ASSUME TypeOK
    PROVE  /\ Positions \subseteq Nat /\ size \in Nat
           /\ \A i \in Positions : i < size /\ Fault(i) \in Nat
<1>1. size \in Nat
    BY ExtableAssumption DEF TypeOK
<1>2. \A i \in Positions : table[i] \in [fault : Addrs, id : Positions]
    BY DEF TypeOK
<1>3. \A i \in Positions : Fault(i) \in Addrs
    BY <1>2 DEF Fault
<1>4. \A i \in Positions : i \in Nat /\ i < size
    BY <1>1 DEF Positions
<1>5. Addrs \subseteq Nat
    BY ExtableAssumption
<1> QED BY <1>1, <1>3, <1>4, <1>5

\* What swap_extable_entry() makes of the table.
LEMMA SwapTable ==
    ASSUME TypeOK, NEW i \in Positions, NEW j \in Positions, table' = Swapped(i, j)
    PROVE  /\ table' \in [Positions -> [fault : Addrs, id : Positions]]
           /\ \A k \in Positions :
                 table'[k] = IF k = i THEN table[j] ELSE IF k = j THEN table[i] ELSE table[k]
<1> HIDE DEF Positions
<1>1. table \in [Positions -> [fault : Addrs, id : Positions]]
    BY DEF TypeOK
<1> DEFINE R == [fault : Addrs, id : Positions]
<1>2. table[i] \in R /\ table[j] \in R
    BY <1>1
<1> HIDE DEF R
<1>3. table \in [Positions -> R]
    BY <1>1 DEF R
<1> DEFINE once == [table EXCEPT ![i] = table[j]]
<1>4. once \in [Positions -> R] /\ \A k \in Positions : once[k] = IF k = i THEN table[j] ELSE table[k]
    BY <1>2, <1>3
<1>5. table' = [once EXCEPT ![j] = table[i]]
    BY DEF Swapped
<1> HIDE DEF once
<1>6. table' \in [Positions -> R]
      /\ \A k \in Positions : table'[k] = IF k = j THEN table[i] ELSE once[k]
    BY <1>2, <1>4, <1>5
<1> QED BY <1>4, <1>6 DEF R

\* The front of a heap is its largest entry: the least position that exceeds
\* it would have a parent that exceeds it too.
LEMMA HeapMax ==
    ASSUME TypeOK, NEW e \in 0..size, \A i \in Positions : HeapAt(i, e)
    PROVE  \A i \in Positions : i < e => Fault(i) <= Fault(0)
<1> USE FaultType
<1> DEFINE T == {i \in Positions : i < e /\ Fault(0) < Fault(i)}
<1>1. 0 \in Positions /\ e \in Nat
    BY DEF TypeOK, Positions
<1> SUFFICES ASSUME T # {} PROVE FALSE
    BY <1>1
<1>2. T \subseteq Nat
    OBVIOUS
<1> HIDE DEF T
<1>3. PICK x \in T : \A y \in T : x <= y
    BY <1>2, LeastNumber
<1> USE DEF T
<1>4. x \in Positions /\ x < e /\ Fault(0) < Fault(x) /\ x # 0
    BY <1>1
<1>5. PICK p \in Nat : x \in {2 * p + 1, 2 * p + 2}
    <2>1. x \in Nat /\ x # 0
        BY <1>4
    <2>2. (x - 1) \div 2 \in Nat
          /\ x \in {2 * ((x - 1) \div 2) + 1, 2 * ((x - 1) \div 2) + 2}
        BY <2>1
    <2> QED BY <2>2
<1>6. p < x /\ p \in Positions
    BY <1>4, <1>5 DEF Positions
<1>7. Fault(x) <= Fault(p)
    BY <1>4, <1>5, <1>6 DEF HeapAt
<1>8. p \in T
    BY <1>1, <1>4, <1>6, <1>7
<1> QED BY <1>3, <1>6, <1>8

-----------------------------------------------------------------------------
\* The table as linked, and the first loop about to start.
LEMMA IndInvInit == TableInit => IndInv
<1> SUFFICES ASSUME TableInit PROVE IndInv
    OBVIOUS
<1> USE ExtableAssumption DEF TableInit
<1>1. TypeOK
    BY DEF TypeOK, Positions, NULL
<1>2. NoEntryLost
    BY DEF NoEntryLost, Positions
<1>3. SortInv
    BY DEF SortInv, HeapAt, Positions
<1> QED BY <1>1, <1>2, <1>3 DEF IndInv, InOrder, SearchInv

\* No action leaves the table, whatever it holds.
LEMMA TypeStep == IndInv /\ [TableNext]_tableVars => TypeOK'
<1> SUFFICES ASSUME IndInv, [TableNext]_tableVars PROVE TypeOK'
    OBVIOUS
<1> USE ExtableAssumption DEF IndInv, TypeOK, Positions, NULL, envVars, sortVars, searchVars
<1>1. CASE Build
    BY <1>1 DEF Build, Siftdown
<1>2. CASE Built
    BY <1>2 DEF Built
<1>3. CASE Sift
    <2>1. Child \in Positions /\ Child \in Nat /\ Child < stop /\ root \in Positions
        BY <1>3 DEF Sift, Child
    <2> HIDE DEF Positions, Child
    <2>2. table' \in [Positions -> [fault : Addrs, id : Positions]]
        BY <1>3, <2>1, SwapTable DEF Sift
    <2>3. Positions' = Positions
        BY <1>3 DEF Sift, Positions
    <2> QED BY <1>3, <2>1, <2>2, <2>3 DEF Sift
<1>4. CASE Sifted
    BY <1>4 DEF Sifted, SortInv
<1>5. CASE Extract
    <2>1. 0 \in Positions /\ idx \in Positions /\ Positions' = Positions
        BY <1>5 DEF Extract
    <2> HIDE DEF Positions
    <2>2. table' \in [Positions -> [fault : Addrs, id : Positions]]
        BY <1>5, <2>1, SwapTable DEF Extract
    <2> QED BY <1>5, <2>1, <2>2 DEF Extract, Siftdown
<1>6. CASE Sorted
    BY <1>6 DEF Sorted
<1>7. ASSUME NEW a \in Addrs, Exception(a) PROVE TypeOK'
    BY <1>7 DEF Exception
<1>8. CASE Probe
    <2>1. Mid \in lo..hi /\ Mid >= 0
        BY <1>8 DEF Probe, Mid
    <2>2. Mid \in Nat /\ lo <= Mid /\ Mid <= hi
        BY <2>1
    <2> HIDE DEF Mid, Probed
    <2>3. CASE found' = Mid /\ pc' = "dispatch" /\ UNCHANGED <<lo, hi>>
        BY <1>8, <2>2, <2>3 DEF Probe
    <2>4. CASE lo' = Mid + 1 /\ UNCHANGED <<hi, found, pc>>
        BY <1>8, <2>2, <2>4 DEF Probe
    <2>5. CASE hi' = Mid - 1 /\ UNCHANGED <<lo, found, pc>>
        BY <1>8, <2>2, <2>5 DEF Probe
    <2> QED BY <1>8, <2>3, <2>4, <2>5 DEF Probe
<1>9. CASE Miss \/ Fixup \/ HandlerRefuses \/ Hook
    BY <1>9 DEF Miss, Fixup, HandlerRefuses, Hook
<1>10. CASE UNCHANGED tableVars
    BY <1>10 DEF tableVars
<1> QED BY <1>1, <1>2, <1>3, <1>4, <1>5, <1>6, <1>7, <1>8, <1>9, <1>10
        DEF TableNext, Sort, Search

\* siftdown() looks at no child outside the part of the table it sifts, and
\* picks the larger one.
LEMMA LargerChild ==
    ASSUME TypeOK, 2 * root + 1 < stop
    PROVE  /\ root \in Positions /\ Child \in Positions /\ Child < stop /\ stop <= size
           /\ Child \in {2 * root + 1, 2 * root + 2} /\ root < Child
           /\ \A c \in {2 * root + 1, 2 * root + 2} : c < stop => Fault(c) <= Fault(Child)
<1>1. root \in Nat /\ stop \in 0..size /\ size \in Nat
    BY ExtableAssumption DEF TypeOK
<1>2. root \in Positions /\ 2 * root + 1 \in Positions /\ (2 * root + 2 < stop => 2 * root + 2 \in Positions)
    BY <1>1 DEF Positions
<1>3. Fault(2 * root + 1) \in Nat /\ (2 * root + 2 < stop => Fault(2 * root + 2) \in Nat)
    BY <1>2, FaultType
<1>4. 2 * root + 1 + 1 = 2 * root + 2
    BY <1>1
<1> HIDE DEF Fault
<1>5. CASE 2 * root + 2 < stop /\ Fault(2 * root + 1) < Fault(2 * root + 2)
    <2>1. Child = 2 * root + 2
        BY <1>4, <1>5 DEF Child
    <2> QED BY <1>1, <1>2, <1>3, <1>5, <2>1
<1>6. CASE ~(2 * root + 2 < stop /\ Fault(2 * root + 1) < Fault(2 * root + 2))
    <2>1. Child = 2 * root + 1
        BY <1>4, <1>6 DEF Child
    <2> QED BY <1>1, <1>2, <1>3, <1>6, <2>1
<1> QED BY <1>5, <1>6

\* A swap within the table loses no entry.
LEMMA SwapLosesNone ==
    ASSUME TypeOK, NoEntryLost, NEW i \in Positions, NEW j \in Positions,
           table' = Swapped(i, j), UNCHANGED <<size, linked>>
    PROVE  NoEntryLost'
<1>1. \A k \in Positions : table'[k] = IF k = i THEN table[j] ELSE IF k = j THEN table[i] ELSE table[k]
    BY SwapTable
<1>2. Positions' = Positions
    BY DEF Positions
<1>3. \A k \in Positions : table'[k].fault = linked'[table'[k].id]
    BY <1>1 DEF NoEntryLost
<1>4. ASSUME NEW k \in Positions PROVE \E l \in Positions : table'[l].id = k
    <2>1. PICK l \in Positions : table[l].id = k
        BY DEF NoEntryLost
    <2>2. CASE l = i
        BY <1>1, <2>1, <2>2
    <2>3. CASE l = j
        BY <1>1, <2>1, <2>3
    <2>4. CASE l # i /\ l # j
        BY <1>1, <2>1, <2>4
    <2> QED BY <2>2, <2>3, <2>4
<1> QED BY <1>2, <1>3, <1>4 DEF NoEntryLost

\* Only siftdown() and the second loop of heapsort() write to the table.
LEMMA NoEntryLostStep == IndInv /\ [TableNext]_tableVars => NoEntryLost'
<1> SUFFICES ASSUME IndInv, [TableNext]_tableVars PROVE NoEntryLost'
    OBVIOUS
<1> USE DEF IndInv, envVars
<1>1. CASE Sift
    BY <1>1, LargerChild, SwapLosesNone DEF Sift
<1>2. CASE Extract
    <2>1. 0 \in Positions /\ idx \in Positions
        BY <1>2 DEF Extract, TypeOK, Positions
    <2> QED BY <1>2, <2>1, SwapLosesNone DEF Extract
<1>3. ASSUME UNCHANGED <<size, linked, table>> PROVE NoEntryLost'
    BY <1>3 DEF NoEntryLost, Positions
<1> QED BY <1>1, <1>2, <1>3
        DEF TableNext, Sort, Search, tableVars, sortVars, Build, Built, Sifted, Sorted,
            Exception, Probe, Miss, Fixup, HandlerRefuses, Hook

\* An entry sinks by one level.
LEMMA SiftSorts == IndInv /\ Sift => SortInv'
<1> SUFFICES ASSUME IndInv, Sift PROVE SortInv'
    OBVIOUS
<1> USE DEF IndInv, envVars
<1> DEFINE r == root
           c == Child
           F(i) == table[i].fault
           G(i) == table'[i].fault
<1>1. /\ r \in Positions /\ c \in Positions /\ c < stop /\ stop <= size
      /\ c \in {2 * r + 1, 2 * r + 2} /\ r < c
      /\ \A d \in {2 * r + 1, 2 * r + 2} : d < stop => F(d) <= F(c)
    BY LargerChild DEF Sift, Fault
<1>2. /\ Positions \subseteq Nat /\ size \in Nat
      /\ \A i \in Positions : i < size /\ F(i) \in Nat
    BY FaultType DEF Fault
<1>3. F(r) < F(c)
    BY DEF Sift, Fault
<1>4. /\ G(r) = F(c) /\ G(c) = F(r)
      /\ \A i \in Positions : i # r /\ i # c => G(i) = F(i)
    BY <1>1, <1>2, SwapTable DEF Sift
<1>5. /\ pc = "sift" /\ UNCHANGED <<pc, size, idx, caller, stop>> /\ root' = c
    BY DEF Sift
<1>6. /\ Positions' = Positions /\ First' = First
      /\ stop \in Nat /\ idx \in Int /\ First \in Int
      /\ \A d \in Nat : d < stop => d \in Positions
    BY <1>5, ExtableAssumption DEF Positions, First, TypeOK
<1>7. /\ idx >= 0 /\ r >= First
      /\ stop = IF caller = "build" THEN size ELSE idx
      /\ \A i \in Positions : First <= i /\ i # r =>
            \A d \in {2 * i + 1, 2 * i + 2} : d < stop => F(d) <= F(i)
      /\ \A p \in Positions : First <= p /\ r \in {2 * p + 1, 2 * p + 2} =>
            \A d \in {2 * r + 1, 2 * r + 2} : d < stop => F(d) <= F(p)
      /\ caller = "extract" => \A i, j \in Positions : i < j /\ idx <= j => F(i) <= F(j)
    BY <1>5 DEF SortInv, HeapAt, InPlace, Fault
<1> HIDE DEF F, G, r, c
<1>8. ASSUME NEW i \in Positions, First <= i, i # c, NEW d \in {2 * i + 1, 2 * i + 2}, d < stop
      PROVE  G(d) <= G(i)
    <2>1. d \in Positions /\ d # i /\ d \in Nat /\ i \in Nat
        BY <1>2, <1>6, <1>8
    <2>2. CASE i = r
        BY <1>1, <1>2, <1>3, <1>4, <1>8, <2>1, <2>2
    <2>3. CASE i # r /\ d = r
        BY <1>1, <1>2, <1>4, <1>7, <1>8, <2>1, <2>3
    <2>4. CASE i # r /\ d # r
        <3>1. d # c
            BY <1>1, <1>2, <1>8, <2>1, <2>4
        <3> QED BY <1>4, <1>7, <1>8, <2>1, <2>4, <3>1
    <2> QED BY <2>2, <2>3, <2>4
<1>9. ASSUME NEW p \in Positions, First <= p, c \in {2 * p + 1, 2 * p + 2},
             NEW d \in {2 * c + 1, 2 * c + 2}, d < stop
      PROVE  G(d) <= G(p)
    <2>1. p = r /\ d \in Positions /\ d # c /\ d # r /\ First <= c
        BY <1>1, <1>2, <1>6, <1>7, <1>9
    <2> QED BY <1>1, <1>2, <1>3, <1>4, <1>7, <1>9, <2>1
<1>10. ASSUME caller = "extract", NEW i \in Positions, NEW j \in Positions, i < j, idx <= j
       PROVE  G(i) <= G(j)
    <2>1. stop = idx
        BY <1>7, <1>10
    <2>2. j # r /\ j # c /\ r < j /\ c < j
        BY <1>1, <1>2, <1>6, <1>10, <2>1
    <2> QED BY <1>1, <1>2, <1>4, <1>7, <1>10, <2>2
<1>11. c >= First
    BY <1>1, <1>2, <1>6, <1>7
<1> QED
    <2>1. \A i \in Positions' : First' <= i /\ i # root' => HeapAt(i, stop)'
        BY <1>5, <1>6, <1>8 DEF HeapAt, Fault, G
    <2>2. \A p \in Positions' : First' <= p /\ root' \in {2 * p + 1, 2 * p + 2} =>
            \A d \in {2 * root' + 1, 2 * root' + 2} : d < stop' => Fault(d)' <= Fault(p)'
        BY <1>5, <1>6, <1>9 DEF Fault, G
    <2>3. caller' = "extract" => InPlace(idx)'
        BY <1>5, <1>6, <1>10 DEF InPlace, Fault, G
    <2> QED BY <1>5, <1>6, <1>7, <1>11, <2>1, <2>2, <2>3 DEF SortInv

\* The largest entry of the heap goes to its place at the back.
LEMMA ExtractSorts == IndInv /\ Extract => SortInv'
<1> SUFFICES ASSUME IndInv, Extract PROVE SortInv'
    OBVIOUS
<1> USE DEF IndInv, envVars
<1> DEFINE F(i) == table[i].fault
           G(i) == table'[i].fault
<1>1. /\ Positions \subseteq Nat /\ size \in Nat
      /\ \A i \in Positions : i < size /\ F(i) \in Nat
    BY FaultType DEF Fault
<1>2. /\ 0 \in Positions /\ idx \in Positions /\ idx > 0 /\ Positions' = Positions
      /\ \A d \in Nat : d < idx => d \in Positions
    BY DEF Extract, TypeOK, Positions
<1>3. /\ G(0) = F(idx) /\ G(idx) = F(0)
      /\ \A i \in Positions : i # 0 /\ i # idx => G(i) = F(i)
    <2>1. table' = Swapped(0, idx)
        BY DEF Extract
    <2>2. \A k \in Positions :
             table'[k] = IF k = 0 THEN table[idx] ELSE IF k = idx THEN table[0] ELSE table[k]
        BY <1>2, <2>1, SwapTable
    <2> QED BY <1>2, <2>2
<1>4. /\ pc' = "sift" /\ caller' = "extract" /\ root' = 0 /\ stop' = idx /\ idx' = idx
    BY DEF Extract, Siftdown
<1>5. /\ \A i \in Positions : \A d \in {2 * i + 1, 2 * i + 2} : d < idx + 1 => F(d) <= F(i)
      /\ \A i, j \in Positions : i < j /\ idx + 1 <= j => F(i) <= F(j)
    BY DEF Extract, SortInv, HeapAt, InPlace, Fault
<1>6. \A i \in Positions : i < idx + 1 => F(i) <= F(0)
    <2>1. idx + 1 \in 0..size
        BY <1>1, <1>2
    <2>2. \A i \in Positions : HeapAt(i, idx + 1)
        BY DEF Extract, SortInv
    <2> QED BY <2>1, <2>2, HeapMax DEF Fault
<1> HIDE DEF F, G
<1>7. ASSUME NEW i \in Positions, i # 0, NEW d \in {2 * i + 1, 2 * i + 2}, d < idx
      PROVE  G(d) <= G(i)
    <2>1. i # idx /\ d \in Positions /\ d # 0 /\ d # idx /\ d < idx + 1
        BY <1>1, <1>2, <1>7
    <2> QED BY <1>3, <1>5, <1>7, <2>1
<1>8. ASSUME NEW i \in Positions, NEW j \in Positions, i < j, idx <= j
      PROVE  G(i) <= G(j)
    <2>1. CASE j = idx
        <3>1. i < idx + 1 /\ idx < idx + 1 /\ i # idx
            BY <1>1, <1>2, <1>8, <2>1
        <3> QED BY <1>2, <1>3, <1>6, <2>1, <3>1
    <2>2. CASE j # idx
        <3>1. idx + 1 <= j /\ j # 0 /\ 0 < j /\ idx < j
            BY <1>1, <1>2, <1>8, <2>2
        <3> QED BY <1>2, <1>3, <1>5, <1>8, <2>2, <3>1
    <2> QED BY <2>1, <2>2
<1>9. \A p \in Positions : 0 \notin {2 * p + 1, 2 * p + 2}
    BY <1>1
<1> QED
    <2>1. First' = 0
        BY <1>4 DEF First
    <2>2. \A i \in Positions' : First' <= i /\ i # root' => HeapAt(i, stop)'
        BY <1>2, <1>4, <1>7 DEF HeapAt, Fault, G
    <2>3. InPlace(idx)'
        BY <1>2, <1>4, <1>8 DEF InPlace, Fault, G
    <2> QED BY <1>1, <1>2, <1>4, <1>9, <2>1, <2>2, <2>3 DEF SortInv

\* The other steps of heapsort() leave the table alone.
LEMMA SortStep == IndInv /\ [TableNext]_tableVars => SortInv'
<1> SUFFICES ASSUME IndInv, [TableNext]_tableVars PROVE SortInv'
    OBVIOUS
<1> USE DEF IndInv, envVars, sortVars
<1>0. /\ Positions \subseteq Nat /\ size \in Nat /\ idx \in Int
      /\ \A i \in Positions : i < size
    BY FaultType DEF TypeOK
<1>1. CASE Build
    <2>1. ASSUME NEW p \in Positions', root' \in {2 * p + 1, 2 * p + 2}, First' <= p PROVE FALSE
        BY <1>0, <1>1, <2>1 DEF Build, Siftdown, First, Positions
    <2>2. \A i \in Positions' : First' <= i /\ i # root' => HeapAt(i, stop)'
        BY <1>0, <1>1 DEF Build, Siftdown, First, SortInv, HeapAt, Positions, Fault
    <2> QED BY <1>0, <1>1, <2>1, <2>2 DEF Build, Siftdown, First, SortInv
<1>2. CASE Built
    BY <1>0, <1>2 DEF Built, SortInv, HeapAt, InPlace, Positions, Fault
<1>3. CASE Sift
    BY <1>3, SiftSorts
<1>4. CASE Sifted
    <2>1. stop \in Nat /\ pc = "sift" /\ root \in Nat
        BY <1>4, ExtableAssumption DEF Sifted, TypeOK
    <2>2. root \in Positions => HeapAt(root, stop)
        <3>1. SUFFICES ASSUME root \in Positions, NEW d \in {2 * root + 1, 2 * root + 2}, d < stop
                       PROVE  Fault(d) <= Fault(root)
            BY DEF HeapAt
        <3>2. 2 * root + 1 < stop /\ d \in Positions
            BY <2>1, <3>1, ExtableAssumption DEF TypeOK, Positions
        <3>3. Child \in Positions /\ Fault(d) <= Fault(Child)
            BY <3>1, <3>2, LargerChild
        <3>4. Fault(Child) <= Fault(root)
            BY <1>4, <3>1, <3>2, <3>3, FaultType DEF Sifted
        <3> QED BY <3>1, <3>2, <3>3, <3>4, FaultType
    <2>3. \A i \in Positions : First <= i => HeapAt(i, stop)
        BY <2>1, <2>2 DEF SortInv
    <2>4. UNCHANGED <<size, table, caller, stop>> /\ pc' = caller /\ idx' = idx - 1
        BY <1>4 DEF Sifted
    <2>5. CASE caller = "build"
        <3>1. \A i \in Positions : idx' < i => HeapAt(i, size)
            BY <1>0, <2>1, <2>3, <2>4, <2>5 DEF SortInv, First
        <3> QED BY <2>4, <2>5, <3>1 DEF SortInv, HeapAt, Positions, Fault
    <2>6. CASE caller = "extract"
        <3>1. /\ \A i \in Positions : HeapAt(i, idx)
              /\ InPlace(idx) /\ idx' + 1 = idx
            BY <1>0, <2>1, <2>3, <2>4, <2>6 DEF SortInv, First
        <3> QED BY <2>4, <2>6, <3>1 DEF SortInv, HeapAt, InPlace, Positions, Fault
    <2> QED BY <2>5, <2>6 DEF TypeOK
<1>5. CASE Extract
    BY <1>5, ExtractSorts
<1>6. ASSUME UNCHANGED <<size, sortVars>>, pc' = pc \/ pc' \notin {"build", "sift", "extract"}
      PROVE  SortInv'
    BY <1>6 DEF SortInv, HeapAt, InPlace, First, Positions, Fault
<1> QED BY <1>1, <1>2, <1>3, <1>4, <1>5, <1>6
        DEF TableNext, Sort, Search, tableVars, Sorted,
            Exception, Probe, Miss, Fixup, HandlerRefuses, Hook

\* The order is complete when the second loop ends, and stays.
LEMMA InOrderStep == IndInv /\ [TableNext]_tableVars => InOrder'
<1> SUFFICES ASSUME IndInv, [TableNext]_tableVars PROVE InOrder'
    OBVIOUS
<1> USE DEF IndInv, envVars, sortVars
<1>1. CASE Sorted
    <2>1. \A i, j \in Positions : i < j => Fault(i) <= Fault(j)
        BY <1>1, FaultType DEF Sorted, SortInv, InPlace, TypeOK
    <2> QED BY <1>1, <2>1 DEF Sorted, InOrder, Positions, Fault
<1>2. CASE Sort /\ ~Sorted
    <2>1. pc' \in {"build", "sift", "extract"}
        BY <1>2 DEF Sort, Build, Built, Sift, Sifted, Extract, Siftdown, TypeOK
    <2> QED BY <2>1 DEF InOrder
<1>3. ASSUME UNCHANGED <<size, table>>, pc' = pc \/ pc \in {"run", "search", "dispatch", "hook", "panic"}
      PROVE  InOrder'
    BY <1>3 DEF InOrder, Positions, Fault
<1> QED BY <1>1, <1>2, <1>3
        DEF TableNext, Search, tableVars, Exception, Probe, Miss, Fixup, HandlerRefuses, Hook

\* The bounds of the search close in on the address.
LEMMA SearchStep == IndInv /\ [TableNext]_tableVars => SearchInv'
<1> SUFFICES ASSUME IndInv, [TableNext]_tableVars PROVE SearchInv'
    OBVIOUS
<1> USE DEF IndInv, envVars, sortVars, searchVars
<1>1. /\ Positions \subseteq Nat /\ size \in Nat /\ Addrs \subseteq Nat
      /\ \A i \in Positions : i < size /\ Fault(i) \in Nat
    BY FaultType, ExtableAssumption
<1>2. ASSUME NEW a \in Addrs, Exception(a) PROVE SearchInv'
    BY <1>1, <1>2 DEF Exception, SearchInv, Positions, NULL
<1>3. CASE Probe
    <2>1. /\ UNCHANGED <<size, table, addr>> /\ Positions' = Positions
          /\ pc = "search" /\ lo <= hi
          /\ addr \in Addrs /\ lo \in Nat /\ hi \in Nat /\ hi <= size
          /\ \A i \in Positions : (i < lo => Fault(i) < addr) /\ (hi < i => addr < Fault(i))
          /\ \A i, j \in Positions : i < j => Fault(i) <= Fault(j)
        BY <1>1, <1>3 DEF Probe, Positions, SearchInv, InOrder, TypeOK
    <2>2. Mid \in Nat /\ lo <= Mid /\ Mid <= hi /\ (Mid = size => lo = size)
        BY <1>1, <2>1 DEF Mid
    <2>3. Mid < size => Mid \in Positions /\ Probed = Fault(Mid)
        BY <1>1, <2>2 DEF Positions, Probed
    <2> HIDE DEF Mid, Probed, Fault
    <2>4. CASE found' = Mid /\ pc' = "dispatch"
        BY <2>2, <2>4 DEF SearchInv, NULL
    <2>5. CASE addr > Probed /\ lo' = Mid + 1 /\ UNCHANGED <<hi, found, pc>>
        <3>1. ASSUME NEW i \in Positions, i < Mid + 1 PROVE Fault(i) < addr
            <4>1. CASE Mid < size
                BY <1>1, <2>1, <2>2, <2>3, <2>5, <3>1, <4>1
            <4>2. CASE Mid = size
                BY <1>1, <2>1, <2>2, <3>1, <4>2
            <4> QED BY <1>1, <2>1, <2>2, <4>1, <4>2
        <3> QED BY <1>3, <2>1, <2>5, <3>1 DEF SearchInv, Fault
    <2>6. CASE addr < Probed /\ hi' = Mid - 1 /\ UNCHANGED <<lo, found, pc>>
        <3>1. ASSUME NEW i \in Positions, Mid - 1 < i PROVE addr < Fault(i)
            BY <1>1, <2>1, <2>2, <2>3, <2>6, <3>1
        <3> QED BY <1>3, <2>1, <2>6, <3>1 DEF SearchInv, Fault
    <2> QED BY <1>3, <2>4, <2>5, <2>6 DEF Probe
<1>4. CASE Sort
    <2>1. pc' \notin {"search", "dispatch"}
        BY <1>4 DEF Sort, Build, Built, Sift, Sifted, Extract, Siftdown, Sorted, TypeOK
    <2> QED BY <2>1 DEF SearchInv
<1>5. CASE Miss \/ Fixup \/ HandlerRefuses \/ Hook
    BY <1>5 DEF Miss, Fixup, HandlerRefuses, Hook, SearchInv
<1>6. CASE UNCHANGED tableVars
    BY <1>6 DEF tableVars, SearchInv, Positions, Fault
<1> QED BY <1>2, <1>3, <1>4, <1>5, <1>6 DEF TableNext, Search

-----------------------------------------------------------------------------
\* The invariant holds in every reachable state, for every table.
THEOREM Invariance == TableSpec => []IndInv
<1>1. IndInv /\ [TableNext]_tableVars => IndInv'
    BY TypeStep, NoEntryLostStep, SortStep, InOrderStep, SearchStep DEF IndInv
<1> QED BY IndInvInit, <1>1, PTL DEF TableSpec

\* No access leaves the table but the one to the word after it.
THEOREM TypeCorrect == TableSpec => []TypeOK
<1>1. IndInv => TypeOK
    BY DEF IndInv
<1> QED BY Invariance, <1>1, PTL

\* heapsort() keeps every entry, whatever the table.
THEOREM KeepsEntries == TableSpec => []NoEntryLost
<1>1. IndInv => NoEntryLost
    BY DEF IndInv
<1> QED BY Invariance, <1>1, PTL

\* heapsort() sorts: a table of any size, in any order, equal addresses included.
THEOREM Sorts == TableSpec => []InOrder
<1>1. IndInv => InOrder
    BY DEF IndInv
<1> QED BY Invariance, <1>1, PTL

\* What search_extable() returns, given that the word after the table is the
\* address of no fault.
LEMMA LookupStep ==
    ASSUME Beyond \cap Addrs = {}
    PROVE  IndInv /\ LookupInTable /\ [TableNext]_tableVars => LookupInTable'
<1> SUFFICES ASSUME IndInv, LookupInTable, [TableNext]_tableVars PROVE LookupInTable'
    OBVIOUS
<1> USE DEF IndInv, envVars, sortVars, searchVars
<1>1. /\ Positions \subseteq Nat /\ size \in Nat /\ Addrs \subseteq Nat
      /\ \A i \in Positions : i < size /\ Fault(i) \in Nat
    BY FaultType, ExtableAssumption
<1>2. CASE Probe
    <2>1. UNCHANGED <<size, table, addr, beyond>> /\ Positions' = Positions /\ pc = "search"
          /\ addr \in Addrs /\ beyond \in Beyond
        BY <1>2 DEF Probe, Positions, SearchInv, TypeOK
    <2>2. pc' \in {"search", "dispatch"}
        BY <1>2, <2>1 DEF Probe
    <2>3. ASSUME pc' = "dispatch" PROVE found' \in Positions /\ Fault(found') = addr
        <3>1. addr = Probed /\ found' = Mid
            BY <1>2, <2>1, <2>3 DEF Probe
        <3>2. Mid \in Nat
            BY <1>1, <1>2 DEF Probe, Mid, TypeOK
        <3>3. Mid < size /\ Fault(Mid) = addr
            BY <2>1, <3>1 DEF Probed
        <3> QED BY <1>1, <3>1, <3>2, <3>3 DEF Positions
    <2> QED BY <2>1, <2>2, <2>3 DEF LookupInTable, Fault
<1>3. CASE Miss
    <2>1. \A i \in Positions : Fault(i) # addr
        BY <1>1, <1>3 DEF Miss, SearchInv, TypeOK
    <2> QED BY <1>3, <2>1 DEF Miss, LookupInTable, Positions, Fault
<1>4. CASE HandlerRefuses
    BY <1>4 DEF HandlerRefuses, LookupInTable, SearchInv
<1>5. CASE UNCHANGED tableVars
    BY <1>5 DEF tableVars, LookupInTable, Positions, Fault
<1>6. ASSUME pc' \notin {"dispatch", "hook"} PROVE LookupInTable'
    BY <1>6 DEF LookupInTable
<1>7. CASE Sort
    <2>1. pc' \in {"build", "sift", "extract", "run"}
        BY <1>7 DEF Sort, Build, Built, Sift, Sifted, Extract, Siftdown, Sorted, TypeOK
    <2> QED BY <2>1, <1>6
<1>8. CASE \E a \in Addrs : Exception(a)
    BY <1>8, <1>6 DEF Exception
<1>9. CASE Fixup
    BY <1>9, <1>6 DEF Fixup
<1>10. CASE Hook
    BY <1>10, <1>6 DEF Hook
<1> QED BY <1>2, <1>3, <1>4, <1>5, <1>7, <1>8, <1>9, <1>10 DEF TableNext, Search

\* A fault goes to the entry for its address, and to the hook only when there
\* is none or its handler refused: for every table and every address, as long
\* as the word after the table is no such address.
THEOREM LookupFinds ==
    ASSUME Beyond \cap Addrs = {}
    PROVE  TableSpec => []LookupIsRight
<1>1. TableInit => LookupInTable
    BY DEF TableInit, LookupInTable
<1>2. IndInv /\ LookupInTable /\ [TableNext]_tableVars => LookupInTable'
    BY LookupStep
<1>3. IndInv /\ LookupInTable => LookupIsRight
    <2> SUFFICES ASSUME NoEntryLost, LookupInTable PROVE LookupIsRight
        BY DEF IndInv
    <2>1. ASSUME pc = "dispatch" PROVE found \in Positions /\ linked[table[found].id] = addr
        BY <2>1 DEF LookupInTable, NoEntryLost, Fault
    <2>2. ASSUME pc = "hook", found = NULL, NEW i \in Positions PROVE linked[i] # addr
        <3>1. PICK j \in Positions : table[j].id = i
            BY DEF NoEntryLost
        <3>2. Fault(j) # addr /\ Fault(j) = linked[i]
            BY <2>2, <3>1 DEF LookupInTable, NoEntryLost, Fault
        <3> QED BY <3>2
    <2> QED BY <2>1, <2>2 DEF LookupIsRight
<1> QED BY Invariance, <1>1, <1>2, <1>3, PTL DEF TableSpec

-----------------------------------------------------------------------------
(* Setup.                                                                  *)

\* arch_setup() sorts the table, and does nothing else to it.
LEMMA SetupOfTable == arch_setup => Sort \/ UNCHANGED tableVars
<1> SUFFICES ASSUME arch_setup PROVE Sort \/ UNCHANGED tableVars
    OBVIOUS
<1>1. CASE SortExtable
    BY <1>1 DEF SortExtable
<1>2. CASE Head_S \/ Collect \/ InitTraps
    BY <1>2 DEF Head_S, Collect, InitTraps
<1>3. CASE init_hypercalls \/ setup_pv_console
    BY <1>3 DEF init_hypercalls, setup_pv_console
<1>4. CASE setup_xenbus \/ Fails("xenbus")
    BY <1>4 DEF setup_xenbus, Fails
<1>5. CASE map_shared_info \/ Fails("shared_info")
    BY <1>5 DEF map_shared_info, Fails
<1>6. CASE SetupDone
    BY <1>6 DEF SetupDone
<1> QED BY <1>1, <1>2, <1>3, <1>4, <1>5, <1>6 DEF arch_setup

\* Every step of a microkernel is one of its exception table, or leaves it alone.
LEMMA StepOfTable == [Next]_vars => [TableNext]_tableVars
<1> SUFFICES ASSUME [Next]_vars PROVE TableNext \/ UNCHANGED tableVars
    OBVIOUS
<1>1. CASE arch_setup
    BY <1>1, SetupOfTable DEF TableNext
<1>2. CASE Faults
    BY <1>2 DEF Faults, TableNext
<1>3. CASE Dispatch
    BY <1>3 DEF Dispatch, TableNext
<1>4. CASE Stopped \/ UNCHANGED vars
    BY <1>4 DEF Stopped, vars
<1> QED BY <1>1, <1>2, <1>3, <1>4 DEF Next

\* A microkernel implements the specification of its exception table.
THEOREM SetupRefinesTable == Spec => TableSpec
<1>1. Init => TableInit
    BY DEF Init
<1> QED BY <1>1, StepOfTable, PTL DEF Spec, TableSpec

\* The faults of a test go through the entries that it was linked with for their
\* addresses, in every build, on every processor and however setup went, as long
\* as the word after the table is the address of none.
THEOREM FaultsFindTheirEntries ==
    ASSUME Beyond \cap Addrs = {}
    PROVE  Spec => []LookupIsRight
<1>1. TableSpec => []LookupIsRight
    BY LookupFinds
<1> QED BY <1>1, SetupRefinesTable, PTL

-----------------------------------------------------------------------------
(* Start-up, step by step.                                                 *)

\* The steps of all builds in an order that each of them keeps to.
Rank ==
    [cr4 |-> 1, cr3 |-> 2, efer |-> 3, cr0 |-> 4, lgdt |-> 5, ljmp |-> 6, segments |-> 7,
     cpuid |-> 8, sort |-> 9, idt |-> 10, tss |-> 11,
     set_trap_table |-> 12, event |-> 13, syscall |-> 14, syscall32 |-> 15, sysenter |-> 16,
     remap_gdt |-> 17, set_gdt |-> 18, stack_switch |-> 19, user_baseptr |-> 20,
     user_text |-> 21, user_data |-> 22, user_bss |-> 23, unmap_null |-> 24,
     hypercalls |-> 25, console |-> 26, xenbus |-> 27, shared_info |-> 28]

\* The names of the steps.
Names == DOMAIN Rank

\* The steps to come.
Pending == ToSet(todo)

\* No step is taken twice, nor before one that it needs, and none is left out.
TodoInv ==
    /\ todo \in Seq(Names)
    /\ \A i, j \in DOMAIN todo : i < j => Rank[todo[i]] < Rank[todo[j]]
    /\ state \in {"boot", "run", "panic", "dead"}
    /\ state = "run" => todo = <<>>

\* What the domain, the build and the processor are.
HostInv ==
    /\ build \in Builds /\ host \in [initdomain : BOOLEAN, leaves : BOOLEAN, console : BOOLEAN]
    /\ processor \in [vendor : Vendors, max_leaf : MaxLeaves, max_extd_leaf : MaxExtdLeaves,
                      signature : Signatures, sizes : Sizes]

\* What collect_cpuid() finds for a word.
Collected(w) == IF Present(cpuid_fn(w)[1]) THEN cpuid_fn(w) ELSE NoWord

\* What is known of the processor.
CollectedInv ==
    "cpuid" \notin Pending =>
        /\ \A w \in 0..(FSCAPINTS - 1) : x86.features[w] = Collected(w)
        /\ x86.maxphysaddr = Or(IF Present(Extended(8)) THEN processor.sizes.phys ELSE 0, 36)

\* The pages of the user sections that have been remapped.
Remaps == UNION {PagesOf(s) : s \in Sections \ Pending}

-----------------------------------------------------------------------------
(* The image.                                                              *)

\* The parts of an image come one after the other, from 1M on.
LEMMA Layout ==
    /\ Page.text = 256 /\ Page.text < Page.user_text /\ Page.user_text <= Page.data
    /\ Page.data + 10 <= Page.user_data /\ Page.user_data <= Page.rodata
    /\ Page.rodata < Page.boot_stack /\ Page.gdt = Page.boot_stack + 3
    /\ Page.shared_info = Page.boot_stack + 4 /\ Page.boot_stack + 5 <= Page.user_bss
    /\ Page.user_bss < Page.end
    /\ Page.pae32_l3_identmap = Page.data /\ Page.pae_l1_identmap = Page.data + 1
    /\ Page.pae_l2_identmap = Page.data + 2 /\ Page.pae_l3_identmap = Page.data + 6
    /\ Page.pae_l4_identmap = Page.data + 7 /\ Page.pse_l1_identmap = Page.data + 8
    /\ Page.pse_l2_identmap = Page.data + 9
    /\ Page.user_text \in Nat /\ Page.data \in Nat /\ Page.user_data \in Nat /\ Page.rodata \in Nat
    /\ Page.boot_stack \in Nat /\ Page.user_bss \in Nat /\ Page.end \in Nat
<1> DEFINE a == Size.text  b == Size.user_text  c == Size.data  d == Size.user_data
           e == Size.rodata  f == Size.bss  g == Size.user_bss
<1>1. a \in Nat /\ b \in Nat /\ c \in Nat /\ d \in Nat /\ e \in Nat /\ f \in Nat /\ g \in Nat
    BY PageTablesAssumption
<1> HIDE DEF a, b, c, d, e, f, g
<1> DEFINE user_text == 256 + 1 + a
           data == user_text + 1 + b
           user_data == data + 10 + c
           rodata == user_data + d
           bss == rodata + 1 + e
           user_bss == bss + 5 + f
<1>2. /\ Page.text = 256 /\ Page.user_text = user_text /\ Page.data = data /\ Page.user_data = user_data
      /\ Page.rodata = rodata /\ Page.pae32_l3_identmap = data /\ Page.pae_l1_identmap = data + 1
      /\ Page.pae_l2_identmap = data + 2 /\ Page.pae_l3_identmap = data + 6
      /\ Page.pae_l4_identmap = data + 7 /\ Page.pse_l1_identmap = data + 8
      /\ Page.pse_l2_identmap = data + 9 /\ Page.boot_stack = bss /\ Page.gdt = bss + 3
      /\ Page.shared_info = bss + 4 /\ Page.user_bss = user_bss /\ Page.end = user_bss + 1 + g
    BY DEF Page, XTF_VIRT_START, a, b, c, d, e, f, g
<1> QED BY <1>1, <1>2

\* The user sections lie in the image and hold neither tables nor page 0.
LEMMA SectionsIn ==
    /\ UserPages \subseteq Image /\ Image \subseteq Nat /\ 0 \notin Image
    /\ Page.gdt \in Image \ UserPages /\ Page.shared_info \in Image \ UserPages
    /\ Page.gdt # Page.shared_info /\ Page.text \in Image \ UserPages
    /\ Sections = {"user_text", "user_data", "user_bss"}
    /\ \A s \in Sections : PagesOf(s) \subseteq UserPages
<1>1. Sections = {"user_text", "user_data", "user_bss"}
    BY DEF Sections, Section
<1>2. /\ PagesOf("user_text") = Page.user_text..(Page.data - 1)
      /\ PagesOf("user_data") = Page.user_data..(Page.rodata - 1)
      /\ PagesOf("user_bss") = Page.user_bss..(Page.end - 1)
    BY DEF PagesOf, Section
<1>3. UserPages = PagesOf("user_text") \union PagesOf("user_data") \union PagesOf("user_bss")
    BY <1>1 DEF UserPages
<1>4. \A s \in Sections : PagesOf(s) \subseteq UserPages
    BY DEF UserPages
<1> HIDE DEF PagesOf
<1> DEFINE ut == Page.user_text  dt == Page.data  ud == Page.user_data  ro == Page.rodata
           bs == Page.boot_stack  ub == Page.user_bss  en == Page.end
           gd == Page.gdt  si == Page.shared_info  tx == Page.text
<1>5. /\ PagesOf("user_text") = ut..(dt - 1) /\ PagesOf("user_data") = ud..(ro - 1)
      /\ PagesOf("user_bss") = ub..(en - 1) /\ Image = 256..(en - 1)
    BY <1>2 DEF Image, XTF_VIRT_START
<1>6. /\ ut \in Nat /\ dt \in Nat /\ ud \in Nat /\ ro \in Nat /\ bs \in Nat /\ ub \in Nat /\ en \in Nat
      /\ tx = 256 /\ 256 < ut /\ ut <= dt /\ dt + 10 <= ud /\ ud <= ro /\ ro < bs /\ bs + 5 <= ub /\ ub < en
      /\ gd = bs + 3 /\ si = bs + 4
    BY Layout
<1> HIDE DEF ut, dt, ud, ro, bs, ub, en, gd, si, tx
<1>7. /\ UserPages \subseteq Image /\ gd \notin UserPages /\ si \notin UserPages /\ tx \notin UserPages
    BY <1>3, <1>5, <1>6
<1>8. Image \subseteq Nat /\ 0 \notin Image /\ gd \in Image /\ si \in Image /\ tx \in Image /\ gd # si
    BY <1>5, <1>6
<1> QED BY <1>1, <1>4, <1>7, <1>8 DEF gd, si, tx

-----------------------------------------------------------------------------
(* The list of steps.                                                      *)

\* The ranks, one by one, and the names.
LEMMA RankIs ==
    /\ Rank["cr4"] = 1 /\ Rank["cr3"] = 2 /\ Rank["efer"] = 3 /\ Rank["cr0"] = 4 /\ Rank["lgdt"] = 5
    /\ Rank["ljmp"] = 6 /\ Rank["segments"] = 7 /\ Rank["cpuid"] = 8 /\ Rank["sort"] = 9
    /\ Rank["idt"] = 10 /\ Rank["tss"] = 11 /\ Rank["set_trap_table"] = 12 /\ Rank["event"] = 13
    /\ Rank["syscall"] = 14 /\ Rank["syscall32"] = 15 /\ Rank["sysenter"] = 16
    /\ Rank["remap_gdt"] = 17 /\ Rank["set_gdt"] = 18 /\ Rank["stack_switch"] = 19
    /\ Rank["user_baseptr"] = 20 /\ Rank["user_text"] = 21 /\ Rank["user_data"] = 22
    /\ Rank["user_bss"] = 23 /\ Rank["unmap_null"] = 24 /\ Rank["hypercalls"] = 25
    /\ Rank["console"] = 26 /\ Rank["xenbus"] = 27 /\ Rank["shared_info"] = 28
BY DEF Rank

LEMMA NamesAre ==
    Names = {"cr4", "cr3", "efer", "cr0", "lgdt", "ljmp", "segments", "cpuid", "sort", "idt", "tss",
             "set_trap_table", "event", "syscall", "syscall32", "sysenter", "remap_gdt", "set_gdt",
             "stack_switch", "user_baseptr", "user_text", "user_data", "user_bss", "unmap_null",
             "hypercalls", "console", "xenbus", "shared_info"}
BY Zenon DEF Names, Rank

\* Ranks are numbers.
LEMMA RankNat == \A s \in Names : Rank[s] \in Nat
<1> SUFFICES ASSUME NEW s \in Names PROVE Rank[s] \in Nat
    OBVIOUS
<1> QED BY NamesAre, RankIs, SMTT(30)

\* The next step is taken off the list, and with it nothing else; those that it
\* needs are not on it.
LEMMA StepIs ==
    ASSUME TodoInv, NEW s \in Names, todo # <<>>, Head(todo) = s, todo' = Tail(todo)
    PROVE  /\ todo' \in Seq(Names)
           /\ \A i, j \in DOMAIN todo' : i < j => Rank[todo'[i]] < Rank[todo'[j]]
           /\ s \in Pending /\ Pending' = Pending \ {s}
           /\ \A t \in Pending : Rank[s] <= Rank[t]
<1> DEFINE q == todo
           r == Tail(todo)
<1>1. /\ q \in Seq(Names) /\ q # <<>> /\ s = q[1]
      /\ \A i, j \in DOMAIN q : i < j => Rank[q[i]] < Rank[q[j]]
    BY DEF TodoInv
<1>2. /\ r \in Seq(Names) /\ Len(r) = Len(q) - 1 /\ Len(q) \in Nat /\ Len(q) > 0 /\ Len(r) \in Nat
      /\ DOMAIN q = 1..Len(q) /\ DOMAIN r = 1..Len(r)
      /\ \A i \in 1..Len(r) : r[i] = q[i + 1]
    BY <1>1
<1>3. todo' = r /\ Pending = {q[i] : i \in DOMAIN q} /\ Pending' = {r[i] : i \in DOMAIN r}
    BY DEF Pending, ToSet
<1> HIDE DEF q, r
<1>4. \A i, j \in DOMAIN r : i < j => Rank[r[i]] < Rank[r[j]]
    <2> SUFFICES ASSUME NEW i \in DOMAIN r, NEW j \in DOMAIN r, i < j
                 PROVE  Rank[r[i]] < Rank[r[j]]
        OBVIOUS
    <2>1. i + 1 \in DOMAIN q /\ j + 1 \in DOMAIN q /\ i + 1 < j + 1
        BY <1>2
    <2> QED BY <1>1, <1>2, <2>1
<1>5. \A t \in Names : Rank[t] \in Nat
    BY RankNat
<1>6. \A i \in DOMAIN q : q[i] \in Names
    BY <1>1, <1>2
<1>7. \A i \in DOMAIN q : i = 1 \/ Rank[s] < Rank[q[i]]
    <2> SUFFICES ASSUME NEW i \in DOMAIN q, i # 1 PROVE Rank[q[1]] < Rank[q[i]]
        BY <1>1
    <2>1. 1 \in DOMAIN q /\ 1 < i
        BY <1>2
    <2> QED BY <1>1, <2>1, Zenon
<1>8. \A t \in Pending : Rank[s] <= Rank[t]
    BY <1>3, <1>5, <1>6, <1>7, <1>1
<1>9. s \in Pending
    BY <1>1, <1>2, <1>3
<1>10. Pending' \subseteq Pending \ {s}
    <2> SUFFICES ASSUME NEW i \in DOMAIN r PROVE r[i] \in Pending \ {s}
        BY <1>3
    <2>1. i + 1 \in DOMAIN q /\ i + 1 # 1 /\ r[i] = q[i + 1]
        BY <1>2
    <2>2. Rank[s] < Rank[q[i + 1]] /\ Rank[s] \in Nat
        BY <2>1, <1>5, <1>7
    <2> QED BY <2>1, <2>2, <1>3
<1>11. Pending \ {s} \subseteq Pending'
    <2> SUFFICES ASSUME NEW i \in DOMAIN q, q[i] # s PROVE q[i] \in Pending'
        BY <1>3
    <2>1. i - 1 \in DOMAIN r /\ q[i] = r[i - 1]
        BY <1>1, <1>2
    <2> QED BY <2>1, <1>3
<1> QED BY <1>2, <1>3, <1>4, <1>8, <1>9, <1>10, <1>11

\* These steps are in order, and between two of all.
Rising(q, from, to) ==
    /\ q \in Seq(Names)
    /\ \A i \in DOMAIN q : from <= Rank[q[i]] /\ Rank[q[i]] <= to
    /\ \A i, j \in DOMAIN q : i < j => Rank[q[i]] < Rank[q[j]]

\* Steps up to rank b, and then steps from rank c > b on.
LEMMA RisingJoins ==
    ASSUME NEW a \in Nat, NEW b \in Nat, NEW c \in Nat, NEW d \in Nat, a <= b, b < c, c <= d, NEW A, NEW B,
           Rising(A, a, b), Rising(B, c, d)
    PROVE  Rising(A \o B, a, d) /\ ToSet(A \o B) = ToSet(A) \union ToSet(B)
<1>1. A \in Seq(Names) /\ B \in Seq(Names) /\ Len(A) \in Nat /\ Len(B) \in Nat
      /\ DOMAIN A = 1..Len(A) /\ DOMAIN B = 1..Len(B)
    BY DEF Rising
<1> DEFINE C == A \o B
<1>2. /\ C \in Seq(Names) /\ DOMAIN C = 1..(Len(A) + Len(B))
      /\ \A i \in 1..Len(A) : C[i] = A[i]
      /\ \A i \in 1..Len(B) : C[Len(A) + i] = B[i]
    BY <1>1
<1> HIDE DEF C
<1>3. \A i \in DOMAIN C : \/ i \in 1..Len(A) /\ C[i] = A[i]
                          \/ i - Len(A) \in 1..Len(B) /\ C[i] = B[i - Len(A)]
    <2> SUFFICES ASSUME NEW i \in DOMAIN C, i > Len(A)
                 PROVE  i - Len(A) \in 1..Len(B) /\ C[i] = B[i - Len(A)]
        BY <1>1, <1>2
    <2>1. i - Len(A) \in 1..Len(B) /\ Len(A) + (i - Len(A)) = i
        BY <1>1, <1>2
    <2> QED BY <1>2, <2>1
<1>4. \A i \in DOMAIN C : C[i] \in Names /\ Rank[C[i]] \in Nat
    BY <1>1, <1>2, RankNat
<1>5. \A i \in DOMAIN C : a <= Rank[C[i]] /\ Rank[C[i]] <= d
    <2>1. \A i \in 1..Len(A) : a <= Rank[A[i]] /\ Rank[A[i]] <= b
        BY <1>1 DEF Rising
    <2>2. \A i \in 1..Len(B) : c <= Rank[B[i]] /\ Rank[B[i]] <= d
        BY <1>1 DEF Rising
    <2> TAKE i \in DOMAIN C
    <2>3. CASE i \in 1..Len(A) /\ C[i] = A[i]
        BY <2>1, <2>3, <1>4
    <2>4. CASE i - Len(A) \in 1..Len(B) /\ C[i] = B[i - Len(A)]
        BY <2>2, <2>4, <1>4
    <2> QED BY <1>3, <2>3, <2>4
<1>6. \A i, j \in DOMAIN C : i < j => Rank[C[i]] < Rank[C[j]]
    <2> SUFFICES ASSUME NEW i \in DOMAIN C, NEW j \in DOMAIN C, i < j
                 PROVE  Rank[C[i]] < Rank[C[j]]
        OBVIOUS
    <2>1. CASE j \in 1..Len(A)
        <3>1. i \in 1..Len(A) /\ C[i] = A[i] /\ C[j] = A[j]
            BY <1>1, <1>2, <2>1
        <3>2. Rank[A[i]] < Rank[A[j]]
            BY <1>1, <2>1, <3>1 DEF Rising
        <3> QED BY <3>1, <3>2
    <2>2. CASE j \notin 1..Len(A) /\ i \in 1..Len(A)
        <3>1. C[i] = A[i] /\ C[j] = B[j - Len(A)] /\ j - Len(A) \in 1..Len(B)
            BY <1>2, <1>3, <2>2
        <3>2. Rank[A[i]] <= b /\ c <= Rank[B[j - Len(A)]]
            BY <1>1, <2>2, <3>1 DEF Rising
        <3> QED BY <1>4, <3>1, <3>2
    <2>3. CASE j \notin 1..Len(A) /\ i \notin 1..Len(A)
        <3> DEFINE k == i - Len(A)  m == j - Len(A)
        <3>1. C[i] = B[k] /\ C[j] = B[m] /\ k \in 1..Len(B) /\ m \in 1..Len(B)
            BY <1>3, <2>3
        <3>2. k < m
            BY <1>1, <1>2
        <3> HIDE DEF k, m
        <3>3. Rank[B[k]] < Rank[B[m]]
            BY <1>1, <3>1, <3>2 DEF Rising
        <3> QED BY <3>1, <3>3
    <2> QED BY <2>1, <2>2, <2>3
<1>7. ToSet(C) = ToSet(A) \union ToSet(B)
    <2>1. ToSet(C) \subseteq ToSet(A) \union ToSet(B)
        BY <1>1, <1>3 DEF ToSet
    <2>2. ToSet(A) \subseteq ToSet(C)
        <3>1. \A i \in 1..Len(A) : i \in DOMAIN C
            BY <1>1, <1>2
        <3> QED BY <1>1, <1>2, <3>1 DEF ToSet
    <2>3. ToSet(B) \subseteq ToSet(C)
        <3>1. \A i \in 1..Len(B) : Len(A) + i \in DOMAIN C
            BY <1>1, <1>2
        <3> QED BY <1>1, <1>2, <3>1 DEF ToSet
    <2> QED BY <2>1, <2>2, <2>3
<1> QED BY <1>2, <1>5, <1>6, <1>7 DEF Rising, C

\* The pieces that the lists of steps are made of.
LEMMA RisingPieces ==
    /\ \A a, b \in Nat : Rising(<<>>, a, b) /\ ToSet(<<>>) = {}
    /\ Rising(<<"cr4", "cr3">>, 1, 2) /\ ToSet(<<"cr4", "cr3">>) = {"cr4", "cr3"}
    /\ Rising(<<"efer">>, 3, 3) /\ ToSet(<<"efer">>) = {"efer"}
    /\ Rising(<<"cr0", "lgdt", "ljmp", "segments">>, 4, 7)
    /\ ToSet(<<"cr0", "lgdt", "ljmp", "segments">>) = {"cr0", "lgdt", "ljmp", "segments"}
    /\ Rising(<<"cpuid", "sort">>, 8, 9) /\ ToSet(<<"cpuid", "sort">>) = {"cpuid", "sort"}
    /\ Rising(<<"idt", "tss", "user_text", "user_data", "user_bss">>, 10, 24)
    /\ ToSet(<<"idt", "tss", "user_text", "user_data", "user_bss">>)
          = {"idt", "tss", "user_text", "user_data", "user_bss"}
    /\ Rising(<<"set_trap_table", "event">>, 10, 13)
    /\ ToSet(<<"set_trap_table", "event">>) = {"set_trap_table", "event"}
    /\ Rising(<<"syscall">>, 14, 14) /\ ToSet(<<"syscall">>) = {"syscall"}
    /\ Rising(<<"syscall32", "sysenter", "remap_gdt", "set_gdt", "stack_switch">>, 15, 19)
    /\ ToSet(<<"syscall32", "sysenter", "remap_gdt", "set_gdt", "stack_switch">>)
          = {"syscall32", "sysenter", "remap_gdt", "set_gdt", "stack_switch"}
    /\ Rising(<<"user_baseptr">>, 20, 23) /\ ToSet(<<"user_baseptr">>) = {"user_baseptr"}
    /\ Rising(<<"user_text", "user_data", "user_bss">>, 20, 23)
    /\ ToSet(<<"user_text", "user_data", "user_bss">>) = {"user_text", "user_data", "user_bss"}
    /\ Rising(<<"unmap_null">>, 24, 24) /\ ToSet(<<"unmap_null">>) = {"unmap_null"}
    /\ Rising(<<"hypercalls">>, 25, 25) /\ ToSet(<<"hypercalls">>) = {"hypercalls"}
    /\ Rising(<<"console", "xenbus">>, 26, 27) /\ ToSet(<<"console", "xenbus">>) = {"console", "xenbus"}
    /\ Rising(<<"shared_info">>, 28, 28) /\ ToSet(<<"shared_info">>) = {"shared_info"}
<1>1. \A a, b \in Nat : Rising(<<>>, a, b) /\ ToSet(<<>>) = {}
    BY DEF Rising, ToSet
<1>2. Rising(<<"cr4", "cr3">>, 1, 2) /\ ToSet(<<"cr4", "cr3">>) = {"cr4", "cr3"}
    BY RankIs, NamesAre DEF Rising, ToSet
<1>3. Rising(<<"efer">>, 3, 3) /\ ToSet(<<"efer">>) = {"efer"}
    BY RankIs, NamesAre DEF Rising, ToSet
<1>4. Rising(<<"cr0", "lgdt", "ljmp", "segments">>, 4, 7)
    BY RankIs, NamesAre DEF Rising
<1>5. ToSet(<<"cr0", "lgdt", "ljmp", "segments">>) = {"cr0", "lgdt", "ljmp", "segments"}
    BY DEF ToSet
<1>6. Rising(<<"cpuid", "sort">>, 8, 9) /\ ToSet(<<"cpuid", "sort">>) = {"cpuid", "sort"}
    BY RankIs, NamesAre DEF Rising, ToSet
<1>7. Rising(<<"idt", "tss", "user_text", "user_data", "user_bss">>, 10, 24)
    BY RankIs, NamesAre DEF Rising
<1>8. ToSet(<<"idt", "tss", "user_text", "user_data", "user_bss">>)
          = {"idt", "tss", "user_text", "user_data", "user_bss"}
    BY DEF ToSet
<1>9. Rising(<<"set_trap_table", "event">>, 10, 13)
      /\ ToSet(<<"set_trap_table", "event">>) = {"set_trap_table", "event"}
    BY RankIs, NamesAre DEF Rising, ToSet
<1>10. Rising(<<"syscall">>, 14, 14) /\ ToSet(<<"syscall">>) = {"syscall"}
    BY RankIs, NamesAre DEF Rising, ToSet
<1>11. Rising(<<"syscall32", "sysenter", "remap_gdt", "set_gdt", "stack_switch">>, 15, 19)
    BY RankIs, NamesAre DEF Rising
<1>12. ToSet(<<"syscall32", "sysenter", "remap_gdt", "set_gdt", "stack_switch">>)
          = {"syscall32", "sysenter", "remap_gdt", "set_gdt", "stack_switch"}
    BY DEF ToSet
<1>13. Rising(<<"user_baseptr">>, 20, 23) /\ ToSet(<<"user_baseptr">>) = {"user_baseptr"}
    BY RankIs, NamesAre DEF Rising, ToSet
<1>14. Rising(<<"user_text", "user_data", "user_bss">>, 20, 23)
    BY RankIs, NamesAre DEF Rising
<1>15. ToSet(<<"user_text", "user_data", "user_bss">>) = {"user_text", "user_data", "user_bss"}
    BY DEF ToSet
<1>16. Rising(<<"unmap_null">>, 24, 24) /\ ToSet(<<"unmap_null">>) = {"unmap_null"}
    BY RankIs, NamesAre DEF Rising, ToSet
<1>17. Rising(<<"hypercalls">>, 25, 25) /\ ToSet(<<"hypercalls">>) = {"hypercalls"}
    BY RankIs, NamesAre DEF Rising, ToSet
<1>18. Rising(<<"console", "xenbus">>, 26, 27) /\ ToSet(<<"console", "xenbus">>) = {"console", "xenbus"}
    BY RankIs, NamesAre DEF Rising, ToSet
<1>19. Rising(<<"shared_info">>, 28, 28) /\ ToSet(<<"shared_info">>) = {"shared_info"}
    BY RankIs, NamesAre DEF Rising, ToSet
<1> QED BY <1>1, <1>2, <1>3, <1>4, <1>5, <1>6, <1>7, <1>8, <1>9, <1>10, <1>11, <1>12, <1>13, <1>14,
           <1>15, <1>16, <1>17, <1>18, <1>19, Zenon

\* The steps of head.S, with ranks up to 7.
LEMMA HeadIs ==
    /\ Rising(HeadSteps, 1, 7)
    /\ ToSet(HeadSteps) =
          IF CONFIG_PV THEN {}
          ELSE (IF CONFIG_PAGING_LEVELS > 0 THEN {"cr4", "cr3"} ELSE {})
               \union (IF CONFIG_64BIT THEN {"efer"} ELSE {})
               \union {"cr0", "lgdt", "ljmp", "segments"}
<1>1. CASE CONFIG_PV
    <2>1. HeadSteps = <<>>
        BY <1>1 DEF HeadSteps
    <2>2. Rising(<<>>, 1, 7) /\ ToSet(<<>>) = {}
        BY RisingPieces
    <2> QED BY <1>1, <2>1, <2>2
<1>2. CASE ~CONFIG_PV
    <2> DEFINE A == IF CONFIG_PAGING_LEVELS > 0 THEN <<"cr4", "cr3">> ELSE <<>>
               B == IF CONFIG_64BIT THEN <<"efer">> ELSE <<>>
               C == <<"cr0", "lgdt", "ljmp", "segments">>
    <2>1. HeadSteps = (A \o B) \o C
        BY <1>2 DEF HeadSteps
    <2>2. Rising(A, 1, 2) /\ ToSet(A) = IF CONFIG_PAGING_LEVELS > 0 THEN {"cr4", "cr3"} ELSE {}
        <3>1. CASE CONFIG_PAGING_LEVELS > 0
            BY <3>1, RisingPieces, Zenon
        <3>2. CASE ~(CONFIG_PAGING_LEVELS > 0)
            <4>1. 1 \in Nat /\ 2 \in Nat
                OBVIOUS
            <4> QED BY <3>2, <4>1, RisingPieces, Zenon
        <3> QED BY <3>1, <3>2, Zenon
    <2>3. Rising(B, 3, 3) /\ ToSet(B) = IF CONFIG_64BIT THEN {"efer"} ELSE {}
        <3>1. CASE CONFIG_64BIT
            BY <3>1, RisingPieces, Zenon
        <3>2. CASE ~CONFIG_64BIT
            <4>1. 3 \in Nat
                OBVIOUS
            <4> QED BY <3>2, <4>1, RisingPieces, Zenon
        <3> QED BY <3>1, <3>2, Zenon
    <2>4. Rising(C, 4, 7) /\ ToSet(C) = {"cr0", "lgdt", "ljmp", "segments"}
        BY RisingPieces, Zenon
    <2> HIDE DEF A, B, C
    <2>5. 1 \in Nat /\ 2 \in Nat /\ 3 \in Nat /\ 4 \in Nat /\ 7 \in Nat
          /\ 1 <= 2 /\ 2 < 3 /\ 3 <= 3 /\ 3 < 4 /\ 4 <= 7 /\ 1 <= 3
        OBVIOUS
    <2>6. Rising(A \o B, 1, 3) /\ ToSet(A \o B) = ToSet(A) \union ToSet(B)
        BY <2>2, <2>3, <2>5, RisingJoins, SMT
    <2>7. Rising((A \o B) \o C, 1, 7) /\ ToSet((A \o B) \o C) = ToSet(A \o B) \union ToSet(C)
        BY <2>4, <2>5, <2>6, RisingJoins, SMT
    <2> QED BY <1>2, <2>1, <2>2, <2>3, <2>4, <2>6, <2>7, Zenon
<1> QED BY <1>1, <1>2

\* Those of arch_init_traps(), with ranks from 10 to 24.
LEMMA TrapsAre ==
    /\ Rising(TrapSteps, 10, 24)
    /\ ToSet(TrapSteps) =
          IF CONFIG_PV
          THEN {"set_trap_table", "event"} \union (IF CONFIG_64BIT THEN {"syscall"} ELSE {})
               \union {"syscall32", "sysenter", "remap_gdt", "set_gdt", "stack_switch"}
               \union (IF CONFIG_64BIT THEN {"user_baseptr"} ELSE {"user_text", "user_data", "user_bss"})
               \union {"unmap_null"}
          ELSE {"idt", "tss", "user_text", "user_data", "user_bss"}
<1>1. CASE ~CONFIG_PV
    <2>1. TrapSteps = <<"idt", "tss", "user_text", "user_data", "user_bss">>
        BY <1>1 DEF TrapSteps
    <2> QED BY <1>1, <2>1, RisingPieces, Zenon
<1>2. CASE CONFIG_PV
    <2> DEFINE A == <<"set_trap_table", "event">>
               B == IF CONFIG_64BIT THEN <<"syscall">> ELSE <<>>
               C == <<"syscall32", "sysenter", "remap_gdt", "set_gdt", "stack_switch">>
               D == IF CONFIG_64BIT THEN <<"user_baseptr">> ELSE <<"user_text", "user_data", "user_bss">>
               E == <<"unmap_null">>
    <2>1. TrapSteps = (((A \o B) \o C) \o D) \o E
        BY <1>2 DEF TrapSteps
    <2>2. Rising(A, 10, 13) /\ ToSet(A) = {"set_trap_table", "event"}
        BY RisingPieces, Zenon
    <2>3. Rising(B, 14, 14) /\ ToSet(B) = IF CONFIG_64BIT THEN {"syscall"} ELSE {}
        <3>1. CASE CONFIG_64BIT
            BY <3>1, RisingPieces, Zenon
        <3>2. CASE ~CONFIG_64BIT
            <4>1. 14 \in Nat
                OBVIOUS
            <4> QED BY <3>2, <4>1, RisingPieces, Zenon
        <3> QED BY <3>1, <3>2, Zenon
    <2>4. Rising(C, 15, 19)
          /\ ToSet(C) = {"syscall32", "sysenter", "remap_gdt", "set_gdt", "stack_switch"}
        BY RisingPieces, Zenon
    <2>5. Rising(D, 20, 23)
          /\ ToSet(D) = IF CONFIG_64BIT THEN {"user_baseptr"} ELSE {"user_text", "user_data", "user_bss"}
        <3>1. CASE CONFIG_64BIT
            BY <3>1, RisingPieces, Zenon
        <3>2. CASE ~CONFIG_64BIT
            BY <3>2, RisingPieces, Zenon
        <3> QED BY <3>1, <3>2, Zenon
    <2>6. Rising(E, 24, 24) /\ ToSet(E) = {"unmap_null"}
        BY RisingPieces, Zenon
    <2> HIDE DEF A, B, C, D, E
    <2>7. /\ 10 \in Nat /\ 13 \in Nat /\ 14 \in Nat /\ 15 \in Nat /\ 19 \in Nat /\ 20 \in Nat
          /\ 23 \in Nat /\ 24 \in Nat /\ 10 <= 13 /\ 13 < 14 /\ 14 <= 14 /\ 10 <= 14 /\ 14 < 15
          /\ 15 <= 19 /\ 10 <= 19 /\ 19 < 20 /\ 20 <= 23 /\ 10 <= 23 /\ 23 < 24 /\ 24 <= 24
        OBVIOUS
    <2>8. Rising(A \o B, 10, 14) /\ ToSet(A \o B) = ToSet(A) \union ToSet(B)
        BY <2>2, <2>3, <2>7, RisingJoins, SMT
    <2>9. /\ Rising((A \o B) \o C, 10, 19)
          /\ ToSet((A \o B) \o C) = ToSet(A \o B) \union ToSet(C)
        BY <2>4, <2>7, <2>8, RisingJoins, SMT
    <2>10. /\ Rising(((A \o B) \o C) \o D, 10, 23)
           /\ ToSet(((A \o B) \o C) \o D) = ToSet((A \o B) \o C) \union ToSet(D)
        BY <2>5, <2>7, <2>9, RisingJoins, SMT
    <2>11. /\ Rising((((A \o B) \o C) \o D) \o E, 10, 24)
           /\ ToSet((((A \o B) \o C) \o D) \o E) = ToSet(((A \o B) \o C) \o D) \union ToSet(E)
        BY <2>6, <2>7, <2>10, RisingJoins, SMT
    <2> QED BY <1>2, <2>1, <2>2, <2>3, <2>4, <2>5, <2>6, <2>8, <2>9, <2>10, <2>11, Zenon
<1> QED BY <1>1, <1>2

\* Those that come after it, with ranks from 25 on.
LEMMA SetupAre ==
    /\ Rising(SetupSteps, 25, 28)
    /\ ToSet(SetupSteps) = {"hypercalls"} \union (IF host.initdomain THEN {} ELSE {"console", "xenbus"})
                           \union {"shared_info"}
<1> DEFINE A == <<"hypercalls">>
           B == IF host.initdomain THEN <<>> ELSE <<"console", "xenbus">>
           C == <<"shared_info">>
<1>1. SetupSteps = (A \o B) \o C
    BY DEF SetupSteps
<1>2. Rising(A, 25, 25) /\ ToSet(A) = {"hypercalls"} /\ Rising(C, 28, 28) /\ ToSet(C) = {"shared_info"}
    BY RisingPieces, Zenon
<1>3. Rising(B, 26, 27) /\ ToSet(B) = IF host.initdomain THEN {} ELSE {"console", "xenbus"}
    <2>1. CASE host.initdomain
        <3>1. 26 \in Nat /\ 27 \in Nat
            OBVIOUS
        <3> QED BY <2>1, <3>1, RisingPieces, Zenon
    <2>2. CASE ~host.initdomain
        BY <2>2, RisingPieces, Zenon
    <2> QED BY <2>1, <2>2, Zenon
<1> HIDE DEF A, B, C
<1>4. /\ 25 \in Nat /\ 26 \in Nat /\ 27 \in Nat /\ 28 \in Nat
      /\ 25 <= 25 /\ 25 < 26 /\ 26 <= 27 /\ 25 <= 27 /\ 27 < 28 /\ 28 <= 28
    OBVIOUS
<1>5. Rising(A \o B, 25, 27) /\ ToSet(A \o B) = ToSet(A) \union ToSet(B)
    BY <1>2, <1>3, <1>4, RisingJoins, SMT
<1>6. Rising((A \o B) \o C, 25, 28) /\ ToSet((A \o B) \o C) = ToSet(A \o B) \union ToSet(C)
    BY <1>2, <1>4, <1>5, RisingJoins, SMT
<1> QED BY <1>1, <1>2, <1>3, <1>5, <1>6, Zenon

\* The steps of a build, in order and each once.
LEMMA TodoIs ==
    ASSUME Init
    PROVE  /\ TodoInv
           /\ Pending = ToSet(HeadSteps) \union {"cpuid", "sort"}
                        \union ToSet(TrapSteps) \union ToSet(SetupSteps)
<1> DEFINE A == HeadSteps
           B == <<"cpuid", "sort">>
           C == TrapSteps
           D == SetupSteps
<1>1. todo = ((A \o B) \o C) \o D
    BY DEF Init
<1>2. Rising(A, 1, 7) /\ Rising(C, 10, 24) /\ Rising(D, 25, 28)
    BY HeadIs, TrapsAre, SetupAre, Zenon
<1>3. Rising(B, 8, 9) /\ ToSet(B) = {"cpuid", "sort"}
    BY RisingPieces, Zenon
<1>4. state = "boot"
    BY DEF Init, BootInit
<1> HIDE DEF A, B, C, D
<1>5. /\ 1 \in Nat /\ 7 \in Nat /\ 8 \in Nat /\ 9 \in Nat /\ 10 \in Nat /\ 24 \in Nat /\ 25 \in Nat
      /\ 28 \in Nat /\ 1 <= 7 /\ 7 < 8 /\ 8 <= 9 /\ 1 <= 9 /\ 9 < 10 /\ 10 <= 24 /\ 1 <= 24
      /\ 24 < 25 /\ 25 <= 28
    OBVIOUS
<1>6. Rising(A \o B, 1, 9) /\ ToSet(A \o B) = ToSet(A) \union ToSet(B)
    BY <1>2, <1>3, <1>5, RisingJoins, SMT
<1>7. Rising((A \o B) \o C, 1, 24) /\ ToSet((A \o B) \o C) = ToSet(A \o B) \union ToSet(C)
    BY <1>2, <1>5, <1>6, RisingJoins, SMT
<1>8. /\ Rising(((A \o B) \o C) \o D, 1, 28)
      /\ ToSet(((A \o B) \o C) \o D) = ToSet((A \o B) \o C) \union ToSet(D)
    BY <1>2, <1>5, <1>7, RisingJoins, SMT
<1>9. Pending = ToSet(HeadSteps) \union {"cpuid", "sort"} \union ToSet(TrapSteps) \union ToSet(SetupSteps)
    BY <1>1, <1>3, <1>6, <1>7, <1>8, Zenon DEF Pending, A, C, D
<1> QED BY <1>1, <1>4, <1>8, <1>9 DEF TodoInv, Rising

\* Every step of setup takes the next one off the list.
LEMMA StepsAre ==
    ASSUME [Next]_vars
    PROVE  /\ UNCHANGED <<build, host, processor>>
           /\ \/ todo' = todo /\ (state = "run" => state' \in {"run", "panic"})
                 /\ (state' = state \/ state' = "panic" \/ (state = "boot" /\ todo = <<>> /\ state' = "run"))
              \/ \E s \in Names : Step(s) /\ state' \in {"boot", "panic", "dead"}
<1> DEFINE Same == UNCHANGED <<build, host, processor>>
           Took(s) == Step(s) /\ state' \in {"boot", "panic", "dead"}
           Stays == todo' = todo /\ (state = "run" => state' \in {"run", "panic"})
                    /\ (state' = state \/ state' = "panic" \/ (state = "boot" /\ todo = <<>> /\ state' = "run"))
<1>1. ASSUME arch_setup
      PROVE  Same /\ (Stays \/ \E s \in Names : Took(s))
    <2>1. CASE Head_S
        <3>1. Same
            BY <2>1 DEF Head_S, head, cpuidVars, setupVars, mov_cr4, mov_cr3, wrmsr_efer, mov_cr0,
                        lgdt, ljmp, load_segments
        <3>2. Took("cr4") \/ Took("cr3") \/ Took("efer") \/ Took("cr0") \/ Took("lgdt") \/ Took("ljmp")
              \/ Took("segments")
            BY <2>1 DEF Head_S, head, mov_cr4, mov_cr3, wrmsr_efer, mov_cr0,
                        lgdt, ljmp, load_segments, Unless, Step
        <3> HIDE DEF Took, Same
        <3> QED BY <3>1, <3>2, NamesAre
    <2>2. CASE Collect
        <3>1. Same /\ Took("cpuid")
            BY <2>2 DEF Collect, collect_cpuid, setupVars, Step
        <3> HIDE DEF Took, Same
        <3> QED BY <3>1, NamesAre
    <2>3. CASE SortExtable
        <3>1. Same /\ (Stays \/ Took("sort"))
            BY <2>3 DEF SortExtable, cpuidVars, setupVars, Step
        <3> HIDE DEF Took, Same, Stays
        <3> QED BY <3>1, NamesAre
    <2>4. CASE InitTraps
        <3>1. Same
            BY <2>4 DEF InitTraps, arch_init_traps, init_idt, init_tss, RemapUser, set_trap_table,
                        register_callback, remap_gdt, set_gdt, stack_switch, new_user_baseptr,
                        remap_linear_range, remap_fails, unmap_null, InitFails, cpuidVars, setupVars
        <3>2. \E s \in Names : Took(s)
            <4>1. CASE init_idt \/ init_tss
                <5>1. Took("idt") \/ Took("tss")
                    BY <4>1 DEF init_idt, init_tss, Unless, Step
                <5> HIDE DEF Took
                <5> QED BY <5>1, NamesAre
            <4>2. ASSUME NEW s \in Sections, RemapUser(s) \/ remap_linear_range(s) \/ remap_fails(s)
                  PROVE  \E t \in Names : Took(t)
                <5>1. Took(s)
                    BY <4>2 DEF RemapUser, remap_linear_range, remap_fails, Step
                <5>2. s \in Names
                    BY SectionsIn, NamesAre
                <5> HIDE DEF Took
                <5> QED BY <5>1, <5>2
            <4>3. CASE set_trap_table \/ remap_gdt \/ set_gdt \/ stack_switch \/ new_user_baseptr \/ unmap_null
                <5>1. \/ Took("set_trap_table") \/ Took("remap_gdt") \/ Took("set_gdt")
                      \/ Took("stack_switch") \/ Took("user_baseptr") \/ Took("unmap_null")
                    BY <4>3 DEF set_trap_table, remap_gdt, set_gdt, stack_switch, new_user_baseptr,
                                unmap_null, Step
                <5> HIDE DEF Took
                <5> QED BY <5>1, NamesAre
            <4>4. ASSUME NEW type \in {"event", "syscall", "syscall32", "sysenter"}, register_callback(type)
                  PROVE  \E t \in Names : Took(t)
                <5>1. Took(type)
                    BY <4>4 DEF register_callback, Step
                <5>2. type \in Names
                    BY NamesAre
                <5> HIDE DEF Took
                <5> QED BY <5>1, <5>2
            <4>5. CASE InitFails
                <5>1. Took(Head(todo)) /\ Head(todo) \in ToSet(TrapSteps)
                    BY <4>5 DEF InitFails, Step
                <5>2. ToSet(TrapSteps) \subseteq Names
                    BY TrapsAre, NamesAre
                <5> HIDE DEF Took
                <5> QED BY <5>1, <5>2
            <4> HIDE DEF Took
            <4> QED BY <2>4, <4>1, <4>2, <4>3, <4>4, <4>5, Zenon DEF InitTraps, arch_init_traps
        <3> HIDE DEF Took, Same
        <3> QED BY <3>1, <3>2
    <2>5. CASE init_hypercalls \/ setup_pv_console \/ setup_xenbus \/ map_shared_info
        <3>1. Same
            BY <2>5 DEF init_hypercalls, setup_pv_console, setup_xenbus, map_shared_info, cpuidVars
        <3>2. Took("hypercalls") \/ Took("console") \/ Took("xenbus") \/ Took("shared_info")
            BY <2>5 DEF init_hypercalls, setup_pv_console, setup_xenbus, map_shared_info, Step
        <3> HIDE DEF Took, Same
        <3> QED BY <3>1, <3>2, NamesAre
    <2>6. CASE Fails("xenbus") \/ Fails("shared_info")
        <3>1. Same
            BY <2>6 DEF Fails, cpuidVars, setupVars
        <3>2. Took("xenbus") \/ Took("shared_info")
            BY <2>6 DEF Fails, Step
        <3>3. "xenbus" \in Names /\ "shared_info" \in Names
            BY NamesAre
        <3> HIDE DEF Took, Same, Stays
        <3> QED BY <3>1, <3>2, <3>3
    <2>7. CASE SetupDone
        <3>1. Same /\ Stays
            BY <2>7 DEF SetupDone, cpuidVars, setupVars
        <3> HIDE DEF Took, Same, Stays
        <3> QED BY <3>1
    <2> HIDE DEF Took, Same, Stays
    <2> QED BY <1>1, <2>1, <2>2, <2>3, <2>4, <2>5, <2>6, <2>7, Zenon DEF arch_setup
<1>2. ASSUME Faults \/ Dispatch \/ Stopped \/ UNCHANGED vars
      PROVE  Same /\ Stays
    <2>1. CASE Faults
        BY <2>1 DEF Faults, bootVars, cpuidVars, setupVars
    <2>2. CASE Dispatch
        BY <2>2 DEF Dispatch, cpuidVars, setupVars
    <2>3. CASE Stopped \/ UNCHANGED vars
        <3>1. UNCHANGED bootVars /\ UNCHANGED cpuidVars /\ UNCHANGED setupVars
            BY <2>3 DEF vars, Stopped
        <3> QED BY <3>1 DEF bootVars, cpuidVars, setupVars
    <2> QED BY <1>2, <2>1, <2>2, <2>3
<1> QED BY <1>1, <1>2 DEF Next

\* The list stays in order, and shrinks by its head.
LEMMA TodoInvStep ==
    ASSUME TodoInv, [Next]_vars
    PROVE  /\ TodoInv'
           /\ Pending' \subseteq Pending
           /\ UNCHANGED <<build, host, processor>>
           /\ state' \in {"boot", "run"} => state \in {"boot", "run"}
           /\ \A s \in Names : Step(s) => /\ s \in Pending /\ Pending' = Pending \ {s}
                                          /\ \A t \in Pending : Rank[s] <= Rank[t]
<1>1. UNCHANGED <<build, host, processor>>
    BY StepsAre
<1>2. \A s \in Names : Step(s) => /\ s \in Pending /\ Pending' = Pending \ {s}
                                  /\ \A t \in Pending : Rank[s] <= Rank[t]
    BY StepIs, Zenon DEF Step
<1>3. CASE todo' = todo /\ (state = "run" => state' \in {"run", "panic"})
           /\ (state' = state \/ state' = "panic" \/ (state = "boot" /\ todo = <<>> /\ state' = "run"))
    <2>1. TodoInv'
        BY <1>3 DEF TodoInv
    <2>2. Pending' \subseteq Pending
        BY <1>3 DEF Pending
    <2>3. state' \in {"boot", "run"} => state \in {"boot", "run"}
        BY <1>3
    <2> QED BY <1>1, <1>2, <2>1, <2>2, <2>3
<1>4. ASSUME NEW s \in Names, Step(s) /\ state' \in {"boot", "panic", "dead"}
      PROVE  TodoInv' /\ Pending' \subseteq Pending
             /\ (state' \in {"boot", "run"} => state \in {"boot", "run"})
    <2>1. /\ todo' \in Seq(Names)
          /\ \A i, j \in DOMAIN todo' : i < j => Rank[todo'[i]] < Rank[todo'[j]]
        BY <1>4, StepIs, Zenon DEF Step
    <2>2. TodoInv'
        BY <1>4, <2>1 DEF TodoInv
    <2>3. state = "boot"
        BY <1>4 DEF Step
    <2> QED BY <1>2, <1>4, <2>2, <2>3
<1> QED BY <1>1, <1>2, <1>3, <1>4, StepsAre, Zenon

\* The registers are there.
VcpuOK ==
    vcpu = [cr0 |-> vcpu.cr0, cr3 |-> vcpu.cr3, cr4 |-> vcpu.cr4, efer |-> vcpu.efer,
            bits |-> vcpu.bits, lgdt |-> vcpu.lgdt, lidt |-> vcpu.lidt, tr |-> vcpu.tr,
            kernel_sp |-> vcpu.kernel_sp, callbacks |-> vcpu.callbacks, user_cr3 |-> vcpu.user_cr3]

\* The steps that leave paging, pointers and what is known of the processor alone.
Others ==
    {"lgdt", "ljmp", "segments", "sort", "idt", "tss", "set_trap_table", "event", "syscall",
     "syscall32", "sysenter", "set_gdt", "stack_switch", "user_baseptr", "hypercalls"}

\* Nothing that the invariant is about changes.
Untouched ==
    UNCHANGED <<vcpu.cr0, vcpu.cr3, vcpu.cr4, vcpu.efer, l1e, x86, pointers, physmap>>

\* A step that leads on either does nothing of interest, or is one of these.
LEMMA EffectsAre ==
    ASSUME TodoInv, VcpuOK, [Next]_vars, state' \in {"boot", "run"}
    PROVE  \/ Untouched /\ \A t \in Names \ Others : t \in Pending => t \in Pending'
           \/ Collect /\ UNCHANGED <<pointers, physmap>>
           \/ (mov_cr4 \/ mov_cr3 \/ wrmsr_efer \/ mov_cr0) /\ UNCHANGED <<x86, pointers, physmap>>
           \/ (\E s \in Sections : RemapUser(s) \/ remap_linear_range(s) \/ remap_fails(s))
              /\ UNCHANGED <<x86, pointers, physmap>>
           \/ (remap_gdt \/ unmap_null) /\ UNCHANGED <<x86, pointers, physmap>>
           \/ setup_pv_console \/ setup_xenbus \/ map_shared_info
<1> DEFINE Quiet == Untouched /\ \A t \in Names \ Others : t \in Pending => t \in Pending'
           Took(s) == Untouched /\ Step(s)
<1>1. ASSUME NEW s \in Others, Took(s)
      PROVE  Quiet
    <2>1. s \in Names
        BY NamesAre DEF Others
    <2>2. Pending' = Pending \ {s}
        BY <1>1, <2>1, TodoInvStep
    <2> QED BY <1>1, <2>2
<1>2. ASSUME UNCHANGED <<todo, vcpu, l1e, x86, pointers, physmap>>
      PROVE  Quiet
    BY <1>2 DEF Untouched, Pending
<1>3. CASE Head_S
    <2>1. UNCHANGED <<x86, pointers, physmap>>
        BY <1>3 DEF Head_S, cpuidVars, setupVars
    <2>2. CASE lgdt
        <3>1. Took("lgdt")
            BY <2>1, <2>2 DEF lgdt, Untouched, VcpuOK
        <3> HIDE DEF Took, Quiet
        <3> QED BY <1>1, <3>1 DEF Others, Quiet
    <2>3. CASE ljmp
        <3>1. Took("ljmp")
            BY <2>1, <2>3 DEF ljmp, Untouched, VcpuOK
        <3> HIDE DEF Took, Quiet
        <3> QED BY <1>1, <3>1 DEF Others, Quiet
    <2>4. CASE load_segments
        <3>1. Took("segments")
            BY <2>1, <2>4 DEF load_segments, Untouched, VcpuOK
        <3> HIDE DEF Took, Quiet
        <3> QED BY <1>1, <3>1 DEF Others, Quiet
    <2> QED BY <1>3, <2>1, <2>2, <2>3, <2>4 DEF Head_S, head
<1>4. CASE Collect
    BY <1>4 DEF Collect, setupVars
<1>5. CASE SortExtable
    <2>1. CASE todo' = todo
        BY <1>2, <1>5, <2>1 DEF SortExtable, cpuidVars, setupVars
    <2>2. CASE todo' # todo
        <3>1. Took("sort")
            BY <1>5, <2>2 DEF SortExtable, cpuidVars, setupVars, Step, Untouched
        <3> HIDE DEF Took, Quiet
        <3> QED BY <1>1, <3>1 DEF Others, Quiet
    <2> QED BY <2>1, <2>2
<1>6. CASE InitTraps
    <2>1. UNCHANGED <<x86, pointers, physmap>>
        BY <1>6 DEF InitTraps, cpuidVars, setupVars
    <2>2. CASE init_idt
        <3>1. Took("idt")
            BY <2>1, <2>2 DEF init_idt, Untouched, VcpuOK
        <3> HIDE DEF Took, Quiet
        <3> QED BY <1>1, <3>1 DEF Others, Quiet
    <2>3. CASE init_tss
        <3>1. Took("tss")
            BY <2>1, <2>3 DEF init_tss, Untouched, VcpuOK
        <3> HIDE DEF Took, Quiet
        <3> QED BY <1>1, <3>1 DEF Others, Quiet
    <2>4. CASE set_trap_table \/ set_gdt \/ stack_switch \/ new_user_baseptr
        <3>1. Took("set_trap_table") \/ Took("set_gdt") \/ Took("stack_switch") \/ Took("user_baseptr")
            BY <2>1, <2>4 DEF set_trap_table, set_gdt, stack_switch, new_user_baseptr, Untouched, VcpuOK
        <3> HIDE DEF Took, Quiet
        <3> QED BY <1>1, <3>1 DEF Others, Quiet
    <2>5. ASSUME NEW type \in {"event", "syscall", "syscall32", "sysenter"}, register_callback(type)
          PROVE  Quiet
        <3>1. Took(type)
            BY <2>1, <2>5 DEF register_callback, Untouched, VcpuOK
        <3>2. type \in Others
            BY DEF Others
        <3> HIDE DEF Took
        <3> QED BY <1>1, <3>1, <3>2
    <2>6. ~InitFails
        BY DEF InitFails
    <2> QED BY <1>6, <2>1, <2>2, <2>3, <2>4, <2>5, <2>6, Zenon DEF InitTraps, arch_init_traps
<1>7. CASE init_hypercalls
    <2>1. Took("hypercalls")
        BY <1>7 DEF init_hypercalls, cpuidVars, Untouched
    <2> HIDE DEF Took, Quiet
    <2> QED BY <1>1, <2>1 DEF Others, Quiet
<1>8. ~Fails("xenbus") /\ ~Fails("shared_info")
    BY DEF Fails
<1>9. CASE SetupDone
    BY <1>2, <1>9 DEF SetupDone, cpuidVars, setupVars
<1>10. CASE Faults \/ Dispatch \/ Stopped \/ UNCHANGED vars
    <2>1. UNCHANGED <<todo, vcpu, l1e, x86, pointers, physmap>>
        <3>1. CASE Faults \/ Dispatch
            BY <3>1 DEF Faults, Dispatch, bootVars, cpuidVars, setupVars
        <3>2. CASE Stopped \/ UNCHANGED vars
            <4>1. UNCHANGED bootVars /\ UNCHANGED cpuidVars /\ UNCHANGED setupVars
                BY <3>2 DEF vars, Stopped
            <4> QED BY <4>1 DEF bootVars, cpuidVars, setupVars
        <3> QED BY <1>10, <3>1, <3>2
    <2> QED BY <1>2, <2>1
<1> QED BY <1>3, <1>4, <1>5, <1>6, <1>7, <1>8, <1>9, <1>10, Zenon DEF Next, arch_setup

\* collect_cpuid() establishes what is known of the processor, and nothing
\* changes it.
LEMMA CollectedStep ==
    ASSUME TodoInv, VcpuOK, CollectedInv, [Next]_vars, state' \in {"boot", "run"}
    PROVE  CollectedInv'
<1>1. UNCHANGED <<build, processor>>
    BY TodoInvStep
<1>2. (\A w \in 0..(FSCAPINTS - 1) : Collected(w)' = Collected(w))
      /\ Present(Extended(8))' = Present(Extended(8))
    BY <1>1 DEF Collected, Present, AtLeast
<1>3. CASE Collect
    <2>1. x86'.features = [w \in 0..(FSCAPINTS - 1) |-> Collected(w)]
        BY <1>3 DEF Collect, collect_cpuid, Collected
    <2>2. x86'.maxphysaddr = Or(IF Present(Extended(8)) THEN processor.sizes.phys ELSE 0, 36)
        BY <1>3 DEF Collect, collect_cpuid
    <2> QED BY <1>1, <1>2, <2>1, <2>2 DEF CollectedInv
<1>4. CASE UNCHANGED x86 /\ ("cpuid" \in Pending => "cpuid" \in Pending')
    BY <1>1, <1>2, <1>4 DEF CollectedInv
<1>5. ASSUME NEW s \in Names, s # "cpuid", Step(s), UNCHANGED x86
      PROVE  CollectedInv'
    BY <1>4, <1>5, TodoInvStep
<1>6. CASE Untouched /\ \A t \in Names \ Others : t \in Pending => t \in Pending'
    BY <1>4, <1>6, NamesAre DEF Untouched, Others
<1>7. CASE (mov_cr4 \/ mov_cr3 \/ wrmsr_efer \/ mov_cr0) /\ UNCHANGED <<x86, pointers, physmap>>
    BY <1>5, <1>7, NamesAre DEF mov_cr4, mov_cr3, wrmsr_efer, mov_cr0
<1>8. CASE (\E s \in Sections : RemapUser(s) \/ remap_linear_range(s) \/ remap_fails(s))
           /\ UNCHANGED <<x86, pointers, physmap>>
    BY <1>5, <1>8, NamesAre, SectionsIn DEF RemapUser, remap_linear_range, remap_fails
<1>9. CASE (remap_gdt \/ unmap_null) /\ UNCHANGED <<x86, pointers, physmap>>
    BY <1>5, <1>9, NamesAre DEF remap_gdt, unmap_null
<1>10. CASE setup_pv_console \/ setup_xenbus \/ map_shared_info
    BY <1>5, <1>10, NamesAre DEF setup_pv_console, setup_xenbus, map_shared_info, cpuidVars
<1> QED BY <1>3, <1>6, <1>7, <1>8, <1>9, <1>10, EffectsAre

\* No processor has basic leaves from 0x10000 on.
BasicLeavesAreBasic == \A l \in MaxLeaves : l[1] = 0

\* Each word comes from where it is documented to, but for one.
LEMMA WordsAre ==
    ASSUME NEW w \in 0..(FSCAPINTS - 1), w # FEATURESET_Da1
    PROVE  /\ cpuid_fn(w) = Documented[w]
           /\ \E n \in Nat : cpuid_fn(w)[1] \in {Basic(n), Extended(n)}
<1>1. /\ FEATURESET_1d = 0 /\ FEATURESET_1c = 1 /\ FEATURESET_e1d = 2 /\ FEATURESET_e1c = 3
      /\ FEATURESET_Da1 = 4 /\ FEATURESET_7b0 = 5 /\ FEATURESET_7c0 = 6 /\ FEATURESET_e7d = 7
      /\ FEATURESET_e8b = 8 /\ FEATURESET_7d0 = 9
    BY DEF FEATURESET_1d, FEATURESET_1c, FEATURESET_e1d, FEATURESET_e1c, FEATURESET_Da1,
           FEATURESET_7b0, FEATURESET_7c0, FEATURESET_e7d, FEATURESET_e8b, FEATURESET_7d0
<1>2. w \in {0, 1, 2, 3, 5, 6, 7, 8, 9} /\ w \in 0..(FSCAPINTS - 1)
    BY DEF FSCAPINTS, FEATURESET_7d0, FEATURESET_Da1
<1>3. /\ 1 # 0
      /\ 2 # 0 /\ 2 # 1
      /\ 3 # 0 /\ 3 # 1 /\ 3 # 2
      /\ 4 # 0 /\ 4 # 1 /\ 4 # 2 /\ 4 # 3
      /\ 5 # 0 /\ 5 # 1 /\ 5 # 2 /\ 5 # 3 /\ 5 # 4
      /\ 6 # 0 /\ 6 # 1 /\ 6 # 2 /\ 6 # 3 /\ 6 # 4 /\ 6 # 5
      /\ 7 # 0 /\ 7 # 1 /\ 7 # 2 /\ 7 # 3 /\ 7 # 4 /\ 7 # 5 /\ 7 # 6
      /\ 8 # 0 /\ 8 # 1 /\ 8 # 2 /\ 8 # 3 /\ 8 # 4 /\ 8 # 5 /\ 8 # 6 /\ 8 # 7
      /\ 9 # 0 /\ 9 # 1 /\ 9 # 2 /\ 9 # 3 /\ 9 # 4 /\ 9 # 5 /\ 9 # 6 /\ 9 # 7 /\ 9 # 8
    OBVIOUS
<1>4. 1 \in Nat /\ 7 \in Nat /\ 8 \in Nat
    OBVIOUS
<1>5. CASE w = 0
    <2>1. cpuid_fn(w) = <<Basic(1), 0, "edx">>
        BY <1>1, <1>3, <1>5, Zenon DEF cpuid_fn
    <2>2. Documented[w] = <<Basic(1), 0, "edx">>
        BY <1>2, <1>3, <1>5, Zenon DEF Documented
    <2>3. \E n \in Nat : cpuid_fn(w)[1] \in {Basic(n), Extended(n)}
        BY <2>1, <1>4
    <2> QED BY <2>1, <2>2, <2>3
<1>6. CASE w = 1
    <2>1. cpuid_fn(w) = <<Basic(1), 0, "ecx">>
        BY <1>1, <1>3, <1>6, Zenon DEF cpuid_fn
    <2>2. Documented[w] = <<Basic(1), 0, "ecx">>
        BY <1>2, <1>3, <1>6, Zenon DEF Documented
    <2>3. \E n \in Nat : cpuid_fn(w)[1] \in {Basic(n), Extended(n)}
        BY <2>1, <1>4
    <2> QED BY <2>1, <2>2, <2>3
<1>7. CASE w = 2
    <2>1. cpuid_fn(w) = <<Extended(1), 0, "edx">>
        BY <1>1, <1>3, <1>7, Zenon DEF cpuid_fn
    <2>2. Documented[w] = <<Extended(1), 0, "edx">>
        BY <1>2, <1>3, <1>7, Zenon DEF Documented
    <2>3. \E n \in Nat : cpuid_fn(w)[1] \in {Basic(n), Extended(n)}
        BY <2>1, <1>4
    <2> QED BY <2>1, <2>2, <2>3
<1>8. CASE w = 3
    <2>1. cpuid_fn(w) = <<Extended(1), 0, "ecx">>
        BY <1>1, <1>3, <1>8, Zenon DEF cpuid_fn
    <2>2. Documented[w] = <<Extended(1), 0, "ecx">>
        BY <1>2, <1>3, <1>8, Zenon DEF Documented
    <2>3. \E n \in Nat : cpuid_fn(w)[1] \in {Basic(n), Extended(n)}
        BY <2>1, <1>4
    <2> QED BY <2>1, <2>2, <2>3
<1>9. CASE w = 5
    <2>1. cpuid_fn(w) = <<Basic(7), 0, "ebx">>
        BY <1>1, <1>3, <1>9, Zenon DEF cpuid_fn
    <2>2. Documented[w] = <<Basic(7), 0, "ebx">>
        BY <1>2, <1>3, <1>9, Zenon DEF Documented
    <2>3. \E n \in Nat : cpuid_fn(w)[1] \in {Basic(n), Extended(n)}
        BY <2>1, <1>4
    <2> QED BY <2>1, <2>2, <2>3
<1>10. CASE w = 6
    <2>1. cpuid_fn(w) = <<Basic(7), 0, "ecx">>
        BY <1>1, <1>3, <1>10, Zenon DEF cpuid_fn
    <2>2. Documented[w] = <<Basic(7), 0, "ecx">>
        BY <1>2, <1>3, <1>10, Zenon DEF Documented
    <2>3. \E n \in Nat : cpuid_fn(w)[1] \in {Basic(n), Extended(n)}
        BY <2>1, <1>4
    <2> QED BY <2>1, <2>2, <2>3
<1>11. CASE w = 7
    <2>1. cpuid_fn(w) = <<Extended(7), 0, "edx">>
        BY <1>1, <1>3, <1>11, Zenon DEF cpuid_fn
    <2>2. Documented[w] = <<Extended(7), 0, "edx">>
        BY <1>2, <1>3, <1>11, Zenon DEF Documented
    <2>3. \E n \in Nat : cpuid_fn(w)[1] \in {Basic(n), Extended(n)}
        BY <2>1, <1>4
    <2> QED BY <2>1, <2>2, <2>3
<1>12. CASE w = 8
    <2>1. cpuid_fn(w) = <<Extended(8), 0, "ebx">>
        BY <1>1, <1>3, <1>12, Zenon DEF cpuid_fn
    <2>2. Documented[w] = <<Extended(8), 0, "ebx">>
        BY <1>2, <1>3, <1>12, Zenon DEF Documented
    <2>3. \E n \in Nat : cpuid_fn(w)[1] \in {Basic(n), Extended(n)}
        BY <2>1, <1>4
    <2> QED BY <2>1, <2>2, <2>3
<1>13. CASE w = 9
    <2>1. cpuid_fn(w) = <<Basic(7), 0, "edx">>
        BY <1>1, <1>3, <1>13, Zenon DEF cpuid_fn
    <2>2. Documented[w] = <<Basic(7), 0, "edx">>
        BY <1>2, <1>3, <1>13, Zenon DEF Documented
    <2>3. \E n \in Nat : cpuid_fn(w)[1] \in {Basic(n), Extended(n)}
        BY <2>1, <1>4
    <2> QED BY <2>1, <2>2, <2>3
<1> QED BY <1>2, <1>5, <1>6, <1>7, <1>8, <1>9, <1>10, <1>11, <1>12, <1>13

\* That is all that FeaturesAreTheCpus asks for.
LEMMA FeaturesFollow ==
    ASSUME BasicLeavesAreBasic, TodoInv, HostInv, CollectedInv
    PROVE  FeaturesAreTheCpus
<1> SUFFICES ASSUME state = "run" PROVE FeaturesAreTheCpus
    BY DEF FeaturesAreTheCpus
<1>1. Pending = {}
    <2>1. todo = <<>> /\ ToSet(<<>>) = {}
        BY RisingPieces DEF TodoInv
    <2> QED BY <2>1 DEF Pending
<1>2. /\ processor.max_leaf[1] = 0 /\ processor.max_leaf[2] \in Nat
      /\ processor.max_extd_leaf[1] \in Nat /\ processor.max_extd_leaf[2] \in Nat
      /\ processor.sizes.phys \in Nat
    <2>1. /\ processor.max_leaf \in MaxLeaves /\ processor.max_extd_leaf \in MaxExtdLeaves
          /\ processor.sizes \in Sizes
        BY DEF HostInv
    <2>2. processor.sizes \in [phys : 0..255, virt : 0..255]
        BY <2>1, CpuidAssumption
    <2>3. processor.sizes.phys \in 0..255
        BY <2>2
    <2> DEFINE top == 2^16 - 1
    <2>4. \A l \in MaxLeaves \union MaxExtdLeaves : l[1] \in 0..top /\ l[2] \in 0..top
        BY CpuidAssumption, Zenon
    <2> HIDE DEF top
    <2>5. /\ processor.max_leaf[2] \in 0..top
          /\ processor.max_extd_leaf[1] \in 0..top /\ processor.max_extd_leaf[2] \in 0..top
        BY <2>1, <2>4, Zenon
    <2>6. processor.max_leaf[1] = 0
        BY <2>1 DEF BasicLeavesAreBasic
    <2> QED BY <2>3, <2>5, <2>6
<1>3. \A n \in Nat : /\ Present(Basic(n)) <=> Has(Basic(n))
                     /\ Present(Extended(n)) <=> Has(Extended(n))
    BY <1>2 DEF Present, Has, AtLeast, Basic, Extended
<1>4. \A w \in 0..(FSCAPINTS - 1) :
          w # FEATURESET_Da1 => /\ cpuid_fn(w) = Documented[w]
                                /\ \E n \in Nat : cpuid_fn(w)[1] \in {Basic(n), Extended(n)}
    BY WordsAre
<1>5. \A w \in 0..(FSCAPINTS - 1) : w # FEATURESET_Da1 => WordIsTheCpus(w)
    <2> TAKE w \in 0..(FSCAPINTS - 1)
    <2> HAVE w # FEATURESET_Da1
    <2>1. x86.features[w] = IF Present(cpuid_fn(w)[1]) THEN cpuid_fn(w) ELSE NoWord
        BY <1>1 DEF CollectedInv, Collected
    <2>2. PICK n \in Nat : cpuid_fn(w)[1] \in {Basic(n), Extended(n)}
        BY <1>4
    <2>3. Present(cpuid_fn(w)[1]) <=> Has(cpuid_fn(w)[1])
        BY <1>3, <2>2, Zenon
    <2> QED BY <1>4, <2>1, <2>3, Zenon DEF WordIsTheCpus
<1>6. x86.maxphysaddr = IF Has(Extended(8)) /\ processor.sizes.phys # 0
                        THEN processor.sizes.phys ELSE 36
    BY <1>1, <1>2, <1>3 DEF CollectedInv, Or
<1> QED BY <1>5, <1>6 DEF FeaturesAreTheCpus

-----------------------------------------------------------------------------
(* Page tables and the registers for them.                                 *)

\* What the environments configure.
LEMMA BuildsAre ==
    ASSUME build \in Builds
    PROVE  \/ build = "hvm32" /\ ~CONFIG_PV /\ ~CONFIG_64BIT /\ CONFIG_PAGING_LEVELS = 0 /\ cr3_target = 0
           \/ /\ build = "hvm32pse" /\ ~CONFIG_PV /\ ~CONFIG_64BIT /\ CONFIG_PAGING_LEVELS = 2
              /\ cr3_target = Page.pse_l2_identmap
           \/ /\ build = "hvm32pae" /\ ~CONFIG_PV /\ ~CONFIG_64BIT /\ CONFIG_PAGING_LEVELS = 3
              /\ cr3_target = Page.pae32_l3_identmap
           \/ /\ build = "hvm64" /\ ~CONFIG_PV /\ CONFIG_64BIT /\ CONFIG_PAGING_LEVELS = 4
              /\ cr3_target = Page.pae_l4_identmap
           \/ build = "pv32pae" /\ CONFIG_PV /\ ~CONFIG_64BIT /\ CONFIG_PAGING_LEVELS = 3
           \/ build = "pv64" /\ CONFIG_PV /\ CONFIG_64BIT /\ CONFIG_PAGING_LEVELS = 4
<1>1. build \in {"hvm32", "hvm32pse", "hvm32pae", "hvm64", "pv32pae", "pv64"}
    BY BootAssumption
<1>2. 0 # 2 /\ 0 # 3 /\ 0 # 4 /\ 2 # 3 /\ 2 # 4 /\ 3 # 4
    OBVIOUS
<1>3. CASE build = "hvm32"
    <2>1. CONFIG_PAGING_LEVELS = 0
        BY <1>3, Zenon DEF CONFIG_PAGING_LEVELS
    <2>2. cr3_target = 0
        BY <1>2, <2>1, Zenon DEF cr3_target
    <2> QED BY <1>3, <2>1, <2>2 DEF CONFIG_PV, CONFIG_64BIT
<1>4. CASE build = "hvm32pse"
    <2>1. CONFIG_PAGING_LEVELS = 2
        BY <1>4, Zenon DEF CONFIG_PAGING_LEVELS
    <2>2. cr3_target = Page.pse_l2_identmap
        BY <1>2, <2>1, Zenon DEF cr3_target
    <2> QED BY <1>4, <2>1, <2>2 DEF CONFIG_PV, CONFIG_64BIT
<1>5. CASE build = "hvm32pae"
    <2>1. CONFIG_PAGING_LEVELS = 3
        BY <1>5, Zenon DEF CONFIG_PAGING_LEVELS
    <2>2. cr3_target = Page.pae32_l3_identmap
        BY <1>2, <2>1, Zenon DEF cr3_target
    <2> QED BY <1>5, <2>1, <2>2 DEF CONFIG_PV, CONFIG_64BIT
<1>6. CASE build = "hvm64"
    <2>1. CONFIG_PAGING_LEVELS = 4
        BY <1>6, Zenon DEF CONFIG_PAGING_LEVELS
    <2>2. cr3_target = Page.pae_l4_identmap
        BY <1>2, <2>1, Zenon DEF cr3_target
    <2> QED BY <1>6, <2>1, <2>2 DEF CONFIG_PV, CONFIG_64BIT
<1>7. CASE build = "pv32pae"
    <2>1. CONFIG_PAGING_LEVELS = 3
        BY <1>7, Zenon DEF CONFIG_PAGING_LEVELS
    <2> QED BY <1>7, <2>1 DEF CONFIG_PV, CONFIG_64BIT
<1>8. CASE build = "pv64"
    <2>1. CONFIG_PAGING_LEVELS = 4
        BY <1>8, Zenon DEF CONFIG_PAGING_LEVELS
    <2> QED BY <1>8, <2>1 DEF CONFIG_PV, CONFIG_64BIT
<1> QED BY <1>1, <1>3, <1>4, <1>5, <1>6, <1>7, <1>8

\* A build takes no steps of another.
BuildInv ==
    /\ ~CONFIG_PV => /\ "unmap_null" \notin Pending /\ "remap_gdt" \notin Pending
                     /\ "cr4" \in Pending => CONFIG_PAGING_LEVELS > 0
                     /\ "efer" \in Pending => CONFIG_64BIT
    /\ "console" \in Pending \/ "xenbus" \in Pending => ~host.initdomain

\* The configuration is that of the build, and steps are only taken off the list.
LEMMA BuildInvStep ==
    ASSUME TodoInv, BuildInv, [Next]_vars
    PROVE  BuildInv'
<1>1. UNCHANGED <<build, host>> /\ Pending' \subseteq Pending
    BY TodoInvStep
<1>2. CONFIG_PV' = CONFIG_PV /\ CONFIG_64BIT' = CONFIG_64BIT
    BY <1>1 DEF CONFIG_PV, CONFIG_64BIT
<1>3. CONFIG_PAGING_LEVELS' = CONFIG_PAGING_LEVELS
    BY <1>1, Zenon DEF CONFIG_PAGING_LEVELS
<1> QED BY <1>1, <1>2, <1>3 DEF BuildInv

\* The registers by which an HVM guest pages, as far as they are loaded.
PagingInv ==
    ~CONFIG_PV =>
        /\ vcpu.cr4 = IF CONFIG_PAGING_LEVELS = 0 \/ "cr4" \in Pending THEN {}
                      ELSE IF CONFIG_PAGING_LEVELS = 2 THEN {"PSE"} ELSE {"PAE"}
        /\ vcpu.cr3 = IF "cr3" \in Pending THEN 0 ELSE cr3_target
        /\ vcpu.efer = IF CONFIG_64BIT /\ "efer" \notin Pending THEN {"LME"} ELSE {}
        /\ vcpu.cr0 = IF "cr0" \in Pending THEN {}
                      ELSE {"WP"} \union (IF CONFIG_PAGING_LEVELS > 0 THEN {"PG"} ELSE {})

\* What is configured stays with the build.
LEMMA ConfigStays ==
    ASSUME UNCHANGED <<build>>
    PROVE  /\ CONFIG_PV' = CONFIG_PV /\ CONFIG_64BIT' = CONFIG_64BIT
           /\ CONFIG_PAGING_LEVELS' = CONFIG_PAGING_LEVELS /\ cr3_target' = cr3_target
<1>1. CONFIG_PV' = CONFIG_PV /\ CONFIG_64BIT' = CONFIG_64BIT
    BY DEF CONFIG_PV, CONFIG_64BIT
<1>2. CONFIG_PAGING_LEVELS' = CONFIG_PAGING_LEVELS
    BY Zenon DEF CONFIG_PAGING_LEVELS
<1>3. cr3_target' = cr3_target
    BY <1>2, Zenon DEF cr3_target
<1> QED BY <1>1, <1>2, <1>3

\* Each register is loaded in its step, and no other step touches it.
LEMMA PagingStep ==
    ASSUME TodoInv, VcpuOK, HostInv, BuildInv, PagingInv, [Next]_vars, state' \in {"boot", "run"}
    PROVE  PagingInv'
<1>1. Pending' \subseteq Pending /\ UNCHANGED <<build>>
    BY TodoInvStep
<1>2. /\ CONFIG_PV' = CONFIG_PV /\ CONFIG_64BIT' = CONFIG_64BIT
      /\ CONFIG_PAGING_LEVELS' = CONFIG_PAGING_LEVELS /\ cr3_target' = cr3_target
    BY <1>1, ConfigStays
<1>3. ASSUME \A t \in {"cr4", "cr3", "efer", "cr0"} : t \in Pending => t \in Pending',
             UNCHANGED <<vcpu.cr0, vcpu.cr3, vcpu.cr4, vcpu.efer>>
      PROVE  PagingInv'
    BY <1>1, <1>2, <1>3 DEF PagingInv
<1>4. ASSUME NEW s \in Names, s \notin {"cr4", "cr3", "efer", "cr0"}, Step(s), UNCHANGED vcpu
      PROVE  PagingInv'
    BY <1>3, <1>4, TodoInvStep
<1>5. CASE Untouched /\ \A t \in Names \ Others : t \in Pending => t \in Pending'
    BY <1>3, <1>5, NamesAre DEF Untouched, Others
<1>6. CASE Collect
    BY <1>4, <1>6, NamesAre DEF Collect, collect_cpuid
<1>7. CASE (\E s \in Sections : RemapUser(s) \/ remap_linear_range(s) \/ remap_fails(s))
    BY <1>4, <1>7, NamesAre, SectionsIn DEF RemapUser, remap_linear_range, remap_fails
<1>8. CASE remap_gdt \/ unmap_null
    BY <1>4, <1>8, NamesAre DEF remap_gdt, unmap_null
<1>9. CASE setup_pv_console \/ setup_xenbus \/ map_shared_info
    BY <1>4, <1>9, NamesAre DEF setup_pv_console, setup_xenbus, map_shared_info
<1>10. {"cr4", "cr3", "efer", "cr0"} \subseteq Names
    BY NamesAre
<1>11. CASE mov_cr4
    <2>1. "cr4" \in Pending /\ Pending' = Pending \ {"cr4"}
        BY <1>10, <1>11, TodoInvStep DEF mov_cr4
    <2>2. /\ vcpu'.cr4 = IF CONFIG_PAGING_LEVELS = 2 THEN {"PSE"} ELSE {"PAE"}
          /\ UNCHANGED <<vcpu.cr0, vcpu.cr3, vcpu.efer>>
        BY <1>11 DEF mov_cr4, VcpuOK
    <2>3. ~CONFIG_PV => CONFIG_PAGING_LEVELS # 0
        BY <2>1 DEF BuildInv
    <2> QED BY <1>2, <2>1, <2>2, <2>3 DEF PagingInv
<1>12. CASE mov_cr3
    <2>1. "cr3" \in Pending /\ Pending' = Pending \ {"cr3"}
        BY <1>10, <1>12, TodoInvStep DEF mov_cr3
    <2>2. vcpu'.cr3 = cr3_target /\ UNCHANGED <<vcpu.cr0, vcpu.cr4, vcpu.efer>>
        BY <1>12 DEF mov_cr3, VcpuOK
    <2> QED BY <1>2, <2>1, <2>2 DEF PagingInv
<1>13. CASE wrmsr_efer
    <2>1. "efer" \in Pending /\ Pending' = Pending \ {"efer"}
        BY <1>10, <1>13, TodoInvStep DEF wrmsr_efer
    <2>2. vcpu'.efer = {"LME"} /\ UNCHANGED <<vcpu.cr0, vcpu.cr3, vcpu.cr4>>
        BY <1>13 DEF wrmsr_efer, VcpuOK
    <2> QED BY <1>2, <2>1, <2>2 DEF PagingInv, BuildInv
<1>14. CASE mov_cr0
    <2>1. "cr0" \in Pending /\ Pending' = Pending \ {"cr0"}
        BY <1>10, <1>14, TodoInvStep DEF mov_cr0
    <2>2. /\ vcpu'.cr0 = {"WP"} \union (IF CONFIG_PAGING_LEVELS > 0 THEN {"PG"} ELSE {})
          /\ UNCHANGED <<vcpu.cr4, vcpu.cr3, vcpu.efer>>
        BY <1>14 DEF mov_cr0, VcpuOK
    <2> QED BY <1>2, <2>1, <2>2 DEF PagingInv
<1> QED BY <1>5, <1>6, <1>7, <1>8, <1>9, <1>11, <1>12, <1>13, <1>14, EffectsAre, Zenon

\* The level 1 entries of an HVM guest.
HvmPagesInv ==
    ~CONFIG_PV =>
        /\ DOMAIN l1e = {0} \union Image
        /\ \A p \in DOMAIN l1e :
              l1e[p] = IF p = 0 THEN NoPte
                       ELSE Pte(p, _PAGE_LEAF \union (IF p \in Remaps THEN {"U"} ELSE {}))

\* remap_user() marks the pages of one section, and nothing else maps.
LEMMA HvmPagesStep ==
    ASSUME TodoInv, VcpuOK, HostInv, BuildInv, HvmPagesInv, [Next]_vars, state' \in {"boot", "run"}
    PROVE  HvmPagesInv'
<1> SUFFICES ASSUME ~CONFIG_PV PROVE HvmPagesInv'
    BY TodoInvStep, ConfigStays DEF HvmPagesInv
<1>1. Pending' \subseteq Pending /\ CONFIG_PV' = CONFIG_PV
    BY TodoInvStep, ConfigStays
<1>2. ASSUME \A t \in Sections : t \in Pending => t \in Pending', UNCHANGED l1e
      PROVE  HvmPagesInv'
    <2>1. Remaps' = Remaps
        <3>1. Sections \ Pending' = Sections \ Pending
            BY <1>1, <1>2
        <3> QED BY <3>1 DEF Remaps
    <2> QED BY <1>1, <1>2, <2>1 DEF HvmPagesInv
<1>3. Sections = {"user_text", "user_data", "user_bss"} /\ Sections \subseteq Names
    BY SectionsIn, NamesAre
<1>4. ASSUME NEW s \in Names \ Sections, Step(s), UNCHANGED l1e
      PROVE  HvmPagesInv'
    BY <1>2, <1>4, TodoInvStep
<1>5. CASE Untouched /\ \A t \in Names \ Others : t \in Pending => t \in Pending'
    BY <1>2, <1>3, <1>5 DEF Untouched, Others
<1>6. CASE Collect
    <2>1. Step("cpuid") /\ UNCHANGED l1e
        BY <1>6 DEF Collect
    <2> QED BY <1>3, <1>4, <2>1, NamesAre
<1>7. CASE mov_cr4 \/ mov_cr3 \/ wrmsr_efer \/ mov_cr0
    BY <1>3, <1>4, <1>7, NamesAre DEF mov_cr4, mov_cr3, wrmsr_efer, mov_cr0
<1>8. CASE remap_gdt \/ unmap_null
    BY <1>8, TodoInvStep, NamesAre DEF remap_gdt, unmap_null, BuildInv
<1>9. CASE setup_pv_console \/ setup_xenbus \/ map_shared_info
    BY <1>3, <1>4, <1>9, NamesAre DEF setup_pv_console, setup_xenbus, map_shared_info
<1>10. ASSUME NEW s \in Sections, RemapUser(s)
       PROVE  HvmPagesInv'
    <2>1. s \in Pending /\ Pending' = Pending \ {s}
        BY <1>3, <1>10, TodoInvStep DEF RemapUser
    <2>2. Remaps' = Remaps \union PagesOf(s)
        <3>1. Sections \ Pending' = (Sections \ Pending) \union {s}
            BY <2>1
        <3> QED BY <3>1 DEF Remaps
    <2>3. l1e' = [p \in DOMAIN l1e |-> IF p \in PagesOf(s) THEN Pte(l1e[p].page, l1e[p].flags \union {"U"})
                                       ELSE l1e[p]]
        BY <1>10 DEF RemapUser, remap_user
    <2>4. 0 \notin PagesOf(s)
        BY SectionsIn
    <2> SUFFICES ASSUME NEW p \in DOMAIN l1e
                 PROVE  l1e'[p] = IF p = 0 THEN NoPte
                                  ELSE Pte(p, _PAGE_LEAF \union (IF p \in Remaps' THEN {"U"} ELSE {}))
        BY <1>1, <2>3 DEF HvmPagesInv
    <2>5. CASE p \notin PagesOf(s)
        BY <2>2, <2>3, <2>5 DEF HvmPagesInv
    <2>6. CASE p \in PagesOf(s)
        <3>1. l1e[p] = Pte(p, _PAGE_LEAF \union (IF p \in Remaps THEN {"U"} ELSE {})) /\ p # 0
            BY <2>4, <2>6 DEF HvmPagesInv
        <3>2. l1e[p].page = p /\ l1e[p].flags \union {"U"} = _PAGE_LEAF \union {"U"}
            BY <3>1 DEF Pte
        <3> QED BY <2>2, <2>3, <2>6, <3>1, <3>2
    <2> QED BY <2>5, <2>6
<1>11. ASSUME NEW s \in Sections
       PROVE  ~remap_linear_range(s) /\ ~remap_fails(s)
    BY DEF remap_linear_range, remap_fails
<1> QED BY <1>5, <1>6, <1>7, <1>8, <1>9, <1>10, <1>11, EffectsAre, Zenon

\* The level 1 entries of a PV guest.
PvPagesInv ==
    CONFIG_PV =>
        /\ DOMAIN l1e = DOMAIN mfn_list
        /\ \A p \in DOMAIN mfn_list :
              /\ p \notin {0, Page.shared_info} => l1e[p].page = mfn_list[p]
              /\ "U" \in l1e[p].flags => CONFIG_64BIT \/ p \in UserPages
        /\ \A p \in Image :
              /\ "P" \in l1e[p].flags
              /\ "RW" \in l1e[p].flags <=> ~(p = Page.gdt /\ "remap_gdt" \notin Pending)
        /\ "shared_info" \notin Pending => l1e[Page.shared_info].page = SpecialPages.shared_info

\* Mapping pages anew, with the flags of a user section.
LEMMA PvRemaps ==
    ASSUME CONFIG_PV, PvPagesInv, NEW pages, pages \subseteq UserPages,
           l1e' = [p \in DOMAIN l1e |->
                     IF p \in pages THEN pte_from_virt(p, {"A", "D", "U", "RW", "P"}) ELSE l1e[p]],
           CONFIG_PV' = CONFIG_PV, CONFIG_64BIT' = CONFIG_64BIT,
           \A t \in {"remap_gdt", "shared_info"} : t \in Pending' <=> t \in Pending
    PROVE  PvPagesInv'
<1>1. DOMAIN l1e = DOMAIN mfn_list /\ DOMAIN l1e' = DOMAIN mfn_list
    BY DEF PvPagesInv
<1>2. Image \subseteq DOMAIN mfn_list /\ \A p \in DOMAIN mfn_list : mfn_list[p] \in Nat
    BY BootAssumption
<1>3. /\ pages \subseteq Image /\ Page.gdt \notin pages /\ Page.shared_info \notin pages
      /\ Page.shared_info \in Image
    BY SectionsIn
<1> DEFINE flags == {"A", "D", "U", "RW", "P"}
<1>4. \A p \in pages : l1e'[p] = [page |-> mfn_list[p], flags |-> flags]
    BY <1>1, <1>2, <1>3 DEF pte_from_virt, virt_to_gfn, pfn_to_mfn, Pte
<1>5. \A p \in DOMAIN mfn_list \ pages : l1e'[p] = l1e[p]
    BY <1>1
<1>11. "RW" \in flags /\ "P" \in flags
    BY DEF flags
<1> HIDE DEF UserPages, flags, Image
<1>6. \A p \in pages : l1e'[p].page = mfn_list[p] /\ l1e'[p].flags = flags
    <2> TAKE p \in pages
    <2>1. l1e'[p] = [page |-> mfn_list[p], flags |-> flags]
        BY <1>4
    <2> QED BY <2>1
<1>8. \A p \in DOMAIN mfn_list :
          /\ p \notin {0, Page.shared_info} => l1e'[p].page = mfn_list[p]
          /\ "U" \in l1e'[p].flags => CONFIG_64BIT \/ p \in UserPages
    <2> TAKE p \in DOMAIN mfn_list
    <2>1. CASE p \in pages
        BY <1>6, <2>1
    <2>2. CASE p \notin pages
        BY <1>5, <2>2 DEF PvPagesInv
    <2> QED BY <2>1, <2>2
<1>9. \A p \in Image :
          /\ "P" \in l1e'[p].flags
          /\ "RW" \in l1e'[p].flags <=> ~(p = Page.gdt /\ "remap_gdt" \notin Pending')
    <2> TAKE p \in Image
    <2>1. CASE p \in pages
        BY <1>3, <1>6, <1>11, <2>1
    <2>2. CASE p \notin pages
        BY <1>2, <1>5, <2>2 DEF PvPagesInv
    <2> QED BY <2>1, <2>2
<1>10. "shared_info" \notin Pending' => l1e'[Page.shared_info].page = SpecialPages.shared_info
    BY <1>2, <1>3, <1>5 DEF PvPagesInv
<1> QED BY <1>1, <1>8, <1>9, <1>10 DEF PvPagesInv

\* The hypercalls that map: the user sections, of which any part may fail to be
\* remapped, gdt[], page 0 and shared_info.
LEMMA PvPagesStep ==
    ASSUME TodoInv, VcpuOK, HostInv, BuildInv, PvPagesInv, [Next]_vars, state' \in {"boot", "run"}
    PROVE  PvPagesInv'
<1>1. Pending' \subseteq Pending /\ CONFIG_PV' = CONFIG_PV /\ CONFIG_64BIT' = CONFIG_64BIT
    BY TodoInvStep, ConfigStays
<1> SUFFICES ASSUME CONFIG_PV PROVE PvPagesInv'
    BY <1>1 DEF PvPagesInv
<1>2. ASSUME \A t \in {"remap_gdt", "shared_info"} : t \in Pending => t \in Pending', UNCHANGED l1e
      PROVE  PvPagesInv'
    BY <1>1, <1>2 DEF PvPagesInv
<1>3. ASSUME NEW s \in Names \ {"remap_gdt", "shared_info"}, Step(s), UNCHANGED l1e
      PROVE  PvPagesInv'
    BY <1>2, <1>3, TodoInvStep
<1>4. CASE Untouched /\ \A t \in Names \ Others : t \in Pending => t \in Pending'
    BY <1>2, <1>4, NamesAre DEF Untouched, Others
<1>5. CASE Collect
    BY <1>3, <1>5, NamesAre DEF Collect
<1>6. CASE mov_cr4 \/ mov_cr3 \/ wrmsr_efer \/ mov_cr0
    BY <1>3, <1>6, NamesAre DEF mov_cr4, mov_cr3, wrmsr_efer, mov_cr0
<1>7. CASE setup_pv_console \/ setup_xenbus
    BY <1>3, <1>7, NamesAre DEF setup_pv_console, setup_xenbus
<1>8. ASSUME NEW s \in Sections, RemapUser(s)
      PROVE  PvPagesInv'
    BY <1>8 DEF RemapUser
<1>9. ASSUME NEW s \in Sections, remap_linear_range(s) \/ remap_fails(s)
      PROVE  PvPagesInv'
    <2>1. s \in Names /\ s \notin {"remap_gdt", "shared_info"} /\ PagesOf(s) \subseteq UserPages
        BY SectionsIn, NamesAre
    <2>2. \A t \in {"remap_gdt", "shared_info"} : t \in Pending' <=> t \in Pending
        BY <1>9, <2>1, TodoInvStep DEF remap_linear_range, remap_fails
    <2>3. PICK pages \in SUBSET PagesOf(s) : Remapped(pages, {"A", "D", "U", "RW", "P"})
        BY <1>9 DEF remap_linear_range, remap_fails
    <2>4. l1e' = [p \in DOMAIN l1e |->
                     IF p \in pages THEN pte_from_virt(p, {"A", "D", "U", "RW", "P"}) ELSE l1e[p]]
        BY <2>3 DEF Remapped
    <2>5. pages \subseteq UserPages
        BY <2>1
    <2> QED BY <1>1, <2>2, <2>4, <2>5, PvRemaps
<1>10. /\ DOMAIN l1e = DOMAIN mfn_list /\ Image \subseteq DOMAIN mfn_list /\ 0 \in DOMAIN mfn_list
       /\ \A p \in DOMAIN mfn_list : mfn_list[p] \in Nat
    BY BootAssumption DEF PvPagesInv
<1>11. /\ Page.gdt \in Image \ UserPages /\ Page.shared_info \in Image \ UserPages /\ 0 \notin Image
       /\ Page.gdt # Page.shared_info
    BY SectionsIn
<1> HIDE DEF Image, UserPages
<1>12. CASE remap_gdt
    <2> DEFINE flags == {"A", "D", "P"} \union (IF CONFIG_64BIT THEN {"U"} ELSE {})
    <2>1. l1e' = [l1e EXCEPT ![Page.gdt] = [page |-> mfn_list[Page.gdt], flags |-> flags]]
        BY <1>10, <1>11, <1>12 DEF remap_gdt, Remapped, pte_from_virt, virt_to_gfn, pfn_to_mfn, Pte, PvPagesInv
    <2>2. "remap_gdt" \in Pending /\ Pending' = Pending \ {"remap_gdt"}
        BY <1>12, TodoInvStep, NamesAre DEF remap_gdt
    <2>3. "RW" \notin flags /\ "P" \in flags /\ ("U" \in flags => CONFIG_64BIT)
        BY DEF flags
    <2> HIDE DEF flags
    <2>4. /\ DOMAIN l1e' = DOMAIN mfn_list
          /\ \A p \in DOMAIN mfn_list \ {Page.gdt} : l1e'[p] = l1e[p]
          /\ l1e'[Page.gdt].page = mfn_list[Page.gdt] /\ l1e'[Page.gdt].flags = flags
        BY <1>10, <1>11, <2>1, <2>3 DEF PvPagesInv
    <2>5. \A p \in DOMAIN mfn_list :
              /\ p \notin {0, Page.shared_info} => l1e'[p].page = mfn_list[p]
              /\ "U" \in l1e'[p].flags => CONFIG_64BIT \/ p \in UserPages
        BY <1>10, <1>11, <2>3, <2>4 DEF PvPagesInv
    <2>6. \A p \in Image :
              /\ "P" \in l1e'[p].flags
              /\ "RW" \in l1e'[p].flags <=> ~(p = Page.gdt /\ "remap_gdt" \notin Pending')
        BY <1>10, <1>11, <2>2, <2>3, <2>4 DEF PvPagesInv
    <2>7. "shared_info" \notin Pending' => l1e'[Page.shared_info].page = SpecialPages.shared_info
        BY <1>10, <1>11, <2>2, <2>4 DEF PvPagesInv
    <2> QED BY <1>1, <2>4, <2>5, <2>6, <2>7 DEF PvPagesInv
<1>13. CASE unmap_null
    <2>1. l1e' = [l1e EXCEPT ![0] = [page |-> 0, flags |-> {}]]
        BY <1>13 DEF unmap_null, NoPte, Pte
    <2>2. \A t \in {"remap_gdt", "shared_info"} : t \in Pending' <=> t \in Pending
        BY <1>13, TodoInvStep, NamesAre DEF unmap_null
    <2> QED BY <1>1, <1>10, <1>11, <2>1, <2>2 DEF PvPagesInv
<1>14. CASE map_shared_info
    <2> DEFINE flags == {"RW", "P"} \union (IF CONFIG_64BIT THEN {"U"} ELSE {})
    <2>1. l1e' = [l1e EXCEPT ![Page.shared_info] = [page |-> SpecialPages.shared_info, flags |-> flags]]
        BY <1>14 DEF map_shared_info, Pte
    <2>2. Pending' = Pending \ {"shared_info"}
        BY <1>14, TodoInvStep, NamesAre DEF map_shared_info
    <2>3. "RW" \in flags /\ "P" \in flags /\ ("U" \in flags => CONFIG_64BIT)
        BY DEF flags
    <2> HIDE DEF flags
    <2>4. /\ DOMAIN l1e' = DOMAIN mfn_list
          /\ \A p \in DOMAIN mfn_list \ {Page.shared_info} : l1e'[p] = l1e[p]
          /\ l1e'[Page.shared_info].page = SpecialPages.shared_info /\ l1e'[Page.shared_info].flags = flags
        BY <1>10, <1>11, <2>1, <2>3 DEF PvPagesInv
    <2>5. \A p \in DOMAIN mfn_list :
              /\ p \notin {0, Page.shared_info} => l1e'[p].page = mfn_list[p]
              /\ "U" \in l1e'[p].flags => CONFIG_64BIT \/ p \in UserPages
        BY <1>10, <1>11, <2>3, <2>4 DEF PvPagesInv
    <2>6. \A p \in Image :
              /\ "P" \in l1e'[p].flags
              /\ "RW" \in l1e'[p].flags <=> ~(p = Page.gdt /\ "remap_gdt" \notin Pending')
        BY <1>10, <1>11, <2>2, <2>3, <2>4 DEF PvPagesInv
    <2>7. "shared_info" \notin Pending' => l1e'[Page.shared_info].page = SpecialPages.shared_info
        BY <1>10, <1>11, <2>2, <2>4 DEF PvPagesInv
    <2> QED BY <1>1, <2>4, <2>5, <2>6, <2>7 DEF PvPagesInv
<1> QED BY <1>4, <1>5, <1>6, <1>7, <1>8, <1>9, <1>12, <1>13, <1>14, EffectsAre, Zenon

\* The NULL page of a PV guest.
NullInv == CONFIG_PV /\ "unmap_null" \notin Pending => l1e[0] = NoPte

\* Only unmap_null touches page 0, and nothing brings it back.
LEMMA NullStep ==
    ASSUME TodoInv, VcpuOK, HostInv, PvPagesInv, NullInv, [Next]_vars, state' \in {"boot", "run"}
    PROVE  NullInv'
<1>1. Pending' \subseteq Pending /\ CONFIG_PV' = CONFIG_PV
    BY TodoInvStep, ConfigStays
<1> SUFFICES ASSUME CONFIG_PV PROVE NullInv'
    BY <1>1 DEF NullInv
<1>2. ASSUME "unmap_null" \in Pending => "unmap_null" \in Pending', l1e'[0] = l1e[0]
      PROVE  NullInv'
    BY <1>1, <1>2 DEF NullInv
<1>3. ASSUME NEW s \in Names \ {"unmap_null"}, Step(s), l1e'[0] = l1e[0]
      PROVE  NullInv'
    BY <1>2, <1>3, TodoInvStep
<1>4. DOMAIN l1e = DOMAIN mfn_list /\ 0 \in DOMAIN mfn_list
    BY BootAssumption DEF PvPagesInv
<1>5. /\ 0 \notin Image /\ UserPages \subseteq Image /\ Page.gdt # 0 /\ Page.shared_info # 0
      /\ \A s \in Sections : PagesOf(s) \subseteq UserPages
    BY SectionsIn
<1>6. CASE Untouched /\ \A t \in Names \ Others : t \in Pending => t \in Pending'
    BY <1>2, <1>6, NamesAre DEF Untouched, Others
<1>7. CASE Collect
    BY <1>3, <1>7, NamesAre DEF Collect
<1>8. CASE mov_cr4 \/ mov_cr3 \/ wrmsr_efer \/ mov_cr0
    BY <1>3, <1>8, NamesAre DEF mov_cr4, mov_cr3, wrmsr_efer, mov_cr0
<1>9. CASE setup_pv_console \/ setup_xenbus
    BY <1>3, <1>9, NamesAre DEF setup_pv_console, setup_xenbus
<1>10. ASSUME NEW s \in Sections, RemapUser(s)
       PROVE  NullInv'
    BY <1>10 DEF RemapUser
<1> HIDE DEF Image, UserPages
<1>11. ASSUME NEW s \in Sections, remap_linear_range(s) \/ remap_fails(s)
       PROVE  NullInv'
    <2>1. s \in Names \ {"unmap_null"} /\ Step(s)
        BY <1>11, SectionsIn, NamesAre DEF remap_linear_range, remap_fails
    <2>2. PICK pages \in SUBSET PagesOf(s) : Remapped(pages, {"A", "D", "U", "RW", "P"})
        BY <1>11 DEF remap_linear_range, remap_fails
    <2>3. 0 \notin pages
        BY <1>5
    <2>4. l1e'[0] = l1e[0]
        BY <1>4, <2>2, <2>3 DEF Remapped
    <2> QED BY <1>3, <2>1, <2>4
<1>12. CASE remap_gdt
    <2>1. l1e'[0] = l1e[0]
        BY <1>4, <1>5, <1>12 DEF remap_gdt, Remapped
    <2> QED BY <1>3, <1>12, <2>1, NamesAre DEF remap_gdt
<1>13. CASE unmap_null
    <2>1. l1e'[0] = NoPte
        BY <1>4, <1>13 DEF unmap_null
    <2> QED BY <2>1 DEF NullInv
<1>14. CASE map_shared_info
    <2>1. l1e'[0] = l1e[0]
        BY <1>4, <1>5, <1>14 DEF map_shared_info
    <2> QED BY <1>3, <1>14, <2>1, NamesAre DEF map_shared_info
<1> QED BY <1>6, <1>7, <1>8, <1>9, <1>10, <1>11, <1>12, <1>13, <1>14, EffectsAre, Zenon

-----------------------------------------------------------------------------
(* What is shared, and the invariant.                                      *)

\* The pointers and the frame of what is shared so far.
SharedInv ==
    /\ pointers = [console |-> IF "console" \in Rings /\ "console" \notin Pending
                               THEN SpecialPages.console ELSE 0,
                   store |-> IF "store" \in Rings /\ "xenbus" \notin Pending
                             THEN SpecialPages.store ELSE 0]
    /\ physmap = IF ~CONFIG_PV /\ "shared_info" \notin Pending THEN Page.shared_info ELSE 0

\* Xen's frames lead back to the pages.
LEMMA FromXenIs ==
    FromXen(SpecialPages.console) = SpecialPages.console /\ FromXen(SpecialPages.store) = SpecialPages.store
<1>1. {SpecialPages.console, SpecialPages.store} \subseteq DOMAIN mfn_list
    BY SetupAssumption, Zenon
<1>2. \A p \in DOMAIN mfn_list : mfn_to_virt(mfn_list[p]) = p
    <2> TAKE p \in DOMAIN mfn_list
    <2>1. \A a, b \in DOMAIN mfn_list : mfn_list[a] = mfn_list[b] => a = b
        BY BootAssumption, Zenon DEF IsInjective
    <2>2. mfn_list[p] \in Range(mfn_list)
        BY DEF Range
    <2>3. m2p[mfn_list[p]] = CHOOSE s \in DOMAIN mfn_list :
                                 mfn_list[p] \in Range(mfn_list) => mfn_list[s] = mfn_list[p]
        BY <2>2 DEF m2p, AntiFunction, Inverse
    <2> DEFINE back == CHOOSE s \in DOMAIN mfn_list :
                           mfn_list[p] \in Range(mfn_list) => mfn_list[s] = mfn_list[p]
    <2>4. back \in DOMAIN mfn_list /\ mfn_list[back] = mfn_list[p]
        BY <2>2
    <2> QED BY <2>1, <2>3, <2>4 DEF mfn_to_virt
<1> QED BY <1>1, <1>2 DEF FromXen

\* Each pointer is set in its step.
LEMMA SharedStep ==
    ASSUME TodoInv, VcpuOK, HostInv, BuildInv, SharedInv, [Next]_vars, state' \in {"boot", "run"}
    PROVE  SharedInv'
<1>1. /\ Pending' \subseteq Pending /\ CONFIG_PV' = CONFIG_PV /\ Rings' = Rings
    BY TodoInvStep, ConfigStays DEF Rings
<1>2. ASSUME \A t \in {"console", "xenbus", "shared_info"} : t \in Pending => t \in Pending',
             UNCHANGED <<pointers, physmap>>
      PROVE  SharedInv'
    BY <1>1, <1>2 DEF SharedInv
<1>3. ASSUME NEW s \in Names \ {"console", "xenbus", "shared_info"}, Step(s), UNCHANGED <<pointers, physmap>>
      PROVE  SharedInv'
    BY <1>2, <1>3, TodoInvStep
<1>4. CASE Untouched /\ \A t \in Names \ Others : t \in Pending => t \in Pending'
    BY <1>2, <1>4, NamesAre DEF Untouched, Others
<1>5. CASE Collect /\ UNCHANGED <<pointers, physmap>>
    BY <1>3, <1>5, NamesAre DEF Collect
<1>6. CASE (mov_cr4 \/ mov_cr3 \/ wrmsr_efer \/ mov_cr0) /\ UNCHANGED <<x86, pointers, physmap>>
    BY <1>3, <1>6, NamesAre DEF mov_cr4, mov_cr3, wrmsr_efer, mov_cr0
<1>7. CASE (\E s \in Sections : RemapUser(s) \/ remap_linear_range(s) \/ remap_fails(s))
           /\ UNCHANGED <<x86, pointers, physmap>>
    BY <1>3, <1>7, NamesAre, SectionsIn DEF RemapUser, remap_linear_range, remap_fails
<1>8. CASE (remap_gdt \/ unmap_null) /\ UNCHANGED <<x86, pointers, physmap>>
    BY <1>3, <1>8, NamesAre DEF remap_gdt, unmap_null
<1>9. CASE setup_pv_console
    <2>1. "console" \in Pending /\ Pending' = Pending \ {"console"} /\ ~host.initdomain
        BY <1>9, TodoInvStep, NamesAre DEF setup_pv_console, BuildInv
    <2>2. "console" \in Rings <=> CONFIG_PV \/ host.console
        BY <2>1 DEF Rings
    <2>3. pointers' = IF "console" \in Rings THEN [pointers EXCEPT !.console = SpecialPages.console] ELSE pointers
        BY <1>9, <2>2, FromXenIs DEF setup_pv_console
    <2>4. UNCHANGED physmap
        BY <1>9 DEF setup_pv_console
    <2> QED BY <1>1, <2>1, <2>3, <2>4 DEF SharedInv
<1>10. CASE setup_xenbus
    <2>1. "xenbus" \in Pending /\ Pending' = Pending \ {"xenbus"} /\ ~host.initdomain
        BY <1>10, TodoInvStep, NamesAre DEF setup_xenbus, BuildInv
    <2>2. "store" \in Rings
        BY <2>1 DEF Rings
    <2>3. pointers' = [pointers EXCEPT !.store = SpecialPages.store] /\ UNCHANGED physmap
        BY <1>10, FromXenIs DEF setup_xenbus
    <2> QED BY <1>1, <2>1, <2>2, <2>3 DEF SharedInv
<1>11. CASE map_shared_info
    <2>1. "shared_info" \in Pending /\ Pending' = Pending \ {"shared_info"}
        BY <1>11, TodoInvStep, NamesAre DEF map_shared_info
    <2>2. /\ UNCHANGED pointers
          /\ CONFIG_PV => UNCHANGED physmap
          /\ ~CONFIG_PV => physmap' = Page.shared_info
        BY <1>11 DEF map_shared_info, virt_to_gfn
    <2> QED BY <1>1, <2>1, <2>2 DEF SharedInv
<1> QED BY <1>4, <1>5, <1>6, <1>7, <1>8, <1>9, <1>10, <1>11, EffectsAre, Zenon

\* The steps to come, and what those taken have set up, unless one has failed.
SetupInv ==
    /\ TodoInv /\ VcpuOK /\ HostInv /\ BuildInv
    /\ state \in {"boot", "run"} => CollectedInv /\ PagingInv /\ HvmPagesInv
                                  /\ PvPagesInv /\ NullInv /\ SharedInv

\* A microkernel starts with every step to come.
LEMMA SetupInvInit == Init => SetupInv
<1> SUFFICES ASSUME Init PROVE SetupInv
    OBVIOUS
<1>1. /\ TodoInv
      /\ Pending = ToSet(HeadSteps) \union {"cpuid", "sort"} \union ToSet(TrapSteps) \union ToSet(SetupSteps)
    BY TodoIs
<1>2. HostInv
    BY DEF Init, BootInit, CpuidInit, HostInv
<1>3. VcpuOK
    BY DEF Init, BootInit, VcpuOK
<1>4. BuildInv
    <2>1. ~CONFIG_PV => /\ "unmap_null" \notin Pending /\ "remap_gdt" \notin Pending
                        /\ "cr4" \in Pending => CONFIG_PAGING_LEVELS > 0
                        /\ "efer" \in Pending => CONFIG_64BIT
        BY <1>1, HeadIs, TrapsAre, SetupAre
    <2>2. ~CONFIG_PV /\ ("console" \in Pending \/ "xenbus" \in Pending) => ~host.initdomain
        BY <1>1, HeadIs, TrapsAre, SetupAre
    <2>3. CONFIG_PV /\ ("console" \in Pending \/ "xenbus" \in Pending) => ~host.initdomain
        BY <1>1, HeadIs, TrapsAre, SetupAre
    <2> QED BY <2>1, <2>2, <2>3 DEF BuildInv
<1>5. "cpuid" \in Pending /\ "shared_info" \in Pending /\ (~host.initdomain => {"console", "xenbus"} \subseteq Pending)
    BY <1>1, SetupAre
<1>6. CollectedInv
    BY <1>5 DEF CollectedInv
<1>7. PagingInv
    <2> SUFFICES ASSUME ~CONFIG_PV PROVE PagingInv
        BY DEF PagingInv
    <2>1. /\ CONFIG_PAGING_LEVELS > 0 => {"cr4", "cr3"} \subseteq Pending
          /\ CONFIG_64BIT => "efer" \in Pending
          /\ "cr0" \in Pending
        BY <1>1, HeadIs
    <2>2. CONFIG_PAGING_LEVELS > 0 \/ (CONFIG_PAGING_LEVELS = 0 /\ cr3_target = 0)
        BY <1>2, BuildsAre DEF HostInv
    <2>3. vcpu.cr4 = {} /\ vcpu.cr3 = 0 /\ vcpu.efer = {} /\ vcpu.cr0 = {}
        BY DEF Init, BootInit
    <2> QED BY <2>1, <2>2, <2>3 DEF PagingInv
<1>8. HvmPagesInv
    <2> SUFFICES ASSUME ~CONFIG_PV PROVE HvmPagesInv
        BY DEF HvmPagesInv
    <2>1. Sections \subseteq Pending
        BY <1>1, TrapsAre, SectionsIn
    <2>2. Remaps = {}
        BY <2>1 DEF Remaps
    <2>3. l1e = [p \in {0} \union Image |-> IF p = 0 THEN NoPte ELSE Pte(p, _PAGE_LEAF)]
        BY DEF Init, BootInit
    <2> QED BY <2>2, <2>3 DEF HvmPagesInv
<1>9. PvPagesInv
    <2> SUFFICES ASSUME CONFIG_PV PROVE PvPagesInv
        BY DEF PvPagesInv
    <2>1. "remap_gdt" \in Pending
        BY <1>1, TrapsAre
    <2> DEFINE flags == {"P", "RW", "A"} \union (IF CONFIG_64BIT THEN {"U"} ELSE {})
    <2>2. l1e = [p \in DOMAIN mfn_list |-> [page |-> mfn_list[p], flags |-> flags]]
        BY DEF Init, BootInit, Pte
    <2>3. "P" \in flags /\ "RW" \in flags /\ ("U" \in flags => CONFIG_64BIT)
        BY DEF flags
    <2>4. Image \subseteq DOMAIN mfn_list
        BY BootAssumption
    <2> HIDE DEF flags
    <2> QED BY <1>5, <2>1, <2>2, <2>3, <2>4 DEF PvPagesInv
<1>10. SharedInv
    <2>1. pointers = [console |-> 0, store |-> 0] /\ physmap = 0
        BY DEF Init
    <2>2. /\ "console" \in Rings => "console" \in Pending
          /\ "store" \in Rings => "xenbus" \in Pending
        BY <1>5 DEF Rings
    <2> QED BY <1>5, <2>1, <2>2 DEF SharedInv
<1>11. NullInv
    <2>1. CONFIG_PV => "unmap_null" \in Pending
        BY <1>1, TrapsAre
    <2> QED BY <2>1 DEF NullInv
<1> QED BY <1>1, <1>2, <1>3, <1>4, <1>6, <1>7, <1>8, <1>9, <1>10, <1>11 DEF SetupInv

\* No step drops a register.
LEMMA VcpuOKStep == ASSUME VcpuOK, [Next]_vars PROVE VcpuOK'
<1>1. CASE UNCHANGED vcpu
    BY <1>1 DEF VcpuOK
<1>2. CASE Head_S
    <2>1. CASE mov_cr4 \/ mov_cr3 \/ wrmsr_efer \/ mov_cr0
        BY <2>1 DEF mov_cr4, mov_cr3, wrmsr_efer, mov_cr0, VcpuOK
    <2>2. CASE lgdt \/ ljmp \/ load_segments
        BY <2>2 DEF lgdt, ljmp, load_segments, VcpuOK
    <2> QED BY <1>2, <2>1, <2>2 DEF Head_S, head
<1>3. CASE InitTraps
    <2>1. CASE init_idt \/ init_tss \/ set_gdt \/ stack_switch \/ new_user_baseptr
        BY <2>1 DEF init_idt, init_tss, set_gdt, stack_switch, new_user_baseptr, VcpuOK
    <2>2. CASE \E type \in {"event", "syscall", "syscall32", "sysenter"} : register_callback(type)
        BY <2>2 DEF register_callback, VcpuOK
    <2>3. CASE (\E s \in Sections : RemapUser(s) \/ remap_linear_range(s) \/ remap_fails(s))
        BY <1>1, <2>3 DEF RemapUser, remap_linear_range, remap_fails
    <2>4. CASE set_trap_table \/ remap_gdt \/ unmap_null \/ InitFails
        BY <1>1, <2>4 DEF set_trap_table, remap_gdt, unmap_null, InitFails
    <2> QED BY <1>3, <2>1, <2>2, <2>3, <2>4 DEF InitTraps, arch_init_traps
<1>4. CASE Collect \/ SortExtable \/ init_hypercalls \/ setup_pv_console \/ setup_xenbus
    BY <1>1, <1>4 DEF Collect, SortExtable, init_hypercalls, setup_pv_console, setup_xenbus
<1>5. CASE Fails("xenbus") \/ map_shared_info \/ Fails("shared_info") \/ SetupDone
    BY <1>1, <1>5 DEF Fails, map_shared_info, SetupDone
<1>6. CASE Faults \/ Dispatch
    BY <1>1, <1>6 DEF Faults, Dispatch, bootVars
<1>7. CASE Stopped \/ UNCHANGED vars
    <2>1. UNCHANGED bootVars
        BY <1>7 DEF vars, Stopped
    <2> QED BY <1>1, <2>1 DEF bootVars
<1> QED BY <1>2, <1>3, <1>4, <1>5, <1>6, <1>7 DEF Next, arch_setup

\* Every step keeps the invariant, part by part.
LEMMA SetupInvStep == SetupInv /\ [Next]_vars => SetupInv'
<1> SUFFICES ASSUME SetupInv, [Next]_vars PROVE SetupInv'
    OBVIOUS
<1>1. TodoInv /\ VcpuOK /\ HostInv /\ BuildInv
    BY DEF SetupInv
<1>2. TodoInv' /\ UNCHANGED <<build, host, processor>>
    BY <1>1, TodoInvStep
<1>3. VcpuOK' /\ BuildInv'
    BY <1>1, VcpuOKStep, BuildInvStep
<1>4. HostInv'
    BY <1>1, <1>2 DEF HostInv
<1>5. ASSUME state' \in {"boot", "run"}
      PROVE  CollectedInv' /\ PagingInv' /\ HvmPagesInv' /\ PvPagesInv' /\ NullInv' /\ SharedInv'
    <2>1. CollectedInv /\ PagingInv /\ HvmPagesInv /\ PvPagesInv /\ NullInv /\ SharedInv
        BY <1>1, <1>5, TodoInvStep DEF SetupInv
    <2> QED BY <1>1, <1>5, <2>1, CollectedStep, PagingStep, HvmPagesStep, PvPagesStep,
             NullStep, SharedStep
<1> QED BY <1>2, <1>3, <1>4, <1>5 DEF SetupInv

\* At every point of every boot what is set up is what the steps taken so far make
\* of it: the features, the paging registers, the page tables and what is shared.
THEOREM SetupInvariant == Spec => []SetupInv
<1> QED BY SetupInvInit, SetupInvStep, PTL DEF Spec

\* Once the test runs, each word of x86_features[] but one, and maxphysaddr, is
\* what the processor says, or what stands for a leaf that it does not have
\* (collect_cpuid()), on every processor whose highest basic leaf is a basic leaf.
THEOREM FeaturesAreKnown ==
    ASSUME BasicLeavesAreBasic
    PROVE  Spec => []FeaturesAreTheCpus
<1>1. SetupInv => FeaturesAreTheCpus
    <2> SUFFICES ASSUME SetupInv, state = "run" PROVE FeaturesAreTheCpus
        BY DEF FeaturesAreTheCpus
    <2> QED BY FeaturesFollow DEF SetupInv
<1> QED BY <1>1, SetupInvariant, PTL

-----------------------------------------------------------------------------
(* Walks through the page tables.                                          *)

\* Each table is found at its page.
LEMMA EntriesAre ==
    ASSUME NEW T, NEW i
    PROVE  /\ EntryOf(Page.pae_l4_identmap, i, T) = pae_l4_identmap(i)
           /\ EntryOf(Page.pae_l3_identmap, i, T) = pae_l3_identmap(i)
           /\ EntryOf(Page.pae32_l3_identmap, i, T) = pae32_l3_identmap(i)
           /\ \A k \in Nat : k < 4 => EntryOf(Page.pae_l2_identmap + k, i, T) = pae_l2_identmap(k * 512 + i)
           /\ EntryOf(Page.pae_l1_identmap, i, T) = IF i \in DOMAIN T THEN T[i] ELSE pae_l1_identmap(i)
           /\ EntryOf(Page.pse_l2_identmap, i, T) = pse_l2_identmap(i)
           /\ EntryOf(Page.pse_l1_identmap, i, T) = IF i \in DOMAIN T THEN T[i] ELSE pse_l1_identmap(i)
<1> DEFINE d == Page.data  l1 == Page.pae_l1_identmap  l2 == Page.pae_l2_identmap
           l3 == Page.pae_l3_identmap  l4 == Page.pae_l4_identmap  l32 == Page.pae32_l3_identmap
           s1 == Page.pse_l1_identmap  s2 == Page.pse_l2_identmap
<1>1. /\ d \in Nat /\ l32 = d /\ l1 = d + 1 /\ l2 = d + 2 /\ l3 = d + 6 /\ l4 = d + 7 /\ s1 = d + 8 /\ s2 = d + 9
    BY Layout
<1> DEFINE body(pg) ==
               CASE pg = l1 -> IF i \in DOMAIN T THEN T[i] ELSE pae_l1_identmap(i)
                 [] pg = s1 -> IF i \in DOMAIN T THEN T[i] ELSE pse_l1_identmap(i)
                 [] pg \in l2..(l2 + 3) -> pae_l2_identmap((pg - l2) * PAE_ENTRIES + i)
                 [] pg = l3 -> pae_l3_identmap(i)
                 [] pg = l4 -> pae_l4_identmap(i)
                 [] pg = l32 -> pae32_l3_identmap(i)
                 [] pg = s2 -> pse_l2_identmap(i)
                 [] OTHER -> NoPte
<1>2. \A pg : EntryOf(pg, i, T) = body(pg)
    BY ZenonT(60) DEF EntryOf
<1> HIDE DEF d, l1, l2, l3, l4, l32, s1, s2
<1>3. EntryOf(l4, i, T) = pae_l4_identmap(i)
    <2>1. l4 # l1 /\ l4 # s1 /\ l4 \notin l2..(l2 + 3) /\ l4 # l3 /\ l4 # l32 /\ l4 # s2
        BY <1>1
    <2> QED BY <1>2, <2>1, Zenon
<1>4. EntryOf(l3, i, T) = pae_l3_identmap(i)
    <2>1. l3 # l1 /\ l3 # s1 /\ l3 \notin l2..(l2 + 3) /\ l3 # l4 /\ l3 # l32 /\ l3 # s2
        BY <1>1
    <2> QED BY <1>2, <2>1, Zenon
<1>5. EntryOf(l32, i, T) = pae32_l3_identmap(i)
    <2>1. l32 # l1 /\ l32 # s1 /\ l32 \notin l2..(l2 + 3) /\ l32 # l4 /\ l32 # l3 /\ l32 # s2
        BY <1>1
    <2> QED BY <1>2, <2>1, Zenon
<1>6. \A k \in Nat : k < 4 => EntryOf(l2 + k, i, T) = pae_l2_identmap(k * 512 + i)
    <2> SUFFICES ASSUME NEW k \in Nat, k < 4 PROVE EntryOf(l2 + k, i, T) = pae_l2_identmap(k * 512 + i)
        OBVIOUS
    <2> DEFINE pg == l2 + k
    <2>1. pg # l1 /\ pg # s1 /\ pg \in l2..(l2 + 3) /\ pg # l3 /\ pg # l4 /\ pg # l32 /\ pg # s2
        BY <1>1
    <2>2. pg - l2 = k /\ PAE_ENTRIES = 512
        BY <1>1 DEF PAE_ENTRIES
    <2> HIDE DEF pg
    <2>3. EntryOf(pg, i, T) = pae_l2_identmap((pg - l2) * PAE_ENTRIES + i)
        BY <1>2, <2>1, Zenon
    <2>4. EntryOf(pg, i, T) = pae_l2_identmap(k * 512 + i)
        BY <2>2, <2>3
    <2> QED BY <2>4 DEF pg
<1>7. EntryOf(l1, i, T) = IF i \in DOMAIN T THEN T[i] ELSE pae_l1_identmap(i)
    <2>1. l1 # s1 /\ l1 \notin l2..(l2 + 3) /\ l1 # l4 /\ l1 # l3 /\ l1 # l32 /\ l1 # s2
        BY <1>1
    <2> QED BY <1>2, <2>1, Zenon
<1>8. EntryOf(s1, i, T) = IF i \in DOMAIN T THEN T[i] ELSE pse_l1_identmap(i)
    <2>1. s1 # l1 /\ s1 \notin l2..(l2 + 3) /\ s1 # l4 /\ s1 # l3 /\ s1 # l32 /\ s1 # s2
        BY <1>1
    <2> QED BY <1>2, <2>1, Zenon
<1>9. EntryOf(s2, i, T) = pse_l2_identmap(i)
    <2>1. s2 # l1 /\ s2 # s1 /\ s2 \notin l2..(l2 + 3) /\ s2 # l4 /\ s2 # l3 /\ s2 # l32
        BY <1>1
    <2> QED BY <1>2, <2>1, Zenon
<1> QED BY <1>3, <1>4, <1>5, <1>6, <1>7, <1>8, <1>9 DEF l1, l2, l3, l4, l32, s1, s2

\* What the processor makes of entry e of the last level, where the levels
\* above restrict nothing.
Entered(e) == IF "P" \in e.flags THEN Pte(e.page, {"P", "RW", "U"} \intersect e.flags) ELSE NoPte

\* Numbers of pages: those of the first 4G, and the gigabyte that page q is in.
Below4G(q) == q < 1048576
Gigabyte(q) == q \div 262144

\* The indices of page q below 4G.
LEMMA OffsetsAre ==
    ASSUME NEW q \in Nat, Below4G(q)
    PROVE  /\ table_offset(q, 4, 4) = 0
           /\ \A levels \in {3, 4} : table_offset(q, 3, levels) = Gigabyte(q) /\ Gigabyte(q) \in 0..3
           /\ \A levels \in {3, 4} : (Gigabyte(q)) * 512 + table_offset(q, 2, levels) = q \div 512
           /\ \A levels \in {3, 4} : q < 512 => table_offset(q, 1, levels) = q
           /\ table_offset(q, 2, 2) = q \div 1024
           /\ q < 1024 => table_offset(q, 1, 2) = q
<1>1. q \in Nat /\ q < 1048576
    BY SMT DEF Below4G
<1>2. PaeSpan[1] = 1 /\ PaeSpan[2] = 512 /\ PaeSpan[3] = 262144 /\ PaeSpan[4] = 134217728
      /\ PseSpan[1] = 1 /\ PseSpan[2] = 1024 /\ PAE_ENTRIES = 512 /\ PSE_ENTRIES = 1024
    BY SMT DEF PaeSpan, PseSpan, PAE_ENTRIES, PSE_ENTRIES
<1>3. (q \div 134217728) % 512 = 0
    BY <1>1, SMT
<1>4. (q \div 262144) % 512 = q \div 262144 /\ q \div 262144 \in 0..3
    BY <1>1, SMT
<1>5. (q \div 262144) * 512 + ((q \div 512) % 512) = q \div 512
    BY <1>1, SMT
<1>6. q < 512 => (q \div 1) % 512 = q
    BY <1>1, SMT
<1>7. (q \div 1024) % 1024 = q \div 1024
    BY <1>1, SMT
<1>8. q < 1024 => (q \div 1) % 1024 = q
    BY <1>1, SMT
<1>9. \A l : /\ table_offset(q, l, 2) = (q \div PseSpan[l]) % PSE_ENTRIES
             /\ \A levels \in {3, 4} : table_offset(q, l, levels) = (q \div PaeSpan[l]) % PAE_ENTRIES
    BY SMT DEF table_offset, pse_table_offset, pae_table_offset
<1> QED BY <1>2, <1>3, <1>4, <1>5, <1>6, <1>7, <1>8, <1>9, SMT DEF Gigabyte

\* What a walk allows at first.
All == {"P", "RW", "U"}

\* One level of the walk.
LEMMA FollowLast ==
    ASSUME NEW w, w.flags = All, NEW e, e.page \in Nat, NEW levels, NEW p \in Nat
    PROVE  LET ended == Follow(w, e, 1, levels, TRUE, p)
           IN  ended.leaf /\ Pte(ended.page, ended.flags) = Entered(e)
<1>1. Span(1, levels) = 1
    BY SMT DEF Span, PseSpan, PaeSpan
<1>2. p % 1 = 0 /\ e.page + 0 = e.page
    BY SMT
<1>3. CASE "P" \in e.flags
    <2>1. Follow(w, e, 1, levels, TRUE, p) =
              [page |-> e.page + (p % Span(1, levels)),
               flags |-> IF levels = 3 /\ 1 = 3 THEN w.flags ELSE All \intersect e.flags,
               leaf |-> TRUE]
        BY <1>3, Zenon DEF Follow
    <2>2. Follow(w, e, 1, levels, TRUE, p) =
              [page |-> e.page, flags |-> All \intersect e.flags, leaf |-> TRUE]
        <3>1. e.page + (p % Span(1, levels)) = e.page
            BY <1>1, <1>2, SMT
        <3>2. 1 # 3
            OBVIOUS
        <3> QED BY <2>1, <3>1, <3>2, Zenon
    <2>3. Entered(e) = Pte(e.page, All \intersect e.flags)
        BY <1>3, Zenon DEF Entered, All
    <2> DEFINE pg == e.page  flags == All \intersect e.flags
    <2> HIDE DEF pg, flags
    <2>4. LET ended == [page |-> pg, flags |-> flags, leaf |-> TRUE]
          IN  ended.leaf /\ ended.page = pg /\ ended.flags = flags
        OBVIOUS
    <2> QED BY <2>2, <2>3, <2>4, Zenon DEF pg, flags
<1>4. CASE "P" \notin e.flags
    <2>1. Follow(w, e, 1, levels, TRUE, p) = [page |-> 0, flags |-> {}, leaf |-> TRUE]
        BY <1>4, Zenon DEF Follow
    <2>2. LET ended == [page |-> 0, flags |-> {}, leaf |-> TRUE]
          IN  ended.leaf /\ ended.page = 0 /\ ended.flags = {}
        OBVIOUS
    <2> QED BY <1>4, <2>1, <2>2, Zenon DEF Entered, NoPte
<1> QED BY <1>3, <1>4

\* What page q leads to, with the level 1 entries T up to page width.
Found(T, q, width) ==
    IF q < width
    THEN Entered(IF q \in DOMAIN T THEN T[q] ELSE IF q = 0 THEN NoPte ELSE Pte(q, _PAGE_LEAF))
    ELSE Pte(q, {"P", "RW"})

\* One level, and the entry that the walk has at w.
Down(w, l, levels, T, q) ==
    IF w.leaf \/ l > levels THEN w
    ELSE Follow(w, EntryOf(w.page, table_offset(q, l, levels), T), l, levels, TRUE, q)

\* The walk with superpages.
Walked(top, levels, T, q) == Walk(top, levels, TRUE, T, q)

\* A walk that has reached the table in page pg.
At(pg) == [page |-> pg, flags |-> All, leaf |-> FALSE]

\* A walk is four times a level down.
LEMMA WalkDown ==
    ASSUME NEW top, NEW levels, NEW T, NEW q
    PROVE  LET ended == Down(Down(Down(Down(At(top), 4, levels, T, q), 3, levels, T, q), 2, levels, T, q),
                             1, levels, T, q)
           IN  Walked(top, levels, T, q) = Pte(ended.page, ended.flags)
BY Zenon DEF Walked, Walk, Down, At, All

\* A level that leads on.
LEMMA DownOn ==
    ASSUME NEW T, NEW q, NEW levels, NEW l, l # 1, ~(l > levels), NEW top, NEW pg, NEW flags,
           EntryOf(top, table_offset(q, l, levels), T) = Pte(pg, flags),
           flags = _PAGE_NONLEAF \/ (flags = {"P"} /\ levels = 3 /\ l = 3)
    PROVE  Down(At(top), l, levels, T, q) = At(pg)
<1> DEFINE w == At(top)
           e == Pte(pg, flags)
<1>1. w.page = top /\ w.flags = All /\ ~w.leaf
    BY DEF At
<1>2. "P" \in flags /\ "PSE" \notin flags
    BY DEF _PAGE_NONLEAF, _PAGE_LEAF
<1>3. flags = _PAGE_NONLEAF => All \intersect flags = All
    BY DEF _PAGE_NONLEAF, _PAGE_LEAF, All
<1>4. e.page = pg /\ e.flags = flags
    BY DEF Pte
<1> HIDE DEF w, e
<1>5. Down(w, l, levels, T, q) = Follow(w, e, l, levels, TRUE, q)
    BY <1>1, Zenon DEF Down, e
<1>6. Follow(w, e, l, levels, TRUE, q) = [page |-> pg, flags |-> All, leaf |-> FALSE]
    <2> DEFINE kept == IF levels = 3 /\ l = 3 THEN w.flags ELSE w.flags \intersect e.flags
    <2>1. kept = All
        BY <1>1, <1>3, <1>4
    <2>2. l # 1 /\ "P" \in e.flags /\ "PSE" \notin e.flags
        BY <1>2, <1>4
    <2> HIDE DEF kept
    <2>3. Follow(w, e, l, levels, TRUE, q) = [page |-> e.page, flags |-> kept, leaf |-> FALSE]
        BY <2>2, Zenon DEF Follow, kept
    <2> QED BY <1>4, <2>1, <2>3
<1> QED BY <1>5, <1>6 DEF At, w

\* The last level.
LEMMA DownLast ==
    ASSUME NEW T, NEW q \in Nat, NEW levels, ~(1 > levels), NEW top, NEW e, e.page \in Nat,
           EntryOf(top, table_offset(q, 1, levels), T) = e
    PROVE  LET ended == Down(At(top), 1, levels, T, q)
           IN  Pte(ended.page, ended.flags) = Entered(e)
<1> DEFINE w == At(top)
<1>1. w.page = top /\ w.flags = All /\ ~w.leaf
    BY DEF At
<1> HIDE DEF w
<1>2. Down(w, 1, levels, T, q) = Follow(w, e, 1, levels, TRUE, q)
    BY <1>1, Zenon DEF Down
<1>3. LET ended == Follow(w, e, 1, levels, TRUE, q)
      IN  ended.leaf /\ Pte(ended.page, ended.flags) = Entered(e)
    BY <1>1, FollowLast, Zenon
<1> QED BY <1>2, <1>3, Zenon DEF w

\* An entry of a superpage.
LEMMA FollowSuper ==
    ASSUME NEW w, w.flags = All, NEW e, "P" \in e.flags, "PSE" \in e.flags, NEW levels, NEW p
    PROVE  Follow(w, e, 2, levels, TRUE, p) =
               [page |-> e.page + (p % Span(2, levels)), flags |-> All \intersect e.flags, leaf |-> TRUE]
<1>1. 2 # 3
    OBVIOUS
<1>2. Follow(w, e, 2, levels, TRUE, p) =
          [page |-> e.page + (p % Span(2, levels)),
           flags |-> IF levels = 3 /\ 2 = 3 THEN w.flags ELSE w.flags \intersect e.flags,
           leaf |-> TRUE]
    BY Zenon DEF Follow
<1>3. (IF levels = 3 /\ 2 = 3 THEN w.flags ELSE w.flags \intersect e.flags) = All \intersect e.flags
    BY <1>1, Zenon
<1> QED BY <1>2, <1>3, Zenon

\* The walk goes no further.
LEMMA DownDone == ASSUME NEW w, w.leaf, NEW l, NEW levels, NEW T, NEW q PROVE Down(w, l, levels, T, q) = w
BY Zenon DEF Down

\* The entries of level 2.
LEMMA EntryOfLevel2 ==
    ASSUME NEW T, NEW i, NEW k \in Nat, k < 4
    PROVE  EntryOf(Page.pae_l2_identmap + k, i, T) = pae_l2_identmap(k * 512 + i)
<1>1. \A j \in Nat : j < 4 => EntryOf(Page.pae_l2_identmap + j, i, T) = pae_l2_identmap(j * 512 + i)
    BY EntriesAre, SMT
<1> QED BY <1>1

\* A superpage ends the walk.
LEMMA DownSuper ==
    ASSUME NEW T, NEW q \in Nat, NEW levels \in {2, 3, 4}, NEW top,
           EntryOf(top, table_offset(q, 2, levels), T)
              = IF levels = 2 THEN Pte((q \div 1024) * 1024, _PAGE_SUPER)
                ELSE Pte((q \div 512) * 512, _PAGE_SUPER)
    PROVE  LET ended == Down(Down(At(top), 2, levels, T, q), 1, levels, T, q)
           IN  Pte(ended.page, ended.flags) = Pte(q, {"P", "RW"})
<1> DEFINE w == At(top)
           span == IF levels = 2 THEN 1024 ELSE 512
           e == Pte((q \div span) * span, _PAGE_SUPER)
           x == Follow(w, e, 2, levels, TRUE, q)
<1>1. w.page = top /\ w.flags = All /\ ~w.leaf
    BY DEF At
<1>2. Span(2, levels) = span
    BY SMT DEF Span, PseSpan, PaeSpan
<1>3. ((q \div span) * span) + (q % span) = q
    <2>1. CASE levels = 2
        <3>1. ((q \div 1024) * 1024) + (q % 1024) = q
            BY SMT
        <3> QED BY <2>1, <3>1
    <2>2. CASE levels # 2
        <3>1. ((q \div 512) * 512) + (q % 512) = q
            BY SMT
        <3> QED BY <2>2, <3>1
    <2> QED BY <2>1, <2>2
<1>4. e.page = (q \div span) * span /\ e.flags = _PAGE_SUPER
    BY DEF Pte
<1>5. "P" \in _PAGE_SUPER /\ "PSE" \in _PAGE_SUPER /\ All \intersect _PAGE_SUPER = {"P", "RW"}
    BY DEF _PAGE_SUPER, _PAGE_LEAF, All
<1>6. ~(2 > levels) /\ EntryOf(top, table_offset(q, 2, levels), T) = e
    OBVIOUS
<1> HIDE DEF w, span, e
<1>7. Down(w, 2, levels, T, q) = x
    BY <1>1, <1>6, Zenon DEF Down
<1>8. x = [page |-> q, flags |-> {"P", "RW"}, leaf |-> TRUE]
    <2>1. "P" \in e.flags /\ "PSE" \in e.flags
        BY <1>4, <1>5
    <2>2. x = [page |-> e.page + (q % Span(2, levels)), flags |-> All \intersect e.flags, leaf |-> TRUE]
        BY <1>1, <2>1, FollowSuper, Zenon DEF x
    <2>3. e.page + (q % Span(2, levels)) = q
        BY <1>2, <1>3, <1>4
    <2> QED BY <1>4, <1>5, <2>2, <2>3, Zenon
<1> HIDE DEF x
<1>9. x.leaf /\ x.page = q /\ x.flags = {"P", "RW"}
    BY <1>8
<1>10. Down(x, 1, levels, T, q) = x
    BY <1>9, DownDone
<1>11. Down(Down(w, 2, levels, T, q), 1, levels, T, q) = x
    BY <1>7, <1>10, Zenon
<1>12. Pte(x.page, x.flags) = Pte(q, {"P", "RW"})
    BY <1>9
<1> QED BY <1>11, <1>12, Zenon DEF w

\* Down the two lowest levels of PAE.
PaeFinds(T, q, levels) ==
    LET ended == Down(Down(At(Page.pae_l2_identmap + (Gigabyte(q))), 2, levels, T, q), 1, levels, T, q)
    IN  Pte(ended.page, ended.flags) = Found(T, q, 512)

\* The pages of what T holds.
HasPages(T) == \A i \in DOMAIN T : T[i].page \in Nat

\* They lead to what T and the superpages have.
LEMMA PaeWalk ==
    ASSUME NEW T, HasPages(T), NEW q \in Nat, Below4G(q), NEW levels \in {3, 4}
    PROVE  PaeFinds(T, q, levels)
<1> SUFFICES LET ended == Down(Down(At(Page.pae_l2_identmap + (Gigabyte(q))), 2, levels, T, q), 1, levels, T, q)
             IN  Pte(ended.page, ended.flags) = Found(T, q, 512)
    BY Zenon DEF PaeFinds
<1> DEFINE i2 == table_offset(q, 2, levels)
           k == Gigabyte(q)
           top == Page.pae_l2_identmap + k
           l1 == Page.pae_l1_identmap
           e == IF q \in DOMAIN T THEN T[q] ELSE pae_l1_identmap(q)
<1>1. k \in 0..3 /\ k * 512 + i2 = q \div 512 /\ (q < 512 => table_offset(q, 1, levels) = q)
    BY OffsetsAre, SMT
<1>2. EntryOf(top, i2, T) = pae_l2_identmap(k * 512 + i2)
    <2>1. k \in Nat /\ k < 4
        BY <1>1
    <2> HIDE DEF i2, k
    <2> QED BY <2>1, EntryOfLevel2
<1>3. EntryOf(top, i2, T) = pae_l2_identmap(q \div 512)
    BY <1>1, <1>2, SMT
<1>4. EntryOf(l1, q, T) = e
    BY EntriesAre, SMT
<1>5. levels \in {2, 3, 4} /\ levels # 2 /\ 2 # 1 /\ ~(2 > levels) /\ ~(1 > levels)
    BY SMT
<1> HIDE DEF k, i2, l1
<1>6. CASE q < 512
    <2>1. q \div 512 = 0
        BY <1>6, SMT
    <2>2. EntryOf(top, i2, T) = Pte(l1, _PAGE_NONLEAF)
        BY <1>3, <2>1, SMT DEF pae_l2_identmap, l1
    <2>3. Down(At(top), 2, levels, T, q) = At(l1)
        <3> HIDE DEF top
        <3> QED BY <1>5, <2>2, DownOn, Zenon DEF i2
    <2>4. e.page \in Nat /\ e = IF q \in DOMAIN T THEN T[q] ELSE IF q = 0 THEN NoPte ELSE Pte(q, _PAGE_LEAF)
        BY SMT DEF HasPages, pae_l1_identmap, NoPte, Pte
    <2>5. EntryOf(l1, table_offset(q, 1, levels), T) = e
        BY <1>1, <1>4, <1>6, SMT
    <2> HIDE DEF e, top
    <2>6. LET ended == Down(At(l1), 1, levels, T, q)
          IN  Pte(ended.page, ended.flags) = Entered(e)
        BY <1>5, <2>4, <2>5, DownLast
    <2>7. Found(T, q, 512) = Entered(e)
        BY <1>6, <2>4, Zenon DEF Found
    <2> QED BY <2>3, <2>6, <2>7, Zenon DEF top, k
<1>7. CASE ~(q < 512)
    <2>1. q \div 512 # 0 /\ PaeSpan[2] = 512
        BY <1>7, SMT DEF PaeSpan
    <2>2. EntryOf(top, i2, T) = Pte((q \div 512) * 512, _PAGE_SUPER)
        BY <1>3, <2>1, SMT DEF pae_l2_identmap
    <2>3. EntryOf(top, i2, T) = IF levels = 2 THEN Pte((q \div 1024) * 1024, _PAGE_SUPER)
                                ELSE Pte((q \div 512) * 512, _PAGE_SUPER)
        BY <1>5, <2>2
    <2> HIDE DEF top, e
    <2>4. LET ended == Down(Down(At(top), 2, levels, T, q), 1, levels, T, q)
          IN  Pte(ended.page, ended.flags) = Pte(q, {"P", "RW"})
        <3>1. EntryOf(top, table_offset(q, 2, levels), T)
                  = IF levels = 2 THEN Pte((q \div 1024) * 1024, _PAGE_SUPER)
                    ELSE Pte((q \div 512) * 512, _PAGE_SUPER)
            BY <2>3, Zenon DEF i2
        <3> QED BY <1>5, <3>1, DownSuper
    <2> QED BY <1>7, <2>4, Zenon DEF top, k, Found
<1> QED BY <1>6, <1>7, Zenon

\* The tables of PSE have a level less.
LEMMA PseWalk ==
    ASSUME NEW T, HasPages(T), NEW q \in Nat, Below4G(q)
    PROVE  LET ended == Down(Down(At(Page.pse_l2_identmap), 2, 2, T, q), 1, 2, T, q)
           IN  Pte(ended.page, ended.flags) = Found(T, q, 1024)
<1> DEFINE i2 == table_offset(q, 2, 2)
           top == Page.pse_l2_identmap
           l1 == Page.pse_l1_identmap
           e == IF q \in DOMAIN T THEN T[q] ELSE pse_l1_identmap(q)
           there == Found(T, q, 1024)
<1> SUFFICES LET ended == Down(Down(At(top), 2, 2, T, q), 1, 2, T, q)
             IN  Pte(ended.page, ended.flags) = there
    OBVIOUS
<1> HIDE DEF there
<1>1. i2 = q \div 1024 /\ (q < 1024 => table_offset(q, 1, 2) = q)
    BY OffsetsAre, SMT
<1>2. EntryOf(top, i2, T) = pse_l2_identmap(i2)
    <2> HIDE DEF i2
    <2> QED BY EntriesAre, SMT
<1>3. EntryOf(top, i2, T) = pse_l2_identmap(q \div 1024)
    BY <1>1, <1>2, SMT
<1>4. EntryOf(l1, q, T) = e
    BY EntriesAre, SMT
<1>5. 2 \in {2, 3, 4} /\ 2 # 1 /\ ~(2 > 2) /\ ~(1 > 2)
    BY SMT
<1> HIDE DEF i2, l1
<1>6. CASE q < 1024
    <2>1. q \div 1024 = 0
        BY <1>6, SMT
    <2>2. EntryOf(top, i2, T) = Pte(l1, _PAGE_NONLEAF)
        BY <1>3, <2>1, SMT DEF pse_l2_identmap, l1
    <2>3. Down(At(top), 2, 2, T, q) = At(l1)
        <3> HIDE DEF top
        <3> QED BY <1>5, <2>2, DownOn, Zenon DEF i2
    <2>4. e.page \in Nat /\ e = IF q \in DOMAIN T THEN T[q] ELSE IF q = 0 THEN NoPte ELSE Pte(q, _PAGE_LEAF)
        BY SMT DEF HasPages, pse_l1_identmap, NoPte, Pte
    <2>5. EntryOf(l1, table_offset(q, 1, 2), T) = e
        BY <1>1, <1>4, <1>6, SMT
    <2> HIDE DEF e, top
    <2>6. LET ended == Down(At(l1), 1, 2, T, q)
          IN  Pte(ended.page, ended.flags) = Entered(e)
        BY <1>5, <2>4, <2>5, DownLast
    <2>7. there = Entered(e)
        BY <1>6, <2>4, SMT DEF Found, there
    <2> QED BY <2>3, <2>6, <2>7, Zenon
<1>7. CASE ~(q < 1024)
    <2>1. q \div 1024 # 0 /\ PseSpan[2] = 1024
        BY <1>7, SMT DEF PseSpan
    <2>2. EntryOf(top, i2, T) = Pte((q \div 1024) * 1024, _PAGE_SUPER)
        BY <1>3, <2>1, SMT DEF pse_l2_identmap
    <2>3. EntryOf(top, table_offset(q, 2, 2), T) = IF 2 = 2 THEN Pte((q \div 1024) * 1024, _PAGE_SUPER)
                                ELSE Pte((q \div 512) * 512, _PAGE_SUPER)
        BY <2>2 DEF i2
    <2> HIDE DEF top, e
    <2>4. LET ended == Down(Down(At(top), 2, 2, T, q), 1, 2, T, q)
          IN  Pte(ended.page, ended.flags) = Pte(q, {"P", "RW"})
        BY <1>5, <2>3, DownSuper
    <2>5. there = Pte(q, {"P", "RW"})
        BY <1>7, SMT DEF Found, there
    <2> QED BY <2>4, <2>5, Zenon
<1> QED BY <1>6, <1>7

\* A level that the tables do not have.
LEMMA DownSkips == ASSUME NEW w, NEW l, NEW levels, l > levels, NEW T, NEW q PROVE Down(w, l, levels, T, q) = w
BY Zenon DEF Down

\* What the processor finds from the top of each set of tables.
LEMMA WalkIs ==
    ASSUME NEW T, HasPages(T), NEW q \in Nat, Below4G(q)
    PROVE  /\ Walked(Page.pse_l2_identmap, 2, T, q) = Found(T, q, 1024)
           /\ Walked(Page.pae32_l3_identmap, 3, T, q) = Found(T, q, 512)
           /\ Walked(Page.pae_l4_identmap, 4, T, q) = Found(T, q, 512)
<1> DEFINE g == Gigabyte(q)
           l2 == Page.pae_l2_identmap
<1>0. 4 > 2 /\ 3 > 2 /\ 4 > 3 /\ 3 # 1 /\ 4 # 1 /\ ~(3 > 3) /\ ~(3 > 4) /\ ~(4 > 4) /\ 3 \in {3, 4} /\ 4 \in {3, 4}
    BY SMT
<1>5. PaeFinds(T, q, 3) /\ PaeFinds(T, q, 4)
    BY <1>0, PaeWalk
<1>1. Walked(Page.pse_l2_identmap, 2, T, q) = Found(T, q, 1024)
    <2> DEFINE w == At(Page.pse_l2_identmap)
               there == Found(T, q, 1024)
    <2>1. Down(w, 4, 2, T, q) = w
        BY <1>0, DownSkips
    <2>2. Down(w, 3, 2, T, q) = w
        BY <1>0, DownSkips
    <2>3. LET ended == Down(Down(w, 2, 2, T, q), 1, 2, T, q)
          IN  Pte(ended.page, ended.flags) = there
        BY PseWalk
    <2>4. LET ended == Down(Down(Down(Down(w, 4, 2, T, q), 3, 2, T, q), 2, 2, T, q), 1, 2, T, q)
          IN  Walked(Page.pse_l2_identmap, 2, T, q) = Pte(ended.page, ended.flags)
        BY WalkDown
    <2> HIDE DEF w, there
    <2>5. Down(Down(w, 4, 2, T, q), 3, 2, T, q) = w
        BY <2>1, <2>2
    <2>6. Walked(Page.pse_l2_identmap, 2, T, q) = there
        BY <2>3, <2>4, <2>5, Zenon
    <2> QED BY <2>6 DEF there
<1>2. g \in 0..3 /\ g < 4 /\ table_offset(q, 3, 3) = g /\ table_offset(q, 3, 4) = g /\ table_offset(q, 4, 4) = 0
    BY OffsetsAre, SMT
<1> HIDE DEF g
<1>3. Walked(Page.pae32_l3_identmap, 3, T, q) = Found(T, q, 512)
    <2> DEFINE top == Page.pae32_l3_identmap
               w == At(top)
               x == At(l2 + g)
    <2>1. Down(w, 4, 3, T, q) = w
        BY <1>0, DownSkips
    <2>2. EntryOf(top, g, T) = Pte(l2 + g, {"P"})
        <3>1. EntryOf(top, g, T) = pae32_l3_identmap(g)
            BY EntriesAre, SMT
        <3> QED BY <3>1, Zenon DEF pae32_l3_identmap
    <2>3. Down(w, 3, 3, T, q) = x
        <3> HIDE DEF top, l2
        <3> QED BY <1>0, <1>2, <2>2, DownOn
    <2>4. LET ended == Down(Down(x, 2, 3, T, q), 1, 3, T, q)
          IN  Pte(ended.page, ended.flags) = Found(T, q, 512)
        BY <1>5, Zenon DEF PaeFinds, g
    <2>5. LET ended == Down(Down(Down(Down(w, 4, 3, T, q), 3, 3, T, q), 2, 3, T, q), 1, 3, T, q)
          IN  Walked(top, 3, T, q) = Pte(ended.page, ended.flags)
        BY WalkDown
    <2> HIDE DEF w, x
    <2> QED BY <2>1, <2>3, <2>4, <2>5, Zenon
<1>4. Walked(Page.pae_l4_identmap, 4, T, q) = Found(T, q, 512)
    <2> DEFINE top == Page.pae_l4_identmap
               l3 == Page.pae_l3_identmap
               w == At(top)
               v == At(l3)
               x == At(l2 + g)
    <2>1. EntryOf(top, 0, T) = Pte(l3, _PAGE_NONLEAF)
        <3>1. EntryOf(top, 0, T) = pae_l4_identmap(0)
            BY EntriesAre, SMT
        <3> QED BY <3>1, Zenon DEF pae_l4_identmap
    <2>2. Down(w, 4, 4, T, q) = v
        <3> HIDE DEF top, l3
        <3> QED BY <1>0, <1>2, <2>1, DownOn
    <2>3. EntryOf(l3, g, T) = Pte(l2 + g, _PAGE_NONLEAF)
        <3>1. EntryOf(l3, g, T) = pae_l3_identmap(g)
            BY EntriesAre, SMT
        <3> QED BY <1>2, <3>1, Zenon DEF pae_l3_identmap
    <2>4. Down(v, 3, 4, T, q) = x
        <3> HIDE DEF l3, l2
        <3> QED BY <1>0, <1>2, <2>3, DownOn
    <2>5. LET ended == Down(Down(x, 2, 4, T, q), 1, 4, T, q)
          IN  Pte(ended.page, ended.flags) = Found(T, q, 512)
        BY <1>5, Zenon DEF PaeFinds, g
    <2>6. LET ended == Down(Down(Down(Down(w, 4, 4, T, q), 3, 4, T, q), 2, 4, T, q), 1, 4, T, q)
          IN  Walked(top, 4, T, q) = Pte(ended.page, ended.flags)
        BY WalkDown
    <2> HIDE DEF w, v, x
    <2> QED BY <2>2, <2>4, <2>5, <2>6, Zenon
<1> QED BY <1>1, <1>3, <1>4

\* The first page above 4G.
LEMMA WalkBeyond ==
    ASSUME NEW T
    PROVE  Walked(Page.pae_l4_identmap, 4, T, PAGES_4G) = NoPte
<1> DEFINE q == PAGES_4G
           top == Page.pae_l4_identmap
           l3 == Page.pae_l3_identmap
           x == [page |-> 0, flags |-> {}, leaf |-> TRUE]
<1>0. 3 # 1 /\ 4 # 1 /\ ~(3 > 4) /\ ~(4 > 4)
    BY SMT
<1>1. table_offset(q, 4, 4) = 0 /\ table_offset(q, 3, 4) = 4
    <2>1. PaeSpan[3] = 262144 /\ PaeSpan[4] = 134217728 /\ PAE_ENTRIES = 512 /\ q = 1048576
        BY SMT DEF PaeSpan, PAE_ENTRIES, PAGES_4G
    <2>2. (1048576 \div 134217728) % 512 = 0 /\ (1048576 \div 262144) % 512 = 4
        BY SMT
    <2>3. \A l : table_offset(q, l, 4) = (q \div PaeSpan[l]) % PAE_ENTRIES
        BY SMT DEF table_offset, pae_table_offset
    <2> QED BY <2>1, <2>2, <2>3, SMT
<1> HIDE DEF q
<1>2. EntryOf(top, 0, T) = Pte(l3, _PAGE_NONLEAF)
    <2>1. EntryOf(top, 0, T) = pae_l4_identmap(0)
        BY EntriesAre, SMT
    <2> QED BY <2>1, Zenon DEF pae_l4_identmap
<1>3. ~(4 < 4)
    BY SMT
<1>4. EntryOf(l3, 4, T) = NoPte
    <2>1. EntryOf(l3, 4, T) = pae_l3_identmap(4)
        BY EntriesAre, SMT
    <2> QED BY <1>3, <2>1, Zenon DEF pae_l3_identmap
<1> HIDE DEF top, l3
<1>5. Down(At(top), 4, 4, T, q) = At(l3)
    BY <1>0, <1>1, <1>2, DownOn
<1>6. NoPte.flags = {} /\ ~At(l3).leaf /\ At(l3).page = l3
    BY DEF NoPte, Pte, At
<1>7. Follow(At(l3), NoPte, 3, 4, TRUE, q) = x
    BY <1>6, Zenon DEF Follow
<1>8. Down(At(l3), 3, 4, T, q) = x
    BY <1>0, <1>1, <1>4, <1>6, <1>7, Zenon DEF Down
<1>9. x.leaf /\ x.page = 0 /\ x.flags = {}
    OBVIOUS
<1> HIDE DEF x
<1>10. Down(x, 2, 4, T, q) = x
    BY <1>9, DownDone
<1>11. Down(x, 1, 4, T, q) = x
    BY <1>9, DownDone
<1>12. LET ended == Down(Down(Down(Down(At(top), 4, 4, T, q), 3, 4, T, q), 2, 4, T, q), 1, 4, T, q)
       IN  Walked(top, 4, T, q) = Pte(ended.page, ended.flags)
    BY WalkDown
<1> QED BY <1>5, <1>8, <1>9, <1>10, <1>11, <1>12, Zenon DEF NoPte, top, q

-----------------------------------------------------------------------------
(* What addresses mean.                                                    *)

\* The registers for paging are loaded.
Paged == Pending \intersect {"cr4", "cr3", "efer", "cr0"} = {}

\* When the test runs, no step is left and every user section has been remapped.
LEMMA NoMorePending ==
    ASSUME TodoInv, state = "run"
    PROVE  Pending = {} /\ Remaps = UserPages /\ state \in {"boot", "run"} /\ Paged
<1>1. todo = <<>>
    BY DEF TodoInv
<1>2. Pending = {}
    BY <1>1 DEF Pending, ToSet
<1>3. Sections \ Pending = Sections
    BY <1>2
<1> QED BY <1>2, <1>3 DEF Remaps, UserPages, Paged

\* What a PV guest finds.
LEMMA PvTranslates ==
    ASSUME SetupInv, state = "run", CONFIG_PV, NEW p \in Nat
    PROVE  MeansItself(p, Translate(p))
<1> DEFINE t == Translate(p)
<1>1. TodoInv /\ HostInv /\ PvPagesInv /\ NullInv
    BY DEF SetupInv
<1>2. Pending = {}
    BY <1>1, NoMorePending
<1>3. t = IF p \in DOMAIN l1e THEN l1e[p] ELSE NoPte
    BY DEF Translate
<1>4. /\ DOMAIN l1e = DOMAIN mfn_list /\ Image \subseteq DOMAIN mfn_list /\ 0 \in DOMAIN mfn_list
      /\ 0 \notin Image
    BY <1>1, BootAssumption, SectionsIn DEF PvPagesInv
<1>5. NoPte.flags = {} /\ NoPte.page = 0
    BY DEF NoPte, Pte
<1> HIDE DEF t, Image, UserPages
<1>6. p \in Image => /\ "P" \in t.flags
                     /\ "RW" \in t.flags <=> p # Page.gdt
                     /\ p # Page.shared_info => t.page = mfn_list[p]
    BY <1>1, <1>2, <1>3, <1>4 DEF PvPagesInv
<1>7. p = 0 => t = NoPte
    BY <1>1, <1>2, <1>3, <1>4 DEF NullInv
<1>8. "U" \in t.flags => CONFIG_64BIT \/ p \in UserPages
    BY <1>1, <1>3, <1>4, <1>5 DEF PvPagesInv
<1>9. CONFIG_PAGING_LEVELS \in {2, 3} => ~CONFIG_64BIT
    BY <1>1, BuildsAre DEF HostInv
<1> QED BY <1>6, <1>7, <1>8, <1>9 DEF MeansItself, t

\* How an HVM guest finds what it finds.
LEMMA HvmWalks ==
    ASSUME SetupInv, state \in {"boot", "run"}, Paged, ~CONFIG_PV
    PROVE  \/ CONFIG_PAGING_LEVELS = 0 /\ \A p : Translate(p) = Pte(p, All)
           \/ /\ CONFIG_PAGING_LEVELS = 2
              /\ \A p : Translate(p) = Walked(Page.pse_l2_identmap, 2, l1e, p % PAGES_4G)
           \/ /\ CONFIG_PAGING_LEVELS = 3
              /\ \A p : Translate(p) = Walked(Page.pae32_l3_identmap, 3, l1e, p % PAGES_4G)
           \/ /\ CONFIG_PAGING_LEVELS = 4
              /\ \A p : Translate(p) = Walked(Page.pae_l4_identmap, 4, l1e, p)
<1>1. TodoInv /\ HostInv /\ PagingInv
    BY DEF SetupInv
<1>3. /\ vcpu.cr4 = IF CONFIG_PAGING_LEVELS = 0 THEN {}
                    ELSE IF CONFIG_PAGING_LEVELS = 2 THEN {"PSE"} ELSE {"PAE"}
      /\ vcpu.cr3 = cr3_target
      /\ vcpu.efer = IF CONFIG_64BIT THEN {"LME"} ELSE {}
      /\ vcpu.cr0 = {"WP"} \union (IF CONFIG_PAGING_LEVELS > 0 THEN {"PG"} ELSE {})
    BY <1>1 DEF PagingInv, Paged
<1>5. build \in Builds
    BY <1>1 DEF HostInv
<1>6. ASSUME NEW levels, NEW top, NEW pse, levels = CONFIG_PAGING_LEVELS, cr3_target = top, "PG" \in vcpu.cr0, ~LongMode,
             (IF "PAE" \in vcpu.cr4 THEN 3 ELSE 2) = levels, "PAE" \in vcpu.cr4 \/ "PSE" \in vcpu.cr4
      PROVE  \A p : Translate(p) = Walked(top, levels, l1e, p % PAGES_4G)
    <2> TAKE p
    <2> DEFINE q == p % PAGES_4G
    <2> HIDE DEF q
    <2>1. Translate(p) = Walk(vcpu.cr3, IF LongMode THEN 4 ELSE IF "PAE" \in vcpu.cr4 THEN 3 ELSE 2,
                              "PAE" \in vcpu.cr4 \/ "PSE" \in vcpu.cr4, l1e, IF LongMode THEN p ELSE q)
        BY <1>6, Zenon DEF Translate, q
    <2>2. ("PAE" \in vcpu.cr4 \/ "PSE" \in vcpu.cr4) = TRUE
        BY <1>6
    <2> QED BY <1>3, <1>6, <2>1, <2>2, Zenon DEF q, Walked
<1>7. CASE build = "hvm32"
    <2>1. CONFIG_PAGING_LEVELS = 0 /\ "PG" \notin vcpu.cr0
        BY <1>3, <1>5, <1>7, BuildsAre
    <2>2. \A p : Translate(p) = Pte(p, All)
        BY <2>1, Zenon DEF Translate, All
    <2> QED BY <2>1, <2>2
<1>8. CASE build = "hvm32pse"
    <2>1. CONFIG_PAGING_LEVELS = 2 /\ cr3_target = Page.pse_l2_identmap
        BY <1>5, <1>8, BuildsAre
    <2>2. "PG" \in vcpu.cr0 /\ "PAE" \notin vcpu.cr4 /\ "PSE" \in vcpu.cr4 /\ ~LongMode
        BY <1>3, <1>5, <1>8, BuildsAre DEF LongMode
    <2>3. (IF "PAE" \in vcpu.cr4 THEN 3 ELSE 2) = 2
        BY <2>2
    <2> QED BY <1>6, <2>1, <2>2, <2>3, Zenon
<1>9. CASE build = "hvm32pae"
    <2>1. CONFIG_PAGING_LEVELS = 3 /\ cr3_target = Page.pae32_l3_identmap
        BY <1>5, <1>9, BuildsAre
    <2>2. "PG" \in vcpu.cr0 /\ "PAE" \in vcpu.cr4 /\ ~LongMode
        BY <1>3, <1>5, <1>9, BuildsAre DEF LongMode
    <2>3. (IF "PAE" \in vcpu.cr4 THEN 3 ELSE 2) = 3
        BY <2>2
    <2> QED BY <1>6, <2>1, <2>2, <2>3, Zenon
<1>10. CASE build = "hvm64"
    <2>1. CONFIG_PAGING_LEVELS = 4 /\ cr3_target = Page.pae_l4_identmap
        BY <1>5, <1>10, BuildsAre
    <2>2. "PG" \in vcpu.cr0 /\ "PAE" \in vcpu.cr4 /\ LongMode
        BY <1>3, <1>5, <1>10, BuildsAre DEF LongMode
    <2>3. ("PAE" \in vcpu.cr4 \/ "PSE" \in vcpu.cr4) = TRUE
        BY <2>2
    <2>4. ASSUME NEW p
          PROVE  Translate(p) = Walked(Page.pae_l4_identmap, 4, l1e, p)
        <3> DEFINE q == p % PAGES_4G
        <3> HIDE DEF q
        <3>1. Translate(p) = Walk(vcpu.cr3, IF LongMode THEN 4 ELSE IF "PAE" \in vcpu.cr4 THEN 3 ELSE 2,
                                  "PAE" \in vcpu.cr4 \/ "PSE" \in vcpu.cr4, l1e, IF LongMode THEN p ELSE q)
            BY <2>2, Zenon DEF Translate, q
        <3> QED BY <1>3, <2>1, <2>2, <2>3, <3>1, Zenon DEF Walked
    <2> QED BY <2>1, <2>4
<1> QED BY <1>5, <1>7, <1>8, <1>9, <1>10, BuildsAre

\* An image fits the level 1 table.
LEMMA ImageFits ==
    ASSUME HostInv, ~CONFIG_PV
    PROVE  /\ CONFIG_PAGING_LEVELS # 0 => Page.end < 1024
           /\ CONFIG_PAGING_LEVELS \in {3, 4} => Page.end < 512
<1>1. /\ Builds \intersect {"hvm32", "hvm32pae", "hvm64"} # {} => Page.end < 512
      /\ "hvm32pse" \in Builds => Page.end < 1024
    BY ImageAssumption DEF PAE_ENTRIES, PSE_ENTRIES
<1>2. build \in Builds
    BY DEF HostInv
<1>3. Page.end \in Nat
    BY Layout
<1> QED BY <1>1, <1>2, <1>3, BuildsAre

\* The same, by the levels.
LEMMA HvmTranslates ==
    ASSUME SetupInv, state \in {"boot", "run"}, Paged, ~CONFIG_PV
    PROVE  /\ CONFIG_PAGING_LEVELS \in {0, 2, 3, 4}
           /\ CONFIG_PAGING_LEVELS = 0 => \A p : Translate(p) = Pte(p, All)
           /\ \A p, q : q = p % PAGES_4G /\ CONFIG_PAGING_LEVELS = 2 =>
                 Translate(p) = Walked(Page.pse_l2_identmap, 2, l1e, q)
           /\ \A p, q : q = p % PAGES_4G /\ CONFIG_PAGING_LEVELS = 3 =>
                 Translate(p) = Walked(Page.pae32_l3_identmap, 3, l1e, q)
           /\ CONFIG_PAGING_LEVELS = 4 =>
                 \A p : Translate(p) = Walked(Page.pae_l4_identmap, 4, l1e, p)
<1>1. 0 # 2 /\ 0 # 3 /\ 0 # 4 /\ 2 # 3 /\ 2 # 4 /\ 3 # 4
    OBVIOUS
<1> DEFINE Low(p) == p % PAGES_4G
<1>3. \/ CONFIG_PAGING_LEVELS = 0 /\ \A p : Translate(p) = Pte(p, All)
      \/ /\ CONFIG_PAGING_LEVELS = 2
         /\ \A p : Translate(p) = Walked(Page.pse_l2_identmap, 2, l1e, Low(p))
      \/ /\ CONFIG_PAGING_LEVELS = 3
         /\ \A p : Translate(p) = Walked(Page.pae32_l3_identmap, 3, l1e, Low(p))
      \/ /\ CONFIG_PAGING_LEVELS = 4
         /\ \A p : Translate(p) = Walked(Page.pae_l4_identmap, 4, l1e, p)
    BY HvmWalks, Zenon
<1>4. \A p, q : q = p % PAGES_4G => q = Low(p)
    OBVIOUS
<1> HIDE DEF Low
<1>5. CONFIG_PAGING_LEVELS \in {0, 2, 3, 4}
    BY <1>3, Zenon
<1>6. CONFIG_PAGING_LEVELS = 0 => \A p : Translate(p) = Pte(p, All)
    BY <1>1, <1>3, Zenon
<1>7. CONFIG_PAGING_LEVELS = 2 => \A p : Translate(p) = Walked(Page.pse_l2_identmap, 2, l1e, Low(p))
    BY <1>1, <1>3, Zenon
<1>8. CONFIG_PAGING_LEVELS = 3 => \A p : Translate(p) = Walked(Page.pae32_l3_identmap, 3, l1e, Low(p))
    BY <1>1, <1>3, Zenon
<1>9. CONFIG_PAGING_LEVELS = 4 => \A p : Translate(p) = Walked(Page.pae_l4_identmap, 4, l1e, p)
    BY <1>1, <1>3, Zenon
<1>10. \A p, q : q = p % PAGES_4G /\ CONFIG_PAGING_LEVELS = 2 =>
           Translate(p) = Walked(Page.pse_l2_identmap, 2, l1e, q)
    BY <1>4, <1>7, Zenon
<1>11. \A p, q : q = p % PAGES_4G /\ CONFIG_PAGING_LEVELS = 3 =>
           Translate(p) = Walked(Page.pae32_l3_identmap, 3, l1e, q)
    BY <1>4, <1>8, Zenon
<1> QED BY <1>5, <1>6, <1>9, <1>10, <1>11, Zenon

\* What the tables lead to.
LEMMA FoundIs ==
    ASSUME SetupInv, state \in {"boot", "run"}, ~CONFIG_PV, NEW width \in {512, 1024}, Page.end < width, NEW q \in Nat
    PROVE  /\ q = 0 => Found(l1e, q, width) = NoPte
           /\ q # 0 => LET t == Found(l1e, q, width)
                       IN  t.page = q /\ "P" \in t.flags /\ "RW" \in t.flags /\ ("U" \in t.flags <=> q \in Remaps)
<1>1. TodoInv /\ HvmPagesInv
    BY DEF SetupInv
<1>2. Remaps \subseteq UserPages
    BY DEF Remaps, UserPages
<1>3. /\ DOMAIN l1e = {0} \union Image
      /\ \A p \in DOMAIN l1e : l1e[p] = IF p = 0 THEN NoPte
                                        ELSE Pte(p, _PAGE_LEAF \union (IF p \in Remaps THEN {"U"} ELSE {}))
    BY <1>1 DEF HvmPagesInv
<1>4. Remaps \subseteq Image /\ 0 \notin Image /\ \A p \in Image : p < width
    <2>1. Image = 256..(Page.end - 1) /\ Page.end \in Nat
        BY Layout DEF Image, XTF_VIRT_START
    <2> QED BY <1>2, <2>1, SectionsIn
<1> DEFINE flags == _PAGE_LEAF \union (IF q \in Remaps THEN {"U"} ELSE {})
           e == IF q \in DOMAIN l1e THEN l1e[q] ELSE IF q = 0 THEN NoPte ELSE Pte(q, _PAGE_LEAF)
           t == Found(l1e, q, width)
<1> HIDE DEF Image, Remaps
<1>5. _PAGE_LEAF = flags \/ q \in Remaps
    BY DEF flags
<1>6. e = IF q = 0 THEN NoPte ELSE Pte(q, flags)
    BY <1>3, <1>4, <1>5
<1>7. q < width => t = Entered(e)
    BY SMT DEF Found
<1>8. ~(q < width) => t = Pte(q, {"P", "RW"}) /\ q \notin Remaps /\ q # 0
    BY <1>4 DEF Found
<1>9. Entered(NoPte) = NoPte
    BY DEF Entered, NoPte, Pte
<1>10. "P" \in flags /\ "RW" \in flags /\ ("U" \in flags <=> q \in Remaps)
    BY DEF flags, _PAGE_LEAF
<1> HIDE DEF e, t, flags
<1>11. Entered(Pte(q, flags)) = Pte(q, {"P", "RW", "U"} \intersect flags)
    BY <1>10 DEF Entered, Pte
<1>12. CASE q = 0
    BY <1>6, <1>7, <1>8, <1>9, <1>12 DEF t
<1>13. CASE q # 0 /\ q < width
    <2>1. t = Pte(q, {"P", "RW", "U"} \intersect flags)
        BY <1>6, <1>7, <1>11, <1>13
    <2>2. t.page = q /\ t.flags = {"P", "RW", "U"} \intersect flags
        BY <2>1 DEF Pte
    <2> QED BY <1>10, <1>13, <2>2 DEF t
<1>14. CASE ~(q < width)
    <2>1. t.page = q /\ t.flags = {"P", "RW"}
        BY <1>8, <1>14 DEF Pte
    <2> QED BY <1>8, <1>14, <2>1 DEF t
<1> QED BY <1>12, <1>13, <1>14

\* What is below 4G and what is left of an address of 32 bits.
LEMMA Remainder ==
    /\ \A q \in Nat : Below4G(q) => q % PAGES_4G = q
    /\ PAGES_4G % PAGES_4G = 0 /\ PAGES_4G \in Nat /\ PAGES_4G > 1024
    /\ \A q \in Nat : Below4G(q) <=> q < PAGES_4G
    /\ Below4G(0)
<1>1. PAGES_4G = 1048576
    BY SMT DEF PAGES_4G
<1>2. \A q \in Nat : q < 1048576 => q % 1048576 = q
    BY SMT
<1>3. 1048576 % 1048576 = 0
    BY SMT
<1> QED BY <1>1, <1>2, <1>3, SMT DEF Below4G

\* An HVM guest finds page q below 4G at q.
LEMMA HvmFinds ==
    ASSUME SetupInv, state \in {"boot", "run"}, Paged, ~CONFIG_PV, NEW q \in Nat, Below4G(q)
    PROVE  /\ CONFIG_PAGING_LEVELS = 0 => Translate(q) = Pte(q, All)
           /\ CONFIG_PAGING_LEVELS # 0 =>
                 /\ q = 0 => Translate(q) = NoPte
                 /\ q # 0 => LET t == Translate(q)
                             IN  /\ t.page = q /\ "P" \in t.flags /\ "RW" \in t.flags
                                 /\ "U" \in t.flags <=> q \in Remaps
<1>1. q % PAGES_4G = q
    BY Remainder
<1>2. HasPages(l1e)
    <2>1. TodoInv /\ HvmPagesInv
        BY DEF SetupInv
    <2>2. Image \subseteq Nat
        BY SectionsIn
    <2> HIDE DEF Image
    <2> SUFFICES ASSUME NEW i \in DOMAIN l1e PROVE l1e[i].page \in Nat
        BY DEF HasPages
    <2>3. CASE i = 0
        <3>1. l1e[i] = NoPte
            BY <2>1, <2>3 DEF HvmPagesInv
        <3> QED BY <3>1 DEF NoPte, Pte
    <2>4. CASE i # 0
        <3>1. l1e[i] = Pte(i, _PAGE_LEAF \union (IF i \in Remaps THEN {"U"} ELSE {})) /\ i \in Nat
            BY <2>1, <2>2, <2>4 DEF HvmPagesInv
        <3> QED BY <3>1 DEF Pte
    <2> QED BY <2>3, <2>4
<1> HIDE DEF PAGES_4G
<1>4. CASE CONFIG_PAGING_LEVELS = 0
    BY <1>4, HvmTranslates, Zenon
<1> DEFINE Right == /\ q = 0 => Translate(q) = NoPte
                    /\ q # 0 => LET t == Translate(q)
                                IN  /\ t.page = q /\ "P" \in t.flags /\ "RW" \in t.flags
                                    /\ "U" \in t.flags <=> q \in Remaps
<1>5. ASSUME Page.end < 512, Translate(q) = Found(l1e, q, 512)
      PROVE  Right
    BY <1>5, FoundIs
<1>7. ASSUME Page.end < 1024, Translate(q) = Found(l1e, q, 1024)
      PROVE  Right
    BY <1>7, FoundIs
<1>6. CASE CONFIG_PAGING_LEVELS # 0
    <2> SUFFICES Right
        BY <1>6
    <2> HIDE DEF Right
    <2>1. /\ CONFIG_PAGING_LEVELS # 0 => Page.end < 1024
          /\ CONFIG_PAGING_LEVELS \in {3, 4} => Page.end < 512
        BY ImageFits DEF SetupInv
    <2>2. 0 # 2 /\ 0 # 3 /\ 0 # 4 /\ 2 # 3 /\ 2 # 4 /\ 3 # 4
        OBVIOUS
    <2>3. CASE CONFIG_PAGING_LEVELS = 2
        <3>1. Translate(q) = Walked(Page.pse_l2_identmap, 2, l1e, q)
            BY <1>1, <2>2, <2>3, HvmTranslates, Zenon
        <3>2. Walked(Page.pse_l2_identmap, 2, l1e, q) = Found(l1e, q, 1024)
            BY <1>2, WalkIs
        <3>3. Page.end < 1024
            BY <2>1, <2>3
        <3>4. Translate(q) = Found(l1e, q, 1024)
            BY <3>1, <3>2
        <3> QED BY <1>7, <3>3, <3>4
    <2>4. CASE CONFIG_PAGING_LEVELS = 3
        <3>1. Translate(q) = Walked(Page.pae32_l3_identmap, 3, l1e, q)
            BY <1>1, <2>2, <2>4, HvmTranslates, Zenon
        <3>2. Walked(Page.pae32_l3_identmap, 3, l1e, q) = Found(l1e, q, 512)
            BY <1>2, WalkIs
        <3>3. Page.end < 512
            BY <2>1, <2>4
        <3>4. Translate(q) = Found(l1e, q, 512)
            BY <3>1, <3>2
        <3> QED BY <1>5, <3>3, <3>4
    <2>5. CASE CONFIG_PAGING_LEVELS = 4
        <3>1. Translate(q) = Walked(Page.pae_l4_identmap, 4, l1e, q)
            BY <2>2, <2>5, HvmTranslates, Zenon
        <3>2. Walked(Page.pae_l4_identmap, 4, l1e, q) = Found(l1e, q, 512)
            BY <1>2, WalkIs
        <3>3. Page.end < 512
            BY <2>1, <2>5
        <3>4. Translate(q) = Found(l1e, q, 512)
            BY <3>1, <3>2
        <3> QED BY <1>5, <3>3, <3>4
    <2>6. CONFIG_PAGING_LEVELS \in {0, 2, 3, 4}
        BY HvmTranslates, Zenon
    <2> QED BY <1>6, <2>3, <2>4, <2>5, <2>6
<1> QED BY <1>4, <1>6

\* Every page of the image is below 4G, where an HVM guest pages.
LEMMA ImageIsLow ==
    ASSUME SetupInv, ~CONFIG_PV, CONFIG_PAGING_LEVELS # 0, NEW p \in Image
    PROVE  p \in Nat /\ p # 0 /\ Below4G(p)
<1>1. Page.end < 1024
    BY ImageFits DEF SetupInv
<1>2. Image = 256..(Page.end - 1) /\ Page.end \in Nat
    BY Layout DEF Image, XTF_VIRT_START
<1>3. p \in Nat /\ p # 0 /\ p < 1024
    BY <1>1, <1>2
<1>4. p < 1048576
    BY <1>3, SMT
<1> QED BY <1>3, <1>4, SMT DEF Below4G

\* What an HVM guest finds.
LEMMA HvmMeans ==
    ASSUME SetupInv, state = "run", ~CONFIG_PV, NEW p \in Nat, Below4G(p) \/ p = PAGES_4G \/ p \in Image
    PROVE  MeansItself(p, Translate(p))
<1> DEFINE t == Translate(p)
<1>0. Remaps = UserPages /\ state \in {"boot", "run"} /\ Paged
    BY NoMorePending DEF SetupInv
<1>1. CONFIG_PAGING_LEVELS \in {0, 2, 3, 4}
    BY <1>0, HvmTranslates, Zenon
<1>2. 0 \notin Image /\ UserPages \subseteq Image
    BY SectionsIn
<1>3. p < PAGES_4G => Below4G(p)
    BY Remainder
<1>4. PAGES_4G # 0 /\ ~(PAGES_4G < PAGES_4G)
    BY SMT DEF PAGES_4G
<1> HIDE DEF Image, UserPages, PAGES_4G
<1>5. CASE CONFIG_PAGING_LEVELS = 0
    <2>1. t = Pte(p, All)
        BY <1>0, <1>5, HvmTranslates, Zenon
    <2>2. t.page = p /\ "P" \in t.flags /\ "RW" \in t.flags
        BY <2>1 DEF Pte, All
    <2> HIDE DEF t
    <2>3. ~(CONFIG_PAGING_LEVELS \in {2, 3}) /\ ~(CONFIG_PAGING_LEVELS > 0)
        BY <1>5
    <2> QED BY <2>2, <2>3 DEF MeansItself, t
<1>6. CASE CONFIG_PAGING_LEVELS # 0 /\ Below4G(p)
    <2>1. /\ p = 0 => t = NoPte
          /\ p # 0 => t.page = p /\ "P" \in t.flags /\ "RW" \in t.flags /\ ("U" \in t.flags <=> p \in UserPages)
        BY <1>0, <1>6, HvmFinds
    <2>2. NoPte.flags = {}
        BY DEF NoPte, Pte
    <2> HIDE DEF t, NoPte
    <2>3. "U" \in t.flags <=> p \in UserPages
        BY <1>2, <2>1, <2>2
    <2> QED BY <1>6, <2>1, <2>3 DEF MeansItself, t
<1>7. CASE CONFIG_PAGING_LEVELS # 0 /\ p = PAGES_4G
    <2>1. t = NoPte
        <3>1. CASE CONFIG_PAGING_LEVELS \in {2, 3}
            <4>1. t = Translate(0)
                <5>1. 0 = p % PAGES_4G /\ 0 = 0 % PAGES_4G
                    BY <1>7, Remainder
                <5> QED BY <1>0, <3>1, <5>1, HvmTranslates
            <4> QED BY <1>0, <1>7, <4>1, HvmFinds, Remainder
        <3>2. CASE CONFIG_PAGING_LEVELS = 4
            <4>1. t = Walked(Page.pae_l4_identmap, 4, l1e, PAGES_4G)
                BY <1>0, <1>7, <3>2, HvmTranslates, Zenon
            <4> QED BY <4>1, WalkBeyond
        <3> QED BY <1>1, <1>7, <3>1, <3>2
    <2>2. NoPte.flags = {}
        BY DEF NoPte, Pte
    <2>3. p \notin UserPages
        <3>1. p \notin Image
            BY <1>7, <1>4, Remainder, ImageIsLow
        <3> QED BY <1>2, <3>1
    <2> HIDE DEF t, NoPte
    <2> QED BY <1>4, <1>7, <2>1, <2>2, <2>3 DEF MeansItself, t
<1>8. CASE CONFIG_PAGING_LEVELS # 0 /\ p \in Image
    BY <1>6, <1>8, ImageIsLow
<1> QED BY <1>5, <1>6, <1>7, <1>8

\* The pages looked at are pages, below or at 4G or of the image.
LEMMA SamplesAre == \A p \in Samples : p \in Nat /\ (Below4G(p) \/ p = PAGES_4G \/ p \in Image)
<1> SUFFICES ASSUME NEW p \in Samples PROVE p \in Nat /\ (Below4G(p) \/ p = PAGES_4G \/ p \in Image)
    OBVIOUS
<1>1. Image \subseteq Nat
    BY SectionsIn
<1> HIDE DEF Image
<1>2. CASE p \in Image
    BY <1>1, <1>2
<1>3. CASE p \notin Image
    BY <1>3, SMT DEF Samples, Below4G, PAGES_4G
<1> QED BY <1>2, <1>3

\* Once the test runs, every page looked at leads where it should, from whichever
\* tables the build uses: its walk ends at itself (a PV guest's in its frame), a
\* NULL pointer faults, and the U bit is on the user sections and on nothing else
\* (hvm/pagetables.S, arch_init_traps()), for images of any layout that fits the
\* level 1 table.
THEOREM AddressesAreRight == Spec => []AddressesMeanThemselves
<1>1. SetupInv => AddressesMeanThemselves
    <2> SUFFICES ASSUME SetupInv, state = "run", NEW p \in Samples PROVE MeansItself(p, Translate(p))
        BY DEF AddressesMeanThemselves
    <2>1. p \in Nat /\ (Below4G(p) \/ p = PAGES_4G \/ p \in Image)
        BY SamplesAre
    <2>2. CASE CONFIG_PV
        BY <2>1, <2>2, PvTranslates
    <2>3. CASE ~CONFIG_PV
        BY <2>1, <2>3, HvmMeans
    <2> QED BY <2>2, <2>3
<1> QED BY <1>1, SetupInvariant, PTL

\* What an HVM guest shares.
LEMMA HvmShares ==
    ASSUME SetupInv, state = "run", ~CONFIG_PV
    PROVE  /\ FrameAt(Translate(Page.shared_info).page) = SpecialPages.shared_info
           /\ \A r \in {"console", "store"} : FrameAt(Translate(SpecialPages[r]).page) = SpecialPages[r]
<1>0. state \in {"boot", "run"} /\ Paged
    BY NoMorePending DEF SetupInv
<1>1. physmap = Page.shared_info
    BY NoMorePending DEF SetupInv, SharedInv
<1>2. Page.shared_info # 0 /\ Page.shared_info \in Image /\ Page.shared_info \in Nat
    BY SectionsIn
<1>3. ASSUME NEW q \in Nat, q # 0, CONFIG_PAGING_LEVELS # 0 => Below4G(q)
      PROVE  Translate(q).page = q
    <2>1. CASE CONFIG_PAGING_LEVELS = 0
        <3>1. Translate(q) = Pte(q, All)
            BY <1>0, <2>1, HvmTranslates, Zenon
        <3> QED BY <3>1 DEF Pte
    <2>2. CASE CONFIG_PAGING_LEVELS # 0
        BY <1>0, <1>3, <2>2, HvmFinds
    <2> QED BY <2>1, <2>2
<1>4. Translate(Page.shared_info).page = Page.shared_info
    BY <1>2, <1>3, ImageIsLow
<1>5. ASSUME NEW r \in {"console", "store"}
      PROVE  FrameAt(Translate(SpecialPages[r]).page) = SpecialPages[r]
    <2> DEFINE q == SpecialPages[r]
    <2>1. q \in 1..(PAGES_4G - 1) /\ q \notin Image
        BY SetupAssumption, Zenon
    <2>2. q \in Nat /\ q # 0 /\ q < PAGES_4G
        BY <2>1, Remainder
    <2>3. Below4G(q)
        BY <2>2, Remainder
    <2>4. Translate(q).page = q
        BY <1>3, <2>2, <2>3
    <2> HIDE DEF q
    <2> QED BY <1>1, <1>2, <2>1, <2>4, Zenon DEF FrameAt, q
<1> QED BY <1>1, <1>2, <1>4, <1>5 DEF FrameAt

\* What a PV guest shares.
LEMMA PvShares ==
    ASSUME SetupInv, state = "run", CONFIG_PV
    PROVE  /\ FrameAt(Translate(Page.shared_info).page) = SpecialPages.shared_info
           /\ \A r \in {"console", "store"} : FrameAt(Translate(SpecialPages[r]).page) = mfn_list[SpecialPages[r]]
<1>1. physmap = 0 /\ PvPagesInv /\ Pending = {}
    BY NoMorePending DEF SetupInv, SharedInv
<1>2. \A page : FrameAt(page) = page
    BY <1>1 DEF FrameAt
<1>3. \A p \in DOMAIN mfn_list : Translate(p) = l1e[p]
    BY <1>1 DEF Translate, PvPagesInv
<1>4. Page.shared_info \in Image /\ Image \subseteq DOMAIN mfn_list
    BY SectionsIn, BootAssumption
<1>5. ASSUME NEW r \in {"console", "store"}
      PROVE  FrameAt(Translate(SpecialPages[r]).page) = mfn_list[SpecialPages[r]]
    <2> DEFINE q == SpecialPages[r]
    <2>1. q \in 1..(PAGES_4G - 1) /\ q \in DOMAIN mfn_list /\ q \notin Image
        BY SetupAssumption, Zenon
    <2>2. q # 0
        BY <2>1, Remainder
    <2> HIDE DEF q
    <2>3. l1e[q].page = mfn_list[q]
        BY <1>1, <1>4, <2>1, <2>2 DEF PvPagesInv
    <2> QED BY <1>2, <1>3, <2>1, <2>3 DEF q
<1> QED BY <1>1, <1>2, <1>3, <1>4, <1>5 DEF PvPagesInv

\* Once the test runs, xencons_ring, xenbus_ring and shared_info lead to the frames
\* that Xen and the toolstack use, where the domain has them, and pointers that
\* lead nowhere are NULL (init_pv_console(), init_xenbus(), map_shared_info()).
THEOREM SharedIsFound == Spec => []SharedWithXen
<1>1. SetupInv => SharedWithXen
    <2> SUFFICES ASSUME SetupInv, state = "run"
                 PROVE  LET frame(page) == IF CONFIG_PV THEN mfn_list[page] ELSE page
                            shared == {<<Page.shared_info, SpecialPages.shared_info>>}
                                      \union {<<pointers[r], frame(SpecialPages[r])>> : r \in Rings}
                        IN  /\ \A s \in shared : FrameAt(Translate(s[1]).page) = s[2]
                            /\ \A r \in {"console", "store"} \ Rings : pointers[r] = 0
        BY DEF SharedWithXen
    <2> DEFINE frame(page) == IF CONFIG_PV THEN mfn_list[page] ELSE page
    <2>1. /\ FrameAt(Translate(Page.shared_info).page) = SpecialPages.shared_info
          /\ \A r \in {"console", "store"} : FrameAt(Translate(SpecialPages[r]).page) = frame(SpecialPages[r])
        BY HvmShares, PvShares
    <2>2. /\ \A r \in Rings : pointers[r] = SpecialPages[r]
          /\ \A r \in {"console", "store"} \ Rings : pointers[r] = 0
        <3>1. Rings \subseteq {"console", "store"}
            BY DEF Rings
        <3>2. /\ pointers.console = IF "console" \in Rings THEN SpecialPages.console ELSE 0
              /\ pointers.store = IF "store" \in Rings THEN SpecialPages.store ELSE 0
            BY NoMorePending DEF SetupInv, SharedInv
        <3> HIDE DEF Rings
        <3> QED BY <3>1, <3>2
    <2>3. Rings \subseteq {"console", "store"}
        BY DEF Rings
    <2> HIDE DEF frame, Rings
    <2>4. \A r \in Rings : FrameAt(Translate(pointers[r]).page) = frame(SpecialPages[r])
        BY <2>1, <2>2, <2>3
    <2>5. ASSUME NEW s \in {<<Page.shared_info, SpecialPages.shared_info>>}
                           \union {<<pointers[r], frame(SpecialPages[r])>> : r \in Rings}
          PROVE  FrameAt(Translate(s[1]).page) = s[2]
        <3>1. CASE s = <<Page.shared_info, SpecialPages.shared_info>>
            BY <2>1, <3>1
        <3>2. ASSUME NEW r \in Rings, s = <<pointers[r], frame(SpecialPages[r])>>
              PROVE  FrameAt(Translate(s[1]).page) = s[2]
            BY <2>4, <3>2
        <3> QED BY <3>1, <3>2
    <2> QED BY <2>2, <2>5 DEF frame
<1> QED BY <1>1, SetupInvariant, PTL

-----------------------------------------------------------------------------
(* What descriptors and gates say.                                         *)

\* Code that runs at privilege dpl, of 64 bits or of 32, and data.
HoldsCode(d, dpl, long) ==
    /\ SegP(d) = 1 /\ SegS(d) = 1 /\ SegX(d) = 1 /\ SegDPL(d) = dpl
    /\ SegL(d) = (IF long THEN 1 ELSE 0) /\ SegD(d) = (IF long THEN 0 ELSE 1)
HoldsData(d, dpl) ==
    SegP(d) = 1 /\ SegS(d) = 1 /\ SegX(d) = 0 /\ SegW(d) = 1 /\ SegDPL(d) = dpl

\* The two bytes of attributes in a flat descriptor.
Attributes(d, low, high) == d[6] = low /\ d[7] = high

\* The fields are bits of two bytes.
LEMMA FieldsAre ==
    ASSUME NEW d
    PROVE  /\ Attributes(d, 155, 175) => HoldsCode(d, 0, TRUE)
           /\ Attributes(d, 155, 207) => HoldsCode(d, 0, FALSE)
           /\ Attributes(d, 147, 207) => HoldsData(d, 0)
           /\ Attributes(d, 251, 175) => HoldsCode(d, 3, TRUE)
           /\ Attributes(d, 251, 207) => HoldsCode(d, 3, FALSE)
           /\ Attributes(d, 243, 207) => HoldsData(d, 3)
<1>1. Attributes(d, 155, 175) => HoldsCode(d, 0, TRUE)
    BY SMT DEF Attributes, HoldsCode, SegP, SegS, SegX, SegDPL, SegL, SegD
<1>2. Attributes(d, 155, 207) => HoldsCode(d, 0, FALSE)
    BY SMT DEF Attributes, HoldsCode, SegP, SegS, SegX, SegDPL, SegL, SegD
<1>3. Attributes(d, 147, 207) => HoldsData(d, 0)
    BY SMT DEF Attributes, HoldsData, SegP, SegS, SegX, SegDPL, SegW
<1>4. Attributes(d, 251, 175) => HoldsCode(d, 3, TRUE)
    BY SMT DEF Attributes, HoldsCode, SegP, SegS, SegX, SegDPL, SegL, SegD
<1>5. Attributes(d, 251, 207) => HoldsCode(d, 3, FALSE)
    BY SMT DEF Attributes, HoldsCode, SegP, SegS, SegX, SegDPL, SegL, SegD
<1>6. Attributes(d, 243, 207) => HoldsData(d, 3)
    BY SMT DEF Attributes, HoldsData, SegP, SegS, SegX, SegDPL, SegW
<1> QED BY <1>1, <1>2, <1>3, <1>4, <1>5, <1>6

\* A flat descriptor has the attributes of its tokens, and the limit's top.
LEMMA FlatIs ==
    ASSUME NEW tokens, NEW low, NEW high, TOK_OR({"COMMON"} \union tokens)[1] = low,
           TOK_OR({"COMMON"} \union tokens)[2] = high, high \in {160, 192}
    PROVE  Attributes(Flat(tokens), low, high + 15)
<1> DEFINE attr == TOK_OR({"COMMON"} \union tokens)
<1> HIDE DEF attr
<1>1. Flat(tokens) = INIT_GDTE(<<0, 0, 0, 0>>, <<255, 255, 15, 0>>, attr)
    BY Zenon DEF Flat, INIT_GDTE_SYM, attr
<1>2. /\ INIT_GDTE(<<0, 0, 0, 0>>, <<255, 255, 15, 0>>, attr)[6] = attr[1]
      /\ INIT_GDTE(<<0, 0, 0, 0>>, <<255, 255, 15, 0>>, attr)[7] = (attr[2] \div 16) * 16 + (15 % 16)
    BY DEF INIT_GDTE
<1>3. attr[1] = low /\ attr[2] = high
    BY DEF attr
<1>4. (high \div 16) * 16 + (15 % 16) = high + 15
    BY SMT
<1> QED BY <1>1, <1>2, <1>3, <1>4 DEF Attributes

\* Each of the six segments is what desc.c and segment.h mean it to be.
LEMMA SegmentsAre ==
    /\ HoldsCode(gdt_hvm[GDTE_CS64_DPL0], 0, TRUE) /\ HoldsCode(gdt_hvm[GDTE_CS32_DPL0], 0, FALSE)
    /\ HoldsData(gdt_hvm[GDTE_DS32_DPL0], 0)
    /\ HoldsCode(gdt_hvm[GDTE_CS64_DPL3], 3, TRUE) /\ HoldsCode(gdt_hvm[GDTE_CS32_DPL3], 3, FALSE)
    /\ HoldsData(gdt_hvm[GDTE_DS32_DPL3], 3)
<1>1. /\ gdt_hvm[1] = Flat({"CODE", "DPL0", "R", "L"}) /\ gdt_hvm[2] = Flat({"CODE", "DPL0", "R", "D"})
      /\ gdt_hvm[3] = Flat({"DATA", "DPL0", "B", "W"}) /\ gdt_hvm[4] = Flat({"CODE", "DPL3", "R", "L"})
      /\ gdt_hvm[5] = Flat({"CODE", "DPL3", "R", "D"}) /\ gdt_hvm[6] = Flat({"DATA", "DPL3", "B", "W"})
    <2> HIDE DEF Flat
    <2> QED BY SMTT(60) DEF gdt_hvm, NR_GDT_ENTRIES, GDTE_CS64_DPL0, GDTE_CS32_DPL0, GDTE_DS32_DPL0,
                            GDTE_CS64_DPL3, GDTE_CS32_DPL3, GDTE_DS32_DPL3
<1>2. Attributes(gdt_hvm[1], 155, 175)
    <2> DEFINE T == {"CODE", "DPL0", "R", "L"}
    <2>1. TOK_OR({"COMMON"} \union T)[1] = 155 /\ TOK_OR({"COMMON"} \union T)[2] = 160
        BY SMTT(60) DEF TOK_OR, SEG_ATTR
    <2> QED BY <1>1, <2>1, FlatIs
<1>3. Attributes(gdt_hvm[2], 155, 207)
    <2> DEFINE T == {"CODE", "DPL0", "R", "D"}
    <2>1. TOK_OR({"COMMON"} \union T)[1] = 155 /\ TOK_OR({"COMMON"} \union T)[2] = 192
        BY SMTT(60) DEF TOK_OR, SEG_ATTR
    <2> QED BY <1>1, <2>1, FlatIs
<1>4. Attributes(gdt_hvm[3], 147, 207)
    <2> DEFINE T == {"DATA", "DPL0", "B", "W"}
    <2>1. TOK_OR({"COMMON"} \union T)[1] = 147 /\ TOK_OR({"COMMON"} \union T)[2] = 192
        BY SMTT(60) DEF TOK_OR, SEG_ATTR
    <2> QED BY <1>1, <2>1, FlatIs
<1>5. Attributes(gdt_hvm[4], 251, 175)
    <2> DEFINE T == {"CODE", "DPL3", "R", "L"}
    <2>1. TOK_OR({"COMMON"} \union T)[1] = 251 /\ TOK_OR({"COMMON"} \union T)[2] = 160
        BY SMTT(60) DEF TOK_OR, SEG_ATTR
    <2> QED BY <1>1, <2>1, FlatIs
<1>6. Attributes(gdt_hvm[5], 251, 207)
    <2> DEFINE T == {"CODE", "DPL3", "R", "D"}
    <2>1. TOK_OR({"COMMON"} \union T)[1] = 251 /\ TOK_OR({"COMMON"} \union T)[2] = 192
        BY SMTT(60) DEF TOK_OR, SEG_ATTR
    <2> QED BY <1>1, <2>1, FlatIs
<1>7. Attributes(gdt_hvm[6], 243, 207)
    <2> DEFINE T == {"DATA", "DPL3", "B", "W"}
    <2>1. TOK_OR({"COMMON"} \union T)[1] = 243 /\ TOK_OR({"COMMON"} \union T)[2] = 192
        BY SMTT(60) DEF TOK_OR, SEG_ATTR
    <2> QED BY <1>1, <2>1, FlatIs
<1> QED BY <1>2, <1>3, <1>4, <1>5, <1>6, <1>7, FieldsAre
        DEF GDTE_CS64_DPL0, GDTE_CS32_DPL0, GDTE_DS32_DPL0, GDTE_CS64_DPL3, GDTE_CS32_DPL3, GDTE_DS32_DPL3

\* A gate of either format has in its fields what it was packed from.
LEMMA GatesAre ==
    ASSUME NEW type \in {TASK, INTR}, NEW sel \in {0, 8, 16, 64}, NEW dpl \in {0, 3}, NEW ist \in {0, 1},
           NEW n, NEW m, NEW g,
           g = pack_gate(type, sel, <<n, 0, m, 0>>, dpl, ist)
           \/ g = pack_gate(type, sel, <<n, 0, m, 0, 0, 0, 0, 0>>, dpl, ist)
    PROVE  /\ GateType(g) = type /\ GateDPL(g) = dpl /\ GateP(g) = 1
           /\ GateSelector(g) = sel /\ GateIst(g) = ist
<1>1. (128 + 32 * dpl + type) % 16 = type /\ ((128 + 32 * dpl + type) \div 32) % 4 = dpl
      /\ (128 + 32 * dpl + type) \div 128 = 1
    BY SMT DEF TASK, INTR
<1>2. (sel % 256) + 256 * (sel \div 256) = sel
    BY SMT
<1>3. ist % 8 = ist
    BY SMT
<1>4. g[6] = 128 + 32 * dpl + type /\ g[3] = sel % 256 /\ g[4] = sel \div 256 /\ g[5] = ist
    <2> DEFINE b == 128 + 32 * dpl + type  s == sel % 256  h == sel \div 256
    <2> HIDE DEF b, s, h
    <2>1. CASE g = pack_gate(type, sel, <<n, 0, m, 0>>, dpl, ist)
        <3>1. Len(<<n, 0, m, 0>>) # 8
            OBVIOUS
        <3>2. g = pack_x86_gate32(type, sel, <<n, 0, m, 0>>, dpl, ist)
            BY <2>1, <3>1, Zenon DEF pack_gate
        <3>3. g = <<n, 0, s, h, ist, b, m, 0>>
            BY <3>2 DEF pack_x86_gate32, b, s, h
        <3> QED BY <3>3 DEF b, s, h
    <2>2. CASE g = pack_gate(type, sel, <<n, 0, m, 0, 0, 0, 0, 0>>, dpl, ist)
        <3>1. Len(<<n, 0, m, 0, 0, 0, 0, 0>>) = 8
            OBVIOUS
        <3>2. g = pack_x86_gate64(type, sel, <<n, 0, m, 0, 0, 0, 0, 0>>, dpl, ist)
            BY <2>2, <3>1, Zenon DEF pack_gate
        <3>3. g = <<n, 0, s, h, ist, b, m, 0, 0, 0, 0, 0, 0, 0, 0, 0>>
            BY <3>2 DEF pack_x86_gate64, b, s, h
        <3> QED BY <3>3 DEF b, s, h
    <2> QED BY <2>1, <2>2
<1> QED BY <1>1, <1>2, <1>3, <1>4 DEF GateType, GateDPL, GateP, GateSelector, GateIst

\* Four bytes and four zeroes.
LEMMA ZeroExtended ==
    ASSUME NEW a, NEW b, NEW c, NEW d
    PROVE  <<a, b, c, d>> \o <<0, 0, 0, 0>> = <<a, b, c, d, 0, 0, 0, 0>>
<1> DEFINE X == {a, b, c, d, 0}
           A == <<a, b, c, d>>
           Z == <<0, 0, 0, 0>>
           C == <<a, b, c, d, 0, 0, 0, 0>>
<1>1. A \in Seq(X) /\ Z \in Seq(X) /\ C \in Seq(X)
    OBVIOUS
<1>2. Len(A) = 4 /\ Len(Z) = 4 /\ Len(C) = 8
    OBVIOUS
<1>3. A[1] = a /\ A[2] = b /\ A[3] = c /\ A[4] = d /\ Z[1] = 0 /\ Z[2] = 0 /\ Z[3] = 0 /\ Z[4] = 0
    OBVIOUS
<1>4. C[1] = a /\ C[2] = b /\ C[3] = c /\ C[4] = d /\ C[5] = 0 /\ C[6] = 0 /\ C[7] = 0 /\ C[8] = 0
    OBVIOUS
<1> HIDE DEF X, A, Z, C
<1>5. \A k \in 1..4 : k = 1 \/ k = 2 \/ k = 3 \/ k = 4
    OBVIOUS
<1>6. \A k \in 1..Len(A) : C[k] = A[k]
    BY <1>2, <1>3, <1>4, <1>5
<1>7. \A k \in 1..Len(Z) : C[Len(A) + k] = Z[k]
    <2> TAKE k \in 1..Len(Z)
    <2>1. (k = 1 /\ 4 + k = 5) \/ (k = 2 /\ 4 + k = 6) \/ (k = 3 /\ 4 + k = 7) \/ (k = 4 /\ 4 + k = 8)
        BY <1>2
    <2> QED BY <1>2, <1>3, <1>4, <2>1
<1>8. Len(C) = Len(A) + Len(Z)
    BY <1>2
<1>9. C = A \o Z
    BY <1>1, <1>6, <1>7, <1>8, ConcatIs, Zenon
<1> QED BY <1>9 DEF A, Z, C

\* Four zeroes in a row.
LEMMA ZeroesFrom ==
    ASSUME NEW s, NEW from \in Nat, \A k \in from..(from + 3) : s[k] = 0
    PROVE  SubSeq(s, from, from + 3) = <<0, 0, 0, 0>>
<1>1. SubSeq(s, from, from + 3) = [i \in 1..4 |-> s[from + i - 1]]
    <2>1. (from + 3) - from + 1 = 4
        OBVIOUS
    <2> QED BY <2>1
<1>2. [i \in 1..4 |-> s[from + i - 1]] = [i \in 1..4 |-> 0]
    OBVIOUS
<1>3. [i \in 1..4 |-> 0] = <<0, 0, 0, 0>>
    OBVIOUS
<1> QED BY <1>1, <1>2, <1>3

\* An address has four bytes or eight.
LEMMA AddressIs ==
    ASSUME NEW n
    PROVE  /\ CONFIG_64BIT => Address(n) = <<n, 0, 16, 0, 0, 0, 0, 0>>
           /\ ~CONFIG_64BIT => Address(n) = <<n, 0, 16, 0>>
<1>1. <<n, 0, 16, 0>> \o <<0, 0, 0, 0>> = <<n, 0, 16, 0, 0, 0, 0, 0>>
    BY ZeroExtended
<1>2. <<n, 0, 16, 0>> \o <<>> = <<n, 0, 16, 0>>
    OBVIOUS
<1>3. CASE CONFIG_64BIT
    <2>1. Address(n) = <<n, 0, 16, 0>> \o <<0, 0, 0, 0>>
        BY <1>3, Zenon DEF Address
    <2> QED BY <1>1, <1>3, <2>1
<1>4. CASE ~CONFIG_64BIT
    <2>1. Address(n) = <<n, 0, 16, 0>> \o <<>>
        BY <1>4, Zenon DEF Address
    <2> QED BY <1>2, <1>4, <2>1
<1> QED BY <1>3, <1>4

\* And leads to the address that it was packed from.
LEMMA OffsetIs ==
    ASSUME NEW type, NEW sel, NEW dpl, NEW ist, NEW n
    PROVE  GateOffset(pack_gate(type, sel, Address(n), dpl, ist)) = Address(n)
<1>1. CASE CONFIG_64BIT
    <2> DEFINE a == <<n, 0, 16, 0, 0, 0, 0, 0>>
               b == 128 + 32 * dpl + type  s == sel % 256  h == sel \div 256
    <2> HIDE DEF b, s, h
    <2>1. Address(n) = a
        BY <1>1, AddressIs
    <2>2. Len(a) = 8
        OBVIOUS
    <2>3. pack_gate(type, sel, a, dpl, ist) = pack_x86_gate64(type, sel, a, dpl, ist)
        BY <2>2, Zenon DEF pack_gate
    <2> DEFINE g == <<n, 0, s, h, ist, b, 16, 0, 0, 0, 0, 0, 0, 0, 0, 0>>
    <2>4. pack_gate(type, sel, a, dpl, ist) = g
        BY <2>3 DEF pack_x86_gate64, b, s, h
    <2>5. Len(g) = 16
        OBVIOUS
    <2>6. GateOffset(g) = <<n, 0, 16, 0>> \o SubSeq(g, 9, 12)
        BY <2>5 DEF GateOffset
    <2>7. SubSeq(g, 9, 12) = <<0, 0, 0, 0>>
        <3>1. g[9] = 0 /\ g[10] = 0 /\ g[11] = 0 /\ g[12] = 0
            OBVIOUS
        <3>2. \A k \in 9..12 : k = 9 \/ k = 10 \/ k = 11 \/ k = 12
            OBVIOUS
        <3> HIDE DEF g
        <3>3. \A k \in 9..(9 + 3) : g[k] = 0
            BY <3>1, <3>2
        <3> QED BY <3>3, ZeroesFrom
    <2>8. <<n, 0, 16, 0>> \o <<0, 0, 0, 0>> = a
        BY ZeroExtended
    <2> QED BY <2>1, <2>4, <2>6, <2>7, <2>8
<1>2. CASE ~CONFIG_64BIT
    <2> DEFINE a == <<n, 0, 16, 0>>
               b == 128 + 32 * dpl + type  s == sel % 256  h == sel \div 256
    <2> HIDE DEF b, s, h
    <2>1. Address(n) = a
        BY <1>2, AddressIs
    <2>2. Len(a) # 8
        OBVIOUS
    <2>3. pack_gate(type, sel, a, dpl, ist) = pack_x86_gate32(type, sel, a, dpl, ist)
        BY <2>2, Zenon DEF pack_gate
    <2> DEFINE g == <<n, 0, s, h, ist, b, 16, 0>>
    <2>4. pack_gate(type, sel, a, dpl, ist) = g
        BY <2>3 DEF pack_x86_gate32, b, s, h
    <2>5. Len(g) = 8
        OBVIOUS
    <2>6. GateOffset(g) = <<n, 0, 16, 0>> \o SubSeq(g, 9, 8)
        BY <2>5 DEF GateOffset
    <2>7. SubSeq(g, 9, 8) = <<>>
        OBVIOUS
    <2>8. a \o <<>> = a
        OBVIOUS
    <2> QED BY <2>1, <2>4, <2>6, <2>7, <2>8
<1> QED BY <1>1, <1>2

\* The descriptor of the TSS at Address(n), whose type the processor changes.
HoldsTss(d, n) ==
    /\ d[3] = n /\ d[4] = 0 /\ d[5] = 16 /\ d[8] = 0
    /\ SegS(d) = 0

\* pack_tss_desc() and ltr make such descriptors in their slots, and no others.
LEMMA TssIsPacked ==
    ASSUME NEW gdt0, DOMAIN gdt0 = 0..14, NEW slot \in {GDTE_TSS, GDTE_TSS_DF}, NEW n,
           slot = GDTE_TSS_DF => ~CONFIG_64BIT,
           NEW packed, packed = pack_tss_desc(gdt0, slot, Address(n), CONFIG_64BIT)
    PROVE  /\ DOMAIN packed = 0..14
           /\ \A i \in 0..14 : i # slot /\ (CONFIG_64BIT => i # slot + 1) => packed[i] = gdt0[i]
           /\ HoldsTss(packed[slot], n)
           /\ SegP(packed[slot]) = 1 /\ SegType(packed[slot]) = 9 /\ packed[slot][6] = 137
           /\ DOMAIN packed[slot] = 1..8
           /\ CONFIG_64BIT => SubSeq(packed[slot + 1], 1, 4) = <<0, 0, 0, 0>>
<1> DEFINE base == Address(n)
           d == INIT_GDTE(base, <<SizeOfTss - 1, 0, 0, 0>>, <<137, 0>>)
           low == [gdt0 EXCEPT ![slot] = d]
           top == SubSeq(base, 5, 8) \o <<0, 0, 0, 0>>
           high == [low EXCEPT ![slot + 1] = top]
<1>1. base[1] = n /\ base[2] = 0 /\ base[3] = 16 /\ base[4] = 0
    BY AddressIs
<1> HIDE DEF base
<1>2. packed = IF CONFIG_64BIT THEN high ELSE low
    BY Zenon DEF pack_tss_desc, PackSystem, Slot, base
<1>3. d = <<SizeOfTss - 1, 0, n, 0, 16, 137, (0 \div 16) * 16 + (0 % 16), 0>>
    BY <1>1 DEF INIT_GDTE
<1>4. /\ d[3] = n /\ d[4] = 0 /\ d[5] = 16 /\ d[8] = 0 /\ d[6] = 137 /\ DOMAIN d = 1..8
    BY <1>3
<1> HIDE DEF d, top
<1>5. HoldsTss(d, n) /\ SegP(d) = 1 /\ SegType(d) = 9
    BY <1>4, SMT DEF HoldsTss, SegS, SegP, SegType
<1>6. slot \in 0..14 /\ slot + 1 \in 0..14 /\ slot # slot + 1
    BY DEF GDTE_TSS, GDTE_TSS_DF
<1>7. DOMAIN low = 0..14 /\ low[slot] = d /\ \A i \in 0..14 : i # slot => low[i] = gdt0[i]
    BY <1>6
<1> HIDE DEF low
<1>8. /\ DOMAIN high = 0..14 /\ high[slot] = d /\ high[slot + 1] = top
      /\ \A i \in 0..14 : i # slot /\ i # slot + 1 => high[i] = gdt0[i]
    BY <1>6, <1>7
<1> HIDE DEF high
<1>9. CONFIG_64BIT => SubSeq(top, 1, 4) = <<0, 0, 0, 0>>
    <2> SUFFICES ASSUME CONFIG_64BIT PROVE SubSeq(top, 1, 4) = <<0, 0, 0, 0>>
        OBVIOUS
    <2>1. base = <<n, 0, 16, 0, 0, 0, 0, 0>>
        BY AddressIs DEF base
    <2>2. SubSeq(<<n, 0, 16, 0, 0, 0, 0, 0>>, 5, 8) = <<0, 0, 0, 0>>
        <3> DEFINE s == <<n, 0, 16, 0, 0, 0, 0, 0>>
        <3>1. \A k \in 5..(5 + 3) : s[k] = 0
            OBVIOUS
        <3> HIDE DEF s
        <3>2. SubSeq(s, 5, 5 + 3) = <<0, 0, 0, 0>>
            BY <3>1, ZeroesFrom
        <3> QED BY <3>2 DEF s
    <2>3. top = <<0, 0, 0, 0, 0, 0, 0, 0>>
        BY <2>1, <2>2, ZeroExtended DEF top
    <2>4. SubSeq(<<0, 0, 0, 0, 0, 0, 0, 0>>, 1, 4) = <<0, 0, 0, 0>>
        <3> DEFINE s == <<0, 0, 0, 0, 0, 0, 0, 0>>
        <3>1. \A k \in 1..(1 + 3) : s[k] = 0
            OBVIOUS
        <3> HIDE DEF s
        <3>2. SubSeq(s, 1, 1 + 3) = <<0, 0, 0, 0>>
            BY <3>1, ZeroesFrom
        <3> QED BY <3>2 DEF s
    <2> QED BY <2>3, <2>4
<1> QED BY <1>2, <1>4, <1>5, <1>7, <1>8, <1>9

-----------------------------------------------------------------------------
(* The tables of a build, as far as they are set up.                       *)

\* The gates of init_idt(), and the trap gdt0 of a PV guest.
Gates ==
    [v \in Vectors |->
        IF v = X86_EXC_DF
        THEN IF CONFIG_64BIT THEN pack_intr_gate(__KERN_CS, entry(v), 0, 1)
             ELSE pack_task_gate(GDTE_TSS_DF * 8)
        ELSE pack_intr_gate(__KERN_CS, entry(v),
                 IF v \in {X86_EXC_BP, X86_EXC_OF, X86_VEC_RET2KERN} THEN 3 ELSE 0, 0)]
Traps ==
    [v \in Vectors |->
        [flags |-> 4 + (IF v \in {X86_EXC_BP, X86_EXC_OF, X86_VEC_RET2KERN} THEN 3 ELSE 0),
         cs |-> __KERN_CS, address |-> entry(v)]]

\* A build takes no steps of the other kind.
KindInv ==
    /\ CONFIG_PV => Pending \intersect {"cr0", "lgdt", "ljmp", "segments", "idt", "tss"} = {}
    /\ ~CONFIG_PV => Pending \intersect {"set_trap_table", "stack_switch"} = {}

\* What the processor, or Xen, has been given, and what it is in.
TablesInv ==
    /\ ~CONFIG_PV =>
          /\ DOMAIN gdt = 0..14 /\ \A n \in 1..6 : gdt[n] = gdt_hvm[n]
          /\ "lgdt" \notin Pending => vcpu.lgdt
          /\ "idt" \notin Pending => idt = Gates /\ vcpu.lidt /\ (~CONFIG_64BIT => HoldsTss(gdt[GDTE_TSS_DF], 65))
          /\ "tss" \notin Pending => /\ vcpu.tr = GDTE_TSS * 8 /\ HoldsTss(gdt[GDTE_TSS], 64)
                                     /\ CONFIG_64BIT => SubSeq(gdt[GDTE_TSS + 1], 1, 4) = <<0, 0, 0, 0>>
    /\ CONFIG_PV =>
          /\ "set_trap_table" \notin Pending => idt = Traps
          /\ "stack_switch" \notin Pending => vcpu.kernel_sp = 2

\* Everything that TablesInv is about.
Unmoved == UNCHANGED <<gdt, idt, vcpu.lgdt, vcpu.lidt, vcpu.tr, vcpu.kernel_sp>>
TableSteps == {"lgdt", "idt", "tss", "set_trap_table", "stack_switch"}

\* A step either leaves the tables and their steps alone, or ends setup, or is one
\* of these.
LEMMA TableEffectsAre ==
    ASSUME TodoInv, VcpuOK, [Next]_vars, state' \in {"boot", "run"}
    PROVE  \/ Unmoved /\ \A t \in TableSteps : t \in Pending => t \in Pending'
           \/ lgdt \/ init_idt \/ init_tss \/ set_trap_table \/ set_gdt \/ stack_switch
<1> DEFINE Quiet == Unmoved /\ \A t \in TableSteps : t \in Pending => t \in Pending'
           Took(s) == Unmoved /\ Step(s)
<1>1. ASSUME NEW s \in Names \ TableSteps, Took(s)
      PROVE  Quiet
    BY <1>1, TodoInvStep
<1>2. ASSUME UNCHANGED <<todo, vcpu, gdt, idt>>
      PROVE  Quiet
    BY <1>2 DEF Unmoved, Pending
<1>3. CASE Head_S
    <2>1. CASE mov_cr4 \/ mov_cr3 \/ wrmsr_efer \/ mov_cr0 \/ ljmp \/ load_segments
        <3>1. Took("cr4") \/ Took("cr3") \/ Took("efer") \/ Took("cr0") \/ Took("ljmp") \/ Took("segments")
            BY <2>1 DEF mov_cr4, mov_cr3, wrmsr_efer, mov_cr0, ljmp, load_segments, Unmoved, VcpuOK
        <3> HIDE DEF Took, Quiet
        <3> QED BY <1>1, <3>1, NamesAre DEF TableSteps, Quiet
    <2> QED BY <1>3, <2>1 DEF Head_S, head
<1>4. CASE Collect
    <2>1. Took("cpuid")
        BY <1>4 DEF Collect, Unmoved
    <2> HIDE DEF Took, Quiet
    <2> QED BY <1>1, <2>1, NamesAre DEF TableSteps, Quiet
<1>5. CASE SortExtable
    <2>1. CASE todo' = todo
        BY <1>2, <1>5, <2>1 DEF SortExtable
    <2>2. CASE todo' # todo
        <3>1. Took("sort")
            BY <1>5, <2>2 DEF SortExtable, Step, Unmoved
        <3> HIDE DEF Took, Quiet
        <3> QED BY <1>1, <3>1, NamesAre DEF TableSteps, Quiet
    <2> QED BY <2>1, <2>2
<1>6. CASE InitTraps
    <2>1. CASE remap_gdt \/ new_user_baseptr \/ unmap_null
        <3>1. Took("remap_gdt") \/ Took("user_baseptr") \/ Took("unmap_null")
            BY <2>1 DEF remap_gdt, new_user_baseptr, unmap_null, Unmoved, VcpuOK
        <3> HIDE DEF Took, Quiet
        <3> QED BY <1>1, <3>1, NamesAre DEF TableSteps, Quiet
    <2>2. ASSUME NEW type \in {"event", "syscall", "syscall32", "sysenter"}, register_callback(type)
          PROVE  Quiet
        <3>1. Took(type)
            BY <2>2 DEF register_callback, Unmoved, VcpuOK
        <3>2. type \in Names \ TableSteps
            BY NamesAre DEF TableSteps
        <3> HIDE DEF Took
        <3> QED BY <1>1, <3>1, <3>2
    <2>3. ASSUME NEW s \in Sections, RemapUser(s) \/ remap_linear_range(s) \/ remap_fails(s)
          PROVE  Quiet
        <3>1. Took(s)
            BY <2>3 DEF RemapUser, remap_linear_range, remap_fails, Unmoved
        <3>2. s \in Names \ TableSteps
            BY NamesAre, SectionsIn DEF TableSteps
        <3> HIDE DEF Took
        <3> QED BY <1>1, <3>1, <3>2
    <2>4. ~InitFails
        BY DEF InitFails
    <2> QED BY <1>6, <2>1, <2>2, <2>3, <2>4, Zenon DEF InitTraps, arch_init_traps
<1>7. CASE init_hypercalls \/ setup_pv_console \/ setup_xenbus \/ map_shared_info
    <2>1. Took("hypercalls") \/ Took("console") \/ Took("xenbus") \/ Took("shared_info")
        BY <1>7 DEF init_hypercalls, setup_pv_console, setup_xenbus, map_shared_info, Unmoved
    <2> HIDE DEF Took, Quiet
    <2> QED BY <1>1, <2>1, NamesAre DEF TableSteps, Quiet
<1>8. ~Fails("xenbus") /\ ~Fails("shared_info")
    BY DEF Fails
<1>9. CASE SetupDone
    BY <1>2, <1>9 DEF SetupDone
<1>10. CASE Faults \/ Dispatch \/ Stopped \/ UNCHANGED vars
    <2>1. UNCHANGED <<todo, vcpu, gdt, idt>>
        <3>1. CASE Faults \/ Dispatch
            BY <3>1 DEF Faults, Dispatch, bootVars
        <3>2. CASE Stopped \/ UNCHANGED vars
            <4>1. UNCHANGED bootVars
                BY <3>2 DEF vars, Stopped
            <4> QED BY <4>1 DEF bootVars
        <3> QED BY <1>10, <3>1, <3>2
    <2> QED BY <1>2, <2>1
<1> QED BY <1>3, <1>4, <1>5, <1>6, <1>7, <1>8, <1>9, <1>10, Zenon DEF Next, arch_setup

\* Selectors and privileges stay with the build.
LEMMA SelectorsStay ==
    ASSUME UNCHANGED build
    PROVE  /\ __KERN_CS' = __KERN_CS /\ __KERN_DS' = __KERN_DS /\ __USER_CS' = __USER_CS
           /\ __USER_DS' = __USER_DS /\ Gates' = Gates /\ Traps' = Traps /\ Bits' = Bits
           /\ \A n : Address(n)' = Address(n)
<1>1. CONFIG_PV' = CONFIG_PV /\ CONFIG_64BIT' = CONFIG_64BIT
    BY ConfigStays
<1>2. /\ __KERN_CS' = __KERN_CS /\ __KERN_DS' = __KERN_DS /\ __USER_CS' = __USER_CS
      /\ __USER_DS' = __USER_DS /\ Bits' = Bits
    <2>1. __KERN_CS' = __KERN_CS
        BY <1>1, SMT DEF __KERN_CS
    <2>2. __KERN_DS' = __KERN_DS
        BY <1>1, SMT DEF __KERN_DS
    <2>3. __USER_CS' = __USER_CS
        BY <1>1, SMT DEF __USER_CS
    <2>4. __USER_DS' = __USER_DS
        BY <1>1, SMT DEF __USER_DS
    <2>5. Bits' = Bits
        BY <1>1, SMT DEF Bits
    <2> QED BY <2>1, <2>2, <2>3, <2>4, <2>5
<1>3. \A n : Address(n)' = Address(n)
    BY <1>1, Zenon DEF Address
<1>4. \A v : entry(v)' = entry(v)
    BY <1>3, Zenon DEF entry
<1>5. Gates' = Gates
    BY <1>1, <1>2, <1>4, Zenon DEF Gates
<1>6. Traps' = Traps
    BY <1>2, <1>4, Zenon DEF Traps
<1> QED BY <1>2, <1>3, <1>5, <1>6

\* Each table is handed over in its step, and only there.
LEMMA TablesStep ==
    ASSUME TodoInv, VcpuOK, KindInv, TablesInv, [Next]_vars, state' \in {"boot", "run"}
    PROVE  TablesInv'
<1>1. Pending' \subseteq Pending /\ UNCHANGED build
    BY TodoInvStep
<1>2. CONFIG_PV' = CONFIG_PV /\ CONFIG_64BIT' = CONFIG_64BIT /\ Gates' = Gates /\ Traps' = Traps
    BY <1>1, ConfigStays, SelectorsStay
<1>3. {"lgdt", "idt", "tss", "set_trap_table", "stack_switch", "set_gdt"} \subseteq Names
    BY NamesAre
<1>4. \A s \in Names : Step(s) => s \in Pending /\ Pending' = Pending \ {s}
    BY TodoInvStep
<1>5. CASE Unmoved /\ \A t \in TableSteps : t \in Pending => t \in Pending'
    BY <1>1, <1>2, <1>5 DEF TablesInv, Unmoved, TableSteps
<1>6. CASE lgdt
    <2>1. Pending' = Pending \ {"lgdt"} /\ UNCHANGED <<gdt, idt>>
        BY <1>3, <1>4, <1>6 DEF lgdt
    <2>2. vcpu'.lgdt /\ UNCHANGED <<vcpu.lidt, vcpu.tr, vcpu.kernel_sp>>
        BY <1>6 DEF lgdt, VcpuOK
    <2> QED BY <1>2, <2>1, <2>2 DEF TablesInv
<1>7. CASE set_gdt
    <2>1. Pending' = Pending \ {"set_gdt"} /\ UNCHANGED <<gdt, idt>>
        BY <1>3, <1>4, <1>7 DEF set_gdt
    <2>2. vcpu'.lgdt /\ UNCHANGED <<vcpu.lidt, vcpu.tr, vcpu.kernel_sp>>
        BY <1>7 DEF set_gdt, VcpuOK
    <2> QED BY <1>2, <2>1, <2>2 DEF TablesInv
<1>8. CASE set_trap_table
    <2>1. "set_trap_table" \in Pending /\ Pending' = Pending \ {"set_trap_table"} /\ UNCHANGED <<gdt, vcpu>>
        BY <1>3, <1>4, <1>8 DEF set_trap_table
    <2>2. idt' = Traps
        BY <1>8 DEF set_trap_table, Traps
    <2>3. CONFIG_PV
        BY <2>1 DEF KindInv
    <2> QED BY <1>2, <2>1, <2>2, <2>3 DEF TablesInv
<1>9. CASE stack_switch
    <2>1. "stack_switch" \in Pending /\ Pending' = Pending \ {"stack_switch"} /\ UNCHANGED <<gdt, idt>>
        BY <1>3, <1>4, <1>9 DEF stack_switch
    <2>2. vcpu'.kernel_sp = 2
        BY <1>9 DEF stack_switch, VcpuOK
    <2>3. CONFIG_PV
        BY <2>1 DEF KindInv
    <2> QED BY <1>2, <2>1, <2>2, <2>3 DEF TablesInv
<1>10. CASE init_idt
    <2>1. "idt" \in Pending /\ Pending' = Pending \ {"idt"}
        BY <1>3, <1>4, <1>10 DEF init_idt
    <2>2. ~CONFIG_PV
        BY <2>1 DEF KindInv
    <2>3. idt' = Gates
        BY <1>10 DEF init_idt, Gates
    <2>4. vcpu'.lidt /\ UNCHANGED <<vcpu.lgdt, vcpu.tr, vcpu.kernel_sp>>
        BY <1>10 DEF init_idt, VcpuOK
    <2>5. CASE CONFIG_64BIT
        BY <1>2, <1>10, <2>1, <2>2, <2>3, <2>4, <2>5 DEF init_idt, TablesInv
    <2>6. CASE ~CONFIG_64BIT
        <3>1. gdt' = pack_tss_desc(gdt, GDTE_TSS_DF, Address(65), CONFIG_64BIT)
            <4>1. CONFIG_64BIT = FALSE
                BY <2>6 DEF CONFIG_64BIT
            <4>2. gdt' = pack_tss_desc(gdt, GDTE_TSS_DF, Address(65), FALSE)
                BY <1>10, <2>6 DEF init_idt
            <4> QED BY <4>1, <4>2
        <3>2. DOMAIN gdt = 0..14
            BY <2>2 DEF TablesInv
        <3>3. /\ DOMAIN gdt' = 0..14 /\ HoldsTss(gdt'[GDTE_TSS_DF], 65)
              /\ \A i \in 0..14 : i # GDTE_TSS_DF => gdt'[i] = gdt[i]
            BY <2>6, <3>1, <3>2, TssIsPacked
        <3>4. \A n \in 1..6 : n \in 0..14 /\ n # 8
            OBVIOUS
        <3>5. \A n \in 1..7 : gdt'[n] = gdt[n]
            BY <3>3 DEF GDTE_TSS_DF
        <3> QED BY <1>2, <2>1, <2>2, <2>3, <2>4, <2>6, <3>3, <3>5 DEF TablesInv, GDTE_TSS
    <2> QED BY <2>5, <2>6
<1>11. CASE init_tss
    <2> DEFINE packed == pack_tss_desc(gdt, GDTE_TSS, Address(64), CONFIG_64BIT)
    <2>1. "tss" \in Pending /\ Pending' = Pending \ {"tss"} /\ UNCHANGED idt
        BY <1>3, <1>4, <1>11 DEF init_tss
    <2>2. ~CONFIG_PV
        BY <2>1 DEF KindInv
    <2>3. vcpu'.tr = GDTE_TSS * 8 /\ UNCHANGED <<vcpu.lgdt, vcpu.lidt, vcpu.kernel_sp>>
        BY <1>11 DEF init_tss, VcpuOK
    <2>4. gdt' = [packed EXCEPT ![GDTE_TSS] = [packed[GDTE_TSS] EXCEPT ![6] = packed[GDTE_TSS][6] + 2]]
        BY <1>11 DEF init_tss
    <2>5. DOMAIN gdt = 0..14
        BY <2>2 DEF TablesInv
    <2>6. /\ DOMAIN packed = 0..14 /\ HoldsTss(packed[GDTE_TSS], 64) /\ packed[GDTE_TSS][6] = 137
          /\ DOMAIN packed[GDTE_TSS] = 1..8
          /\ CONFIG_64BIT => SubSeq(packed[GDTE_TSS + 1], 1, 4) = <<0, 0, 0, 0>>
          /\ \A i \in 0..14 : i # GDTE_TSS /\ (CONFIG_64BIT => i # GDTE_TSS + 1) => packed[i] = gdt[i]
        BY <2>5, TssIsPacked DEF GDTE_TSS, GDTE_TSS_DF
    <2> HIDE DEF packed
    <2>7. DOMAIN gdt' = 0..14 /\ \A i \in 0..14 : i # 7 => gdt'[i] = packed[i]
        BY <2>4, <2>6 DEF GDTE_TSS
    <2>8. gdt'[7] = [packed[7] EXCEPT ![6] = 139]
        BY <2>4, <2>6 DEF GDTE_TSS
    <2>9. HoldsTss(gdt'[7], 64)
        <3> DEFINE d == packed[7]
        <3>1. DOMAIN d = 1..8 /\ d[3] = 64 /\ d[4] = 0 /\ d[5] = 16 /\ d[8] = 0
            BY <2>6 DEF GDTE_TSS, HoldsTss
        <3> DEFINE e == gdt'[7]
        <3> HIDE DEF d
        <3>2. e = [d EXCEPT ![6] = 139]
            BY <2>8 DEF d
        <3> HIDE DEF e
        <3>3. e[3] = 64 /\ e[4] = 0 /\ e[5] = 16 /\ e[8] = 0 /\ e[6] = 139
            BY <3>1, <3>2
        <3> QED BY <3>3, SMT DEF HoldsTss, SegS, e
    <2>10. \A n \in 1..6 : gdt'[n] = gdt[n]
        BY <2>6, <2>7 DEF GDTE_TSS
    <2>11. ~CONFIG_64BIT => gdt'[8] = gdt[8]
        BY <2>6, <2>7 DEF GDTE_TSS
    <2>12. CONFIG_64BIT => SubSeq(gdt'[8], 1, 4) = <<0, 0, 0, 0>>
        BY <2>6, <2>7 DEF GDTE_TSS
    <2> QED BY <1>2, <2>1, <2>2, <2>3, <2>7, <2>9, <2>10, <2>11, <2>12 DEF TablesInv, GDTE_TSS, GDTE_TSS_DF
<1> QED BY <1>5, <1>6, <1>7, <1>8, <1>9, <1>10, <1>11, TableEffectsAre, Zenon

-----------------------------------------------------------------------------
(* No step of start-up faults.                                             *)

\* The selectors of the builds, and their privileges.
LEMMA SelectorsAre ==
    ASSUME HostInv
    PROVE  /\ KERN \in 0..2 /\ USER = 3
           /\ ~CONFIG_PV => KERN = 0
           /\ ~CONFIG_PV /\ CONFIG_64BIT =>
                 __KERN_CS = 8 /\ __KERN_DS = 0 /\ __USER_CS = 35 /\ __USER_DS = 51
           /\ ~CONFIG_PV /\ ~CONFIG_64BIT =>
                 __KERN_CS = 16 /\ __KERN_DS = 24 /\ __USER_CS = 43 /\ __USER_DS = 51
<1>1. ~CONFIG_PV /\ CONFIG_64BIT => __KERN_CS = 8 /\ __KERN_DS = 0 /\ __USER_CS = 35 /\ __USER_DS = 51
    BY DEF __KERN_CS, __KERN_DS, __USER_CS, __USER_DS, GDTE_CS64_DPL0, GDTE_CS64_DPL3, GDTE_DS32_DPL3
<1>2. ~CONFIG_PV /\ ~CONFIG_64BIT => __KERN_CS = 16 /\ __KERN_DS = 24 /\ __USER_CS = 43 /\ __USER_DS = 51
    BY DEF __KERN_CS, __KERN_DS, __USER_CS, __USER_DS, GDTE_CS32_DPL0, GDTE_DS32_DPL0, GDTE_CS32_DPL3,
           GDTE_DS32_DPL3
<1>3. ~CONFIG_PV => KERN = 0 /\ USER = 3
    BY <1>1, <1>2, SMT DEF KERN, USER, RPL
<1>4. CONFIG_PV /\ CONFIG_64BIT => KERN = 0 /\ USER = 3
    BY SMT DEF KERN, USER, RPL, __KERN_CS, __USER_CS
<1>5. CONFIG_PV /\ ~CONFIG_64BIT => KERN = 1 /\ USER = 3
    BY SMT DEF KERN, USER, RPL, __KERN_CS, __USER_CS
<1> QED BY <1>1, <1>2, <1>3, <1>4, <1>5

\* A processor is in long mode in 64-bit builds, and in no others.
LEMMA LongModeIs ==
    ASSUME HostInv, PagingInv, ~CONFIG_PV, Paged
    PROVE  LongMode <=> CONFIG_64BIT
<1>1. CONFIG_64BIT => CONFIG_PAGING_LEVELS > 0
    BY BuildsAre DEF HostInv
<1> QED BY <1>1 DEF PagingInv, Paged, LongMode

\* The selectors lead to what they stand for.
LEMMA DescriptorsAre ==
    ASSUME HostInv, PagingInv, TablesInv, ~CONFIG_PV, Paged
    PROVE  /\ LoadsCs(__KERN_CS, 0) /\ CodeSegment(Descriptor(__KERN_CS))
           /\ SegDPL(Descriptor(__KERN_CS)) = 0 /\ CodeBits(Descriptor(__KERN_CS)) = Bits
           /\ LoadsCs(__USER_CS, 3) /\ CodeBits(Descriptor(__USER_CS)) = Bits
           /\ LoadsSs(__USER_DS, 3) /\ LoadsDs(__USER_DS, 0) /\ LoadsSs(__KERN_DS, 0)
<1>1. LongMode <=> CONFIG_64BIT
    BY LongModeIs
<1>2. \A n \in 1..6 : gdt[n] = gdt_hvm[n]
    BY DEF TablesInv
<1>3. /\ HoldsCode(gdt[1], 0, TRUE) /\ HoldsCode(gdt[2], 0, FALSE) /\ HoldsData(gdt[3], 0)
      /\ HoldsCode(gdt[4], 3, TRUE) /\ HoldsCode(gdt[5], 3, FALSE) /\ HoldsData(gdt[6], 3)
    <2>1. /\ gdt[1] = gdt_hvm[1] /\ gdt[2] = gdt_hvm[2] /\ gdt[3] = gdt_hvm[3]
          /\ gdt[4] = gdt_hvm[4] /\ gdt[5] = gdt_hvm[5] /\ gdt[6] = gdt_hvm[6]
        BY <1>2
    <2> QED BY <2>1, SegmentsAre, Zenon DEF GDTE_CS64_DPL0, GDTE_CS32_DPL0, GDTE_DS32_DPL0,
                                            GDTE_CS64_DPL3, GDTE_CS32_DPL3, GDTE_DS32_DPL3
<1>4. ASSUME NEW d, NEW dpl, HoldsCode(d, dpl, LongMode)
      PROVE  CodeSegment(d) /\ SegDPL(d) = dpl /\ CodeBits(d) = Bits
    BY <1>1, <1>4 DEF HoldsCode, CodeSegment, CodeBits, Bits
<1>5. ASSUME NEW d, NEW dpl, HoldsData(d, dpl)
      PROVE  DataSegment(d) /\ SegDPL(d) = dpl /\ SegW(d) = 1
    BY <1>5 DEF HoldsData, DataSegment
<1>6. 8 \div 8 = 1 /\ 16 \div 8 = 2 /\ 24 \div 8 = 3 /\ 35 \div 8 = 4 /\ 43 \div 8 = 5 /\ 51 \div 8 = 6
      /\ 51 \div 4 # 0 /\ 24 % 4 = 0 /\ 51 % 4 = 3
    BY SMT
<1>7. /\ HoldsCode(Descriptor(__KERN_CS), 0, LongMode) /\ HoldsCode(Descriptor(__USER_CS), 3, LongMode)
      /\ HoldsData(Descriptor(__USER_DS), 3)
    <2>1. CASE CONFIG_64BIT
        <3>1. LongMode = TRUE
            BY <1>1, <2>1 DEF LongMode
        <3> QED BY <1>3, <1>6, <2>1, <3>1, SelectorsAre DEF Descriptor
    <2>2. CASE ~CONFIG_64BIT
        <3>1. LongMode = FALSE
            BY <1>1, <2>2 DEF LongMode
        <3> QED BY <1>3, <1>6, <2>2, <3>1, SelectorsAre DEF Descriptor
    <2> QED BY <2>1, <2>2
<1>8. /\ CodeSegment(Descriptor(__KERN_CS)) /\ SegDPL(Descriptor(__KERN_CS)) = 0
      /\ CodeBits(Descriptor(__KERN_CS)) = Bits
      /\ CodeSegment(Descriptor(__USER_CS)) /\ SegDPL(Descriptor(__USER_CS)) = 3
      /\ CodeBits(Descriptor(__USER_CS)) = Bits
      /\ DataSegment(Descriptor(__USER_DS)) /\ SegDPL(Descriptor(__USER_DS)) = 3
      /\ SegW(Descriptor(__USER_DS)) = 1
    BY <1>4, <1>5, <1>7
<1>9. __KERN_CS # 0 /\ __USER_CS # 0 /\ __USER_DS = 51
    BY SelectorsAre
<1>10. LoadsCs(__KERN_CS, 0) /\ LoadsCs(__USER_CS, 3)
    BY <1>8, <1>9 DEF LoadsCs
<1>11. LoadsSs(__USER_DS, 3)
    BY <1>6, <1>8, <1>9 DEF LoadsSs, RPL
<1>12. LoadsDs(__USER_DS, 0)
    <2>1. {0, RPL(__USER_DS)} \subseteq 0..SegDPL(Descriptor(__USER_DS))
        BY <1>6, <1>8, <1>9 DEF RPL
    <2> QED BY <1>8, <2>1 DEF LoadsDs
<1>13. LoadsSs(__KERN_DS, 0)
    <2>1. CASE CONFIG_64BIT
        BY <1>1, <2>1, SelectorsAre DEF LoadsSs
    <2>2. CASE ~CONFIG_64BIT
        <3>1. __KERN_DS = 24
            BY <2>2, SelectorsAre
        <3>2. Descriptor(24) = gdt[3]
            BY <1>6 DEF Descriptor
        <3>3. DataSegment(gdt[3]) /\ SegDPL(gdt[3]) = 0 /\ SegW(gdt[3]) = 1
            BY <1>3, <1>5
        <3> QED BY <1>6, <3>1, <3>2, <3>3 DEF LoadsSs, RPL
    <2> QED BY <2>1, <2>2
<1> QED BY <1>8, <1>10, <1>11, <1>12, <1>13

\* Paging comes with the registers for it.
OrderInv == ~CONFIG_PV /\ "cr0" \notin Pending => Paged

\* What precedes a step is not pending at it.
LEMMA Precedes ==
    ASSUME TodoInv, [Next]_vars, NEW s \in Names, Step(s)
    PROVE  /\ s \in Pending
           /\ s = "cr0" => Pending \intersect {"cr4", "cr3", "efer"} = {}
           /\ s \in {"ljmp", "segments", "tss"} => Pending \intersect {"cr4", "cr3", "efer", "cr0", "lgdt"} = {}
           /\ s \in {"idt", "set_trap_table"} => "sort" \notin Pending
<1>1. s \in Pending /\ \A t \in Pending : Rank[s] <= Rank[t]
    BY TodoInvStep
<1>2. s = "cr0" => Pending \intersect {"cr4", "cr3", "efer"} = {}
    BY <1>1, RankIs
<1>3. s \in {"ljmp", "segments", "tss"} => Pending \intersect {"cr4", "cr3", "efer", "cr0", "lgdt"} = {}
    BY <1>1, RankIs
<1>4. s \in {"idt", "set_trap_table"} => "sort" \notin Pending
    BY <1>1, RankIs
<1> QED BY <1>1, <1>2, <1>3, <1>4

\* The registers for paging are loaded before it is switched on.
LEMMA OrderInvStep ==
    ASSUME TodoInv, OrderInv, [Next]_vars
    PROVE  OrderInv'
<1>1. Pending' \subseteq Pending /\ UNCHANGED build
    BY TodoInvStep
<1>2. CONFIG_PV' = CONFIG_PV
    BY <1>1, ConfigStays
<1>3. CASE "cr0" \notin Pending
    BY <1>1, <1>2, <1>3 DEF OrderInv, Paged
<1>4. CASE todo' = todo
    BY <1>2, <1>4 DEF OrderInv, Paged, Pending
<1>5. ASSUME NEW s \in Names, Step(s), "cr0" \in Pending
      PROVE  OrderInv'
    <2>1. Pending' = Pending \ {s}
        BY <1>5, TodoInvStep
    <2>2. CASE s = "cr0"
        <3>1. Pending \intersect {"cr4", "cr3", "efer"} = {}
            BY <1>5, <2>2, Precedes
        <3> QED BY <2>1, <2>2, <3>1 DEF OrderInv, Paged
    <2>3. CASE s # "cr0"
        BY <1>5, <2>1, <2>3 DEF OrderInv
    <2> QED BY <2>2, <2>3
<1> QED BY <1>3, <1>4, <1>5, StepsAre

\* The steps at which a fault would be final.
LEMMA DeadlySteps ==
    ASSUME [Next]_vars, state # "dead", state' = "dead"
    PROVE  mov_cr0 \/ ljmp \/ load_segments \/ init_tss
<1>1. CASE Head_S
    BY <1>1 DEF Head_S, head, mov_cr4, mov_cr3, wrmsr_efer, lgdt
<1>2. CASE Collect \/ SortExtable \/ init_hypercalls \/ setup_pv_console \/ setup_xenbus
    BY <1>2 DEF Collect, SortExtable, init_hypercalls, setup_pv_console, setup_xenbus
<1>3. CASE Fails("xenbus") \/ map_shared_info \/ Fails("shared_info") \/ SetupDone
    BY <1>3 DEF Fails, map_shared_info, SetupDone
<1>4. CASE Faults \/ Dispatch
    BY <1>4 DEF Faults, Dispatch, bootVars
<1>5. CASE Stopped \/ UNCHANGED vars
    <2>1. UNCHANGED bootVars
        BY <1>5 DEF vars, Stopped
    <2> QED BY <2>1 DEF bootVars
<1>6. CASE InitTraps
    <2>1. CASE init_idt \/ set_gdt \/ stack_switch \/ new_user_baseptr \/ set_trap_table \/ remap_gdt
               \/ unmap_null \/ InitFails
        BY <2>1 DEF init_idt, set_gdt, stack_switch, new_user_baseptr, set_trap_table, remap_gdt,
                    unmap_null, InitFails
    <2>2. CASE \E type \in {"event", "syscall", "syscall32", "sysenter"} : register_callback(type)
        BY <2>2 DEF register_callback
    <2>3. CASE (\E s \in Sections : RemapUser(s) \/ remap_linear_range(s) \/ remap_fails(s))
        BY <2>3 DEF RemapUser, remap_linear_range, remap_fails
    <2> QED BY <1>6, <2>1, <2>2, <2>3 DEF InitTraps, arch_init_traps
<1> QED BY <1>1, <1>2, <1>3, <1>4, <1>5, <1>6 DEF Next, arch_setup

\* None of them faults: what each needs is there by then.
LEMMA NoneDies ==
    ASSUME TodoInv, VcpuOK, HostInv, PagingInv, KindInv, TablesInv, [Next]_vars, state # "dead"
    PROVE  state' # "dead"
<1>1. {"cr0", "ljmp", "segments", "tss"} \subseteq Names
    BY NamesAre
<1>2. CASE mov_cr0
    <2>1. "cr0" \in Pending /\ "cr4" \notin Pending
        BY <1>1, <1>2, Precedes DEF mov_cr0
    <2>2. ~CONFIG_PV
        BY <2>1 DEF KindInv
    <2>3. CONFIG_64BIT => CONFIG_PAGING_LEVELS = 4
        BY <2>2, BuildsAre DEF HostInv
    <2>4. "LME" \in vcpu.efer => "PAE" \in vcpu.cr4
        BY <2>1, <2>2, <2>3 DEF PagingInv
    <2> QED BY <1>2, <2>4 DEF mov_cr0, Unless
<1>3. ASSUME NEW s \in {"ljmp", "segments", "tss"}, Step(s)
      PROVE  ~CONFIG_PV /\ Paged /\ vcpu.lgdt
    <2>1. s \in Pending /\ Pending \intersect {"cr4", "cr3", "efer", "cr0", "lgdt"} = {}
        BY <1>1, <1>3, Precedes
    <2>2. ~CONFIG_PV
        BY <2>1 DEF KindInv
    <2> QED BY <2>1, <2>2 DEF Paged, TablesInv
<1>4. CASE ljmp
    <2>1. ~CONFIG_PV /\ Paged /\ vcpu.lgdt
        BY <1>3, <1>4 DEF ljmp
    <2>2. LoadsCs(__KERN_CS, 0) /\ CodeBits(Descriptor(__KERN_CS)) = Bits
        BY <2>1, DescriptorsAre
    <2>3. vcpu'.bits = CodeBits(Descriptor(__KERN_CS))
        BY <1>4 DEF ljmp, VcpuOK
    <2>4. Bits' = Bits
        BY <1>4, ConfigStays DEF ljmp, Bits
    <2> QED BY <1>4, <2>1, <2>2, <2>3, <2>4 DEF ljmp, Unless
<1>5. CASE load_segments
    <2>1. ~CONFIG_PV /\ Paged
        BY <1>3, <1>5 DEF load_segments
    <2>2. LoadsDs(__USER_DS, 0) /\ LoadsSs(__KERN_DS, 0)
        BY <2>1, DescriptorsAre
    <2> QED BY <1>5, <2>2 DEF load_segments, Unless
<1>6. CASE init_tss
    <2> DEFINE packed == pack_tss_desc(gdt, GDTE_TSS, Address(64), CONFIG_64BIT)
    <2>1. ~CONFIG_PV
        BY <1>3, <1>6 DEF init_tss
    <2>2. DOMAIN gdt = 0..14
        BY <2>1 DEF TablesInv
    <2>3. SegP(packed[GDTE_TSS]) = 1 /\ SegS(packed[GDTE_TSS]) = 0 /\ SegType(packed[GDTE_TSS]) = 9
        BY <2>2, TssIsPacked DEF GDTE_TSS, GDTE_TSS_DF, HoldsTss
    <2>4. Unless(SegP(packed[GDTE_TSS]) = 1 /\ SegS(packed[GDTE_TSS]) = 0 /\ SegType(packed[GDTE_TSS]) = 9)
        BY <1>6 DEF init_tss
    <2> HIDE DEF packed
    <2> QED BY <2>3, <2>4 DEF Unless
<1> QED BY <1>2, <1>4, <1>5, <1>6, DeadlySteps

\* A panic leaves everything as it is.
LEMMA PanicStep ==
    ASSUME [Next]_vars, state' = "panic"
    PROVE  UNCHANGED <<build, vcpu, gdt, idt, l1e>>
<1>1. CASE Head_S
    BY <1>1 DEF Head_S, head, mov_cr4, mov_cr3, wrmsr_efer, mov_cr0, lgdt, ljmp, load_segments, Step, Unless
<1>2. CASE Collect \/ SortExtable \/ init_hypercalls \/ setup_pv_console \/ setup_xenbus
    BY <1>2 DEF Collect, SortExtable, init_hypercalls, setup_pv_console, setup_xenbus
<1>3. CASE Fails("xenbus") \/ map_shared_info \/ Fails("shared_info") \/ SetupDone
    BY <1>3 DEF Fails, map_shared_info, SetupDone, Step
<1>4. CASE Faults \/ Dispatch
    BY <1>4 DEF Faults, Dispatch, bootVars
<1>5. CASE Stopped \/ UNCHANGED vars
    <2>1. UNCHANGED bootVars
        BY <1>5 DEF vars, Stopped
    <2> QED BY <2>1 DEF bootVars
<1>6. CASE InitTraps
    <2>1. CASE init_idt \/ set_gdt \/ stack_switch \/ new_user_baseptr \/ set_trap_table \/ remap_gdt
               \/ unmap_null
        BY <2>1 DEF init_idt, set_gdt, stack_switch, new_user_baseptr, set_trap_table, remap_gdt,
                    unmap_null, Step
    <2>2. CASE \E type \in {"event", "syscall", "syscall32", "sysenter"} : register_callback(type)
        BY <2>2 DEF register_callback, Step
    <2>3. CASE (\E s \in Sections : RemapUser(s) \/ remap_linear_range(s) \/ remap_fails(s))
        BY <2>3 DEF RemapUser, remap_linear_range, remap_fails, Step
    <2>4. CASE init_tss \/ InitFails
        BY <2>4 DEF init_tss, Step, Unless, InitFails
    <2> QED BY <1>6, <2>1, <2>2, <2>3, <2>4 DEF InitTraps, arch_init_traps
<1> QED BY <1>1, <1>2, <1>3, <1>4, <1>5, <1>6 DEF Next, arch_setup

\* Instructions are fetched from where they were linked.
TextInv == ~CONFIG_PV => Translate(Page.text).page = Page.text

\* Before paging is on, and from then on.
LEMMA TextIsMapped ==
    ASSUME SetupInv, OrderInv, state \in {"boot", "run"}
    PROVE  TextInv
<1> SUFFICES ASSUME ~CONFIG_PV PROVE Translate(Page.text).page = Page.text
    BY DEF TextInv
<1> DEFINE p == Page.text
<1>1. p \in Image \ UserPages
    BY SectionsIn
<1>2. p \in Nat /\ p # 0
    BY <1>1, SectionsIn
<1> HIDE DEF p, Image, UserPages
<1>3. CASE "cr0" \in Pending
    <2>1. "PG" \notin vcpu.cr0
        BY <1>3 DEF SetupInv, PagingInv
    <2>2. Translate(p) = Pte(p, {"P", "RW", "U"})
        BY <2>1 DEF Translate
    <2> QED BY <2>2 DEF Pte, p
<1>4. CASE "cr0" \notin Pending
    <2>1. Paged
        BY <1>4 DEF OrderInv
    <2>2. CASE CONFIG_PAGING_LEVELS = 0
        <3>1. Translate(p) = Pte(p, All)
            BY <2>1, <2>2, HvmTranslates, Zenon
        <3> QED BY <3>1 DEF Pte, p
    <2>3. CASE CONFIG_PAGING_LEVELS # 0
        <3>1. Below4G(p)
            BY <1>1, <2>3, ImageIsLow
        <3>2. Translate(p).page = p
            BY <1>2, <2>1, <2>3, <3>1, HvmFinds
        <3> QED BY <3>2 DEF p
    <2> QED BY <2>2, <2>3
<1> QED BY <1>3, <1>4

\* The tables that exceptions need are complete before they are handed over.
SortedInv ==
    /\ idt # <<>> => "sort" \notin Pending
    /\ "sort" \notin Pending => pc \notin {"build", "sift", "extract"}

\* heapsort() only runs in its step.
LEMMA SortingStep ==
    ASSUME [Next]_vars, pc' # pc, pc' \in {"build", "sift", "extract"}
    PROVE  SortExtable
<1>1. CASE arch_setup
    <2>1. SortExtable \/ UNCHANGED tableVars
        <3>1. CASE Head_S \/ Collect \/ InitTraps
            BY <3>1 DEF Head_S, Collect, InitTraps
        <3>2. CASE init_hypercalls \/ setup_pv_console
            BY <3>2 DEF init_hypercalls, setup_pv_console
        <3>3. CASE setup_xenbus \/ Fails("xenbus")
            BY <3>3 DEF setup_xenbus, Fails
        <3>4. CASE map_shared_info \/ Fails("shared_info") \/ SetupDone
            BY <3>4 DEF map_shared_info, Fails, SetupDone
        <3> QED BY <1>1, <3>1, <3>2, <3>3, <3>4 DEF arch_setup
    <2> QED BY <2>1 DEF tableVars
<1>2. CASE Faults
    BY <1>2 DEF Faults, Exception
<1>3. CASE Dispatch
    BY <1>3 DEF Dispatch, Search, Probe, Miss, Fixup, HandlerRefuses, Hook
<1>4. CASE Stopped \/ UNCHANGED vars
    BY <1>4 DEF Stopped, vars, tableVars
<1> QED BY <1>1, <1>2, <1>3, <1>4 DEF Next

\* And its step is nothing else.
LEMMA SortIsTaken ==
    ASSUME [Next]_vars, todo' # todo, Head(todo) = "sort"
    PROVE  SortExtable
<1>1. ~Head_S
    BY DEF Head_S, head, mov_cr4, mov_cr3, wrmsr_efer, mov_cr0, lgdt, ljmp, load_segments, Step
<1>2. ~Collect /\ ~init_hypercalls /\ ~setup_pv_console /\ ~setup_xenbus
    BY DEF Collect, init_hypercalls, setup_pv_console, setup_xenbus, Step
<1>3. ~Fails("xenbus") /\ ~map_shared_info /\ ~Fails("shared_info") /\ ~SetupDone
    BY DEF Fails, map_shared_info, SetupDone, Step
<1>4. ~Faults /\ ~Dispatch
    BY DEF Faults, Dispatch, bootVars
<1>5. ~Stopped /\ ~UNCHANGED vars
    <2>1. ~UNCHANGED bootVars
        BY DEF bootVars
    <2> QED BY <2>1 DEF vars, Stopped
<1>6. ~InitTraps
    <2>1. /\ ~init_idt /\ ~init_tss /\ ~set_gdt /\ ~stack_switch /\ ~new_user_baseptr /\ ~set_trap_table
          /\ ~remap_gdt /\ ~unmap_null
        BY DEF init_idt, init_tss, set_gdt, stack_switch, new_user_baseptr, set_trap_table, remap_gdt,
               unmap_null, Step
    <2>2. \A type \in {"event", "syscall", "syscall32", "sysenter"} : ~register_callback(type)
        BY DEF register_callback, Step
    <2>3. \A s \in Sections : ~RemapUser(s) /\ ~remap_linear_range(s) /\ ~remap_fails(s)
        BY SectionsIn DEF RemapUser, remap_linear_range, remap_fails, Step
    <2>4. "sort" \notin ToSet(TrapSteps)
        BY TrapsAre
    <2>5. ~InitFails
        BY <2>4 DEF InitFails
    <2> QED BY <2>1, <2>2, <2>3, <2>5, Zenon DEF InitTraps, arch_init_traps
<1> QED BY <1>1, <1>2, <1>3, <1>4, <1>5, <1>6 DEF Next, arch_setup

\* Nothing but its two steps fills the table of exceptions.
LEMMA SortedInvStep ==
    ASSUME TodoInv, VcpuOK, SortedInv, [Next]_vars, state' \in {"boot", "run", "panic"}
    PROVE  SortedInv'
<1>1. Pending' \subseteq Pending /\ {"sort", "idt", "set_trap_table"} \subseteq Names
    BY TodoInvStep, NamesAre
<1>2. idt' # <<>> => "sort" \notin Pending'
    <2>1. CASE idt' = idt
        BY <1>1, <2>1 DEF SortedInv
    <2>2. CASE idt' # idt
        <3>1. state' \in {"boot", "run"}
            BY <2>2, PanicStep
        <3>2. init_idt \/ set_trap_table
            BY <2>2, <3>1, TableEffectsAre DEF Unmoved, lgdt, init_tss, set_gdt, stack_switch
        <3>3. Step("idt") \/ Step("set_trap_table")
            BY <3>2 DEF init_idt, set_trap_table
        <3> QED BY <1>1, <3>3, Precedes
    <2> QED BY <2>1, <2>2
<1>3. "sort" \notin Pending' => pc' \notin {"build", "sift", "extract"}
    <2>1. CASE "sort" \in Pending /\ "sort" \notin Pending'
        <3>1. todo' # todo
            BY <2>1 DEF Pending
        <3>2. PICK s \in Names : Step(s)
            BY <3>1, StepsAre
        <3>3. Pending' = Pending \ {s}
            BY <3>2, TodoInvStep
        <3>4. s = "sort"
            BY <2>1, <3>3
        <3>5. SortExtable
            BY <3>1, <3>2, <3>4, SortIsTaken DEF Step
        <3> QED BY <3>1, <3>5 DEF SortExtable
    <2>2. CASE "sort" \notin Pending
        <3>1. ~SortExtable
            <4>1. todo # <<>> => Head(todo) \in Pending
                BY DEF TodoInv, Pending, ToSet
            <4> QED BY <2>2, <4>1 DEF SortExtable
        <3>2. pc \notin {"build", "sift", "extract"}
            BY <2>2 DEF SortedInv
        <3> QED BY <3>1, <3>2, SortingStep
    <2>3. CASE "sort" \in Pending'
        BY <2>3
    <2> QED BY <1>1, <2>1, <2>2, <2>3
<1> QED BY <1>2, <1>3 DEF SortedInv

\* What the tables for exceptions, and the steps that make them, keep to.
ExceptionInv ==
    /\ KindInv /\ OrderInv /\ SortedInv /\ TextInv
    /\ state # "dead"
    /\ state \in {"boot", "run"} => TablesInv

\* Nothing is set up at first.
LEMMA ExceptionInvInit == Init => ExceptionInv
<1> SUFFICES ASSUME Init PROVE ExceptionInv
    OBVIOUS
<1>1. /\ Pending = ToSet(HeadSteps) \union {"cpuid", "sort"} \union ToSet(TrapSteps) \union ToSet(SetupSteps)
      /\ SetupInv /\ state = "boot" /\ idt = <<>>
    BY TodoIs, SetupInvInit DEF Init, BootInit
<1>2. KindInv
    BY <1>1, HeadIs, TrapsAre, SetupAre DEF KindInv
<1>3. OrderInv
    BY <1>1, HeadIs DEF OrderInv
<1>4. SortedInv
    BY <1>1 DEF SortedInv
<1>5. TextInv
    BY <1>1, <1>3, TextIsMapped
<1>6. TablesInv
    <2>1. CASE CONFIG_PV
        <3>1. {"set_trap_table", "stack_switch"} \subseteq Pending
            BY <1>1, <2>1, TrapsAre
        <3> QED BY <2>1, <3>1 DEF TablesInv
    <2>2. CASE ~CONFIG_PV
        <3>1. {"lgdt", "idt", "tss"} \subseteq Pending
            BY <1>1, <2>2, HeadIs, TrapsAre
        <3>2. gdt = gdt_hvm
            BY <2>2 DEF Init, BootInit
        <3>3. DOMAIN gdt_hvm = 0..14
            <4>1. NR_GDT_ENTRIES - 1 = 14
                BY DEF NR_GDT_ENTRIES
            <4> QED BY <4>1, Zenon DEF gdt_hvm
        <3> QED BY <2>2, <3>1, <3>2, <3>3 DEF TablesInv
    <2> QED BY <2>1, <2>2
<1> QED BY <1>1, <1>2, <1>3, <1>4, <1>5, <1>6 DEF ExceptionInv

\* Steps keep it.
LEMMA ExceptionInvStep ==
    ASSUME SetupInv, ExceptionInv, [Next]_vars
    PROVE  ExceptionInv'
<1>1. TodoInv /\ VcpuOK /\ HostInv /\ SetupInv' /\ TodoInv' /\ KindInv /\ OrderInv /\ SortedInv
    BY SetupInvStep DEF SetupInv, ExceptionInv
<1>2. Pending' \subseteq Pending /\ UNCHANGED build
    BY <1>1, TodoInvStep
<1>3. KindInv'
    BY <1>1, <1>2, ConfigStays DEF KindInv
<1>4. OrderInv'
    BY <1>1, OrderInvStep
<1>5. state' # "dead"
    <2>1. CASE state \in {"boot", "run"}
        <3>1. PagingInv /\ TablesInv
            BY <2>1 DEF SetupInv, ExceptionInv
        <3> QED BY <1>1, <2>1, <3>1, NoneDies
    <2>2. CASE state \notin {"boot", "run"}
        <3>1. state = "panic"
            BY <1>1, <2>2 DEF TodoInv, ExceptionInv
        <3> QED BY <3>1, DeadlySteps DEF mov_cr0, ljmp, load_segments, init_tss, Step
    <2> QED BY <2>1, <2>2
<1>6. state' \in {"boot", "run", "panic"}
    BY <1>1, <1>5 DEF TodoInv
<1>7. SortedInv'
    BY <1>1, <1>6, SortedInvStep
<1>8. state' \in {"boot", "run"} => TablesInv'
    <2> SUFFICES ASSUME state' \in {"boot", "run"} PROVE TablesInv'
        OBVIOUS
    <2>1. TablesInv
        BY <1>1, TodoInvStep DEF ExceptionInv
    <2> QED BY <1>1, <2>1, TablesStep
<1>9. TextInv'
    <2>1. CASE state' \in {"boot", "run"}
        <3>1. SetupInv /\ OrderInv /\ state \in {"boot", "run"} => TextInv
            BY TextIsMapped
        <3>2. (SetupInv /\ OrderInv /\ state \in {"boot", "run"} => TextInv)'
            BY TextIsMapped, PTL
        <3> QED BY <1>1, <1>4, <2>1, <3>2
    <2>2. CASE state' = "panic"
        <3>1. UNCHANGED <<build, vcpu, l1e>>
            BY <2>2, PanicStep
        <3>2. CONFIG_PV' = CONFIG_PV /\ LongMode' = LongMode
            BY <3>1, ConfigStays DEF LongMode
        <3>3. Translate(Page.text)' = Translate(Page.text)
            BY <3>1, <3>2, Zenon DEF Translate
        <3> QED BY <3>2, <3>3 DEF TextInv, ExceptionInv
    <2> QED BY <1>6, <2>1, <2>2
<1> QED BY <1>3, <1>4, <1>5, <1>7, <1>8, <1>9 DEF ExceptionInv

-----------------------------------------------------------------------------
(* What exceptions lead to.                                                *)

\* Where exception v should lead from privilege cpl.
Due(v, cpl) ==
    [ip |-> entry(v), cpl |-> KERN, bits |-> Bits, masks |-> TRUE,
     stack |-> IF v = X86_EXC_DF /\ ~CONFIG_PV THEN 3 ELSE IF cpl = USER THEN 2 ELSE 0]

\* The exceptions that user code may raise.
Raisable == {X86_EXC_BP, X86_EXC_OF, X86_VEC_RET2KERN}

\* In a PV guest.
LEMMA PvDelivers ==
    ASSUME HostInv, CONFIG_PV, idt = Traps, vcpu.kernel_sp = 2, NEW v \in Vectors
    PROVE  /\ \A cpl \in {KERN, USER} : Delivery(v, cpl) = Due(v, cpl)
           /\ SoftwareMay(v, USER) <=> v \in Raisable
<1>1. KERN \in 0..2 /\ USER = 3
    BY SelectorsAre
<1> DEFINE t == idt[v]
<1>2. /\ t.cs = __KERN_CS /\ t.address = entry(v)
      /\ t.flags = IF v \in Raisable THEN 7 ELSE 4
      /\ v \in DOMAIN idt
    <2>1. 4 + 3 = 7 /\ 4 + 0 = 4
        OBVIOUS
    <2> QED BY <2>1, Zenon DEF Traps, Raisable
<1>3. RPL(t.cs) = KERN
    BY <1>2, Zenon DEF KERN
<1>4. t.flags >= 4 /\ t.flags % 4 = IF v \in Raisable THEN 3 ELSE 0
    BY <1>2, SMT
<1> HIDE DEF t
<1>5. ASSUME NEW cpl \in {KERN, USER}
      PROVE  Delivery(v, cpl) = Due(v, cpl)
    <2>1. PvDelivery(v, cpl) = [ip |-> entry(v), cpl |-> KERN, bits |-> Bits,
                                stack |-> IF KERN < cpl THEN 2 ELSE 0, masks |-> (t.flags >= 4)]
        BY <1>2, <1>3, Zenon DEF PvDelivery, t
    <2>2. (t.flags >= 4) = TRUE
        BY <1>4
    <2>3. (IF KERN < cpl THEN 2 ELSE 0) = IF cpl = USER THEN 2 ELSE 0
        BY <1>1
    <2>4. Delivery(v, cpl) = PvDelivery(v, cpl)
        BY Zenon DEF Delivery
    <2>5. Due(v, cpl) = [ip |-> entry(v), cpl |-> KERN, bits |-> Bits, masks |-> TRUE,
                         stack |-> IF cpl = USER THEN 2 ELSE 0]
        BY Zenon DEF Due
    <2> QED BY <2>1, <2>2, <2>3, <2>4, <2>5
<1>6. SoftwareMay(v, USER) <=> v \in Raisable
    <2>1. SoftwareMay(v, USER) <=> 3 <= t.flags % 4
        BY <1>1, <1>2, Zenon DEF SoftwareMay, t
    <2> QED BY <1>4, <2>1
<1> QED BY <1>5, <1>6

\* The TSS of each kind is found.
LEMMA TssesAre ==
    ASSUME NEW slot \in {GDTE_TSS, GDTE_TSS_DF}, NEW n \in {64, 65}, HoldsTss(gdt[slot], n),
           CONFIG_64BIT => SubSeq(gdt[slot + 1], 1, 4) = <<0, 0, 0, 0>>
    PROVE  TssOf(slot * 8) = IF n = 64 THEN [ip |-> <<>>, cs |-> 0, sp |-> 2, ist |-> 3]
                             ELSE [ip |-> entry(X86_EXC_DF), cs |-> __KERN_CS, sp |-> 3, ist |-> 0]
<1> DEFINE d == gdt[slot]
           next == gdt[slot + 1]
           base == user_desc_base(d, next, CONFIG_64BIT)
<1>1. (slot * 8) \div 8 = slot
    BY SMT DEF GDTE_TSS, GDTE_TSS_DF
<1>2. TssOf(slot * 8) = Tss(base)
    BY <1>1 DEF TssOf, Descriptor
<1>3. d[3] = n /\ d[4] = 0 /\ d[5] = 16 /\ d[8] = 0 /\ SegS(d) = 0
    BY DEF HoldsTss
<1>4. base = Address(n)
    <2> HIDE DEF d, next
    <2>1. CASE CONFIG_64BIT
        <3>1. base = <<d[3], d[4], d[5], d[8]>> \o SubSeq(next, 1, 4)
            BY <1>3, <2>1, Zenon DEF user_desc_base
        <3>2. SubSeq(next, 1, 4) = <<0, 0, 0, 0>>
            BY <2>1 DEF next
        <3>3. Address(n) = <<n, 0, 16, 0>> \o <<0, 0, 0, 0>>
            BY <2>1, Zenon DEF Address
        <3> QED BY <1>3, <3>1, <3>2, <3>3
    <2>2. CASE ~CONFIG_64BIT
        <3>1. base = <<d[3], d[4], d[5], d[8]>> \o <<>>
            BY <2>2, Zenon DEF user_desc_base
        <3>2. Address(n) = <<n, 0, 16, 0>> \o <<>>
            BY <2>2, Zenon DEF Address
        <3> QED BY <1>3, <3>1, <3>2
    <2> QED BY <2>1, <2>2
<1> HIDE DEF base
<1>5. Address(64) # Address(65)
    <2>1. Address(64)[1] = 64 /\ Address(65)[1] = 65
        BY AddressIs
    <2> QED BY <2>1
<1>6. CASE n = 64
    <2>1. Tss(Address(64)) = [ip |-> <<>>, cs |-> 0, sp |-> 2, ist |-> 3]
        BY <1>5, Zenon DEF Tss
    <2> QED BY <1>2, <1>4, <1>6, <2>1
<1>7. CASE n = 65
    <2>1. Tss(Address(65)) = [ip |-> entry(X86_EXC_DF), cs |-> __KERN_CS, sp |-> 3, ist |-> 0]
        BY <1>5, Zenon DEF Tss
    <2> QED BY <1>2, <1>4, <1>7, <2>1
<1> QED BY <1>6, <1>7

\* Through a gate to a segment of the kernel.
LEMMA HvmGates ==
    ASSUME HostInv, PagingInv, TablesInv, ~CONFIG_PV, Pending = {}, NEW v \in Vectors,
           NEW dpl \in {0, 3}, NEW ist \in {0, 1}, ist = 1 => CONFIG_64BIT,
           idt[v] = pack_intr_gate(__KERN_CS, entry(v), dpl, ist), NEW cpl \in {KERN, USER}
    PROVE  /\ Delivery(v, cpl) = [ip |-> entry(v), cpl |-> KERN, bits |-> Bits, masks |-> TRUE,
                                  stack |-> IF ist = 1 THEN 3 ELSE IF cpl = USER THEN 2 ELSE 0]
           /\ GateDPL(idt[v]) = dpl
<1> DEFINE g == idt[v]
           d == Descriptor(GateSelector(g))
           t == TssOf(vcpu.tr)
<1>1. KERN = 0 /\ USER = 3 /\ __KERN_CS \in {8, 16}
    BY SelectorsAre
<1>2. g = pack_gate(INTR, __KERN_CS, entry(v), dpl, ist)
    BY Zenon DEF pack_intr_gate
<1>3. \/ g = pack_gate(INTR, __KERN_CS, <<v, 0, 16, 0>>, dpl, ist)
      \/ g = pack_gate(INTR, __KERN_CS, <<v, 0, 16, 0, 0, 0, 0, 0>>, dpl, ist)
    BY <1>2, AddressIs DEF entry
<1>4. __KERN_CS \in {0, 8, 16, 64} /\ INTR \in {TASK, INTR}
    BY <1>1
<1>5. /\ GateType(g) = INTR /\ GateDPL(g) = dpl /\ GateP(g) = 1
      /\ GateSelector(g) = __KERN_CS /\ GateIst(g) = ist
    <2> HIDE DEF g
    <2> QED BY <1>3, <1>4, GatesAre
<1>6. GateOffset(g) = entry(v)
    BY <1>2, OffsetIs DEF entry
<1>7. CodeSegment(d) /\ SegDPL(d) = 0 /\ CodeBits(d) = Bits
    BY <1>5, DescriptorsAre DEF Paged
<1>8. t = [ip |-> <<>>, cs |-> 0, sp |-> 2, ist |-> 3]
    <2>1. /\ vcpu.tr = GDTE_TSS * 8 /\ HoldsTss(gdt[GDTE_TSS], 64)
          /\ CONFIG_64BIT => SubSeq(gdt[GDTE_TSS + 1], 1, 4) = <<0, 0, 0, 0>>
        BY DEF TablesInv
    <2>2. TssOf(GDTE_TSS * 8) = [ip |-> <<>>, cs |-> 0, sp |-> 2, ist |-> 3]
        BY <2>1, TssesAre
    <2> QED BY <2>1, <2>2
<1>9. v \in DOMAIN idt /\ vcpu.lidt
    BY DEF TablesInv, Gates
<1>10. INTR # TASK
    BY DEF INTR, TASK
<1>11. t.sp = 2 /\ t.ist = 3
    BY <1>8
<1> HIDE DEF g, d, t
<1>12. ~(SegDPL(d) > cpl)
    BY <1>1, <1>7
<1>13. HvmDelivery(v, cpl) =
           [ip |-> GateOffset(g), cpl |-> SegDPL(d), bits |-> CodeBits(d),
            stack |-> IF CONFIG_64BIT /\ GateIst(g) = 1 THEN t.ist
                      ELSE IF SegDPL(d) < cpl THEN t.sp ELSE 0,
            masks |-> GateType(g) = INTR]
    <2>1. ~(v \notin DOMAIN idt \/ ~vcpu.lidt \/ GateP(g) = 0)
        BY <1>5, <1>9
    <2>2. GateType(g) # TASK
        BY <1>5, <1>10
    <2>3. ~(~CodeSegment(d) \/ SegDPL(d) > cpl)
        BY <1>7, <1>12
    <2> QED BY <2>1, <2>2, <2>3, Zenon DEF HvmDelivery, g, d, t
<1>14. (GateType(g) = INTR) = TRUE
    BY <1>5
<1>15. (IF CONFIG_64BIT /\ GateIst(g) = 1 THEN t.ist ELSE IF SegDPL(d) < cpl THEN t.sp ELSE 0)
       = IF ist = 1 THEN 3 ELSE IF cpl = USER THEN 2 ELSE 0
    BY <1>1, <1>5, <1>7, <1>11
<1>16. Delivery(v, cpl) = HvmDelivery(v, cpl)
    BY Zenon DEF Delivery
<1>17. SegDPL(d) = KERN /\ CodeBits(d) = Bits /\ GateOffset(g) = entry(v)
    BY <1>1, <1>6, <1>7
<1>18. Delivery(v, cpl) = [ip |-> entry(v), cpl |-> KERN, bits |-> Bits, masks |-> TRUE,
                           stack |-> IF ist = 1 THEN 3 ELSE IF cpl = USER THEN 2 ELSE 0]
    BY <1>13, <1>14, <1>15, <1>16, <1>17
<1> QED BY <1>5, <1>18 DEF g

\* A double fault of a 32-bit build goes through a task of its own.
LEMMA HvmTasks ==
    ASSUME HostInv, PagingInv, TablesInv, ~CONFIG_PV, ~CONFIG_64BIT, Pending = {}, NEW cpl \in {KERN, USER}
    PROVE  /\ Delivery(X86_EXC_DF, cpl) = [ip |-> entry(X86_EXC_DF), cpl |-> KERN, bits |-> Bits,
                                           masks |-> TRUE, stack |-> 3]
           /\ GateDPL(idt[X86_EXC_DF]) = 0
<1> DEFINE v == X86_EXC_DF
           g == idt[v]
           df == TssOf(GateSelector(g))
<1>1. v \in Vectors /\ v = 8
    BY DEF Vectors, X86_EXC_DF
<1>2. g = pack_task_gate(GDTE_TSS_DF * 8)
    BY <1>1, Zenon DEF TablesInv, Gates
<1>3. GDTE_TSS_DF * 8 = 64
    BY DEF GDTE_TSS_DF
<1>4. g = pack_gate(TASK, 64, <<0, 0, 0, 0>>, 0, 0)
    BY <1>2, <1>3, Zenon DEF pack_task_gate
<1>5. GateType(g) = TASK /\ GateDPL(g) = 0 /\ GateP(g) = 1 /\ GateSelector(g) = 64
    <2> DEFINE sel == 64  zero == 0
    <2>1. TASK \in {TASK, INTR} /\ sel \in {0, 8, 16, 64} /\ zero \in {0, 3} /\ zero \in {0, 1}
        OBVIOUS
    <2>2. \/ g = pack_gate(TASK, sel, <<zero, 0, zero, 0>>, zero, zero)
          \/ g = pack_gate(TASK, sel, <<zero, 0, zero, 0, 0, 0, 0, 0>>, zero, zero)
        BY <1>4
    <2> HIDE DEF g, sel, zero
    <2>3. /\ GateType(g) = TASK /\ GateDPL(g) = zero /\ GateP(g) = 1 /\ GateSelector(g) = sel
        BY <2>1, <2>2, GatesAre
    <2> QED BY <2>3 DEF sel, zero
<1>6. df = [ip |-> entry(v), cs |-> __KERN_CS, sp |-> 3, ist |-> 0]
    <2>1. HoldsTss(gdt[GDTE_TSS_DF], 65)
        BY DEF TablesInv
    <2>2. TssOf(GDTE_TSS_DF * 8) = [ip |-> entry(v), cs |-> __KERN_CS, sp |-> 3, ist |-> 0]
        BY <2>1, TssesAre
    <2> QED BY <1>3, <1>5, <2>2
<1>7. df.ip = entry(v) /\ RPL(df.cs) = KERN /\ df.sp = 3 /\ CodeBits(Descriptor(df.cs)) = Bits
    BY <1>6, DescriptorsAre DEF KERN, Paged
<1>8. v \in DOMAIN idt /\ vcpu.lidt
    BY <1>1 DEF TablesInv, Gates
<1> HIDE DEF g, df
<1>9. HvmDelivery(v, cpl) =
          [ip |-> df.ip, cpl |-> RPL(df.cs), bits |-> CodeBits(Descriptor(df.cs)),
           stack |-> df.sp, masks |-> TRUE]
    <2>1. ~(v \notin DOMAIN idt \/ ~vcpu.lidt \/ GateP(g) = 0)
        BY <1>5, <1>8
    <2> QED BY <1>5, <2>1, Zenon DEF HvmDelivery, g, df
<1>10. Delivery(v, cpl) = HvmDelivery(v, cpl)
    BY Zenon DEF Delivery
<1> QED BY <1>5, <1>7, <1>9, <1>10 DEF g

\* In an HVM guest.
LEMMA HvmDelivers ==
    ASSUME HostInv, PagingInv, TablesInv, ~CONFIG_PV, Pending = {}, NEW v \in Vectors
    PROVE  /\ \A cpl \in {KERN, USER} : Delivery(v, cpl) = Due(v, cpl)
           /\ SoftwareMay(v, USER) <=> v \in Raisable
<1>1. KERN = 0 /\ USER = 3
    BY SelectorsAre
<1>2. idt = Gates
    BY DEF TablesInv
<1>3. X86_EXC_DF \notin Raisable
    BY DEF X86_EXC_DF, Raisable, X86_EXC_BP, X86_EXC_OF, X86_VEC_RET2KERN
<1>4. v \in DOMAIN idt
    BY <1>2 DEF Gates
<1>5. SoftwareMay(v, USER) <=> 3 <= GateDPL(idt[v])
    BY <1>1, <1>4, Zenon DEF SoftwareMay
<1>6. CASE v = X86_EXC_DF /\ CONFIG_64BIT
    <2>1. idt[v] = pack_intr_gate(__KERN_CS, entry(v), 0, 1)
        BY <1>2, <1>6, Zenon DEF Gates
    <2>2. ASSUME NEW cpl \in {KERN, USER}
          PROVE  Delivery(v, cpl) = Due(v, cpl) /\ GateDPL(idt[v]) = 0
        <3>1. /\ Delivery(v, cpl) = [ip |-> entry(v), cpl |-> KERN, bits |-> Bits, masks |-> TRUE,
                                     stack |-> IF 1 = 1 THEN 3 ELSE IF cpl = USER THEN 2 ELSE 0]
              /\ GateDPL(idt[v]) = 0
            BY <1>6, <2>1, HvmGates
        <3>2. Due(v, cpl) = [ip |-> entry(v), cpl |-> KERN, bits |-> Bits, masks |-> TRUE, stack |-> 3]
            BY <1>6, Zenon DEF Due
        <3> QED BY <3>1, <3>2
    <2> QED BY <1>3, <1>5, <1>6, <2>2
<1>7. CASE v = X86_EXC_DF /\ ~CONFIG_64BIT
    <2>1. ASSUME NEW cpl \in {KERN, USER}
          PROVE  Delivery(v, cpl) = Due(v, cpl) /\ GateDPL(idt[v]) = 0
        <3>1. Due(v, cpl) = [ip |-> entry(v), cpl |-> KERN, bits |-> Bits, masks |-> TRUE, stack |-> 3]
            BY <1>7, Zenon DEF Due
        <3> QED BY <1>7, <3>1, HvmTasks
    <2> QED BY <1>3, <1>5, <1>7, <2>1
<1>8. CASE v # X86_EXC_DF
    <2> DEFINE dpl == IF v \in Raisable THEN 3 ELSE 0
    <2>1. idt[v] = pack_intr_gate(__KERN_CS, entry(v), dpl, 0)
        BY <1>2, <1>8, Zenon DEF Gates, Raisable
    <2>2. dpl \in {0, 3} /\ (3 <= dpl <=> v \in Raisable)
        OBVIOUS
    <2> HIDE DEF dpl
    <2>3. ASSUME NEW cpl \in {KERN, USER}
          PROVE  Delivery(v, cpl) = Due(v, cpl) /\ GateDPL(idt[v]) = dpl
        <3>1. 0 # 1
            OBVIOUS
        <3>2. /\ Delivery(v, cpl) = [ip |-> entry(v), cpl |-> KERN, bits |-> Bits, masks |-> TRUE,
                                     stack |-> IF 0 = 1 THEN 3 ELSE IF cpl = USER THEN 2 ELSE 0]
              /\ GateDPL(idt[v]) = dpl
            BY <2>1, <2>2, HvmGates
        <3>3. Due(v, cpl) = [ip |-> entry(v), cpl |-> KERN, bits |-> Bits, masks |-> TRUE,
                             stack |-> IF cpl = USER THEN 2 ELSE 0]
            BY <1>8, Zenon DEF Due
        <3> QED BY <3>1, <3>2, <3>3
    <2> QED BY <1>5, <2>2, <2>3
<1> QED BY <1>6, <1>7, <1>8

\* Every exception is delivered.
LEMMA AllDelivered ==
    ASSUME SetupInv, ExceptionInv, InOrder, TypeOK
    PROVE  ExceptionsAreDelivered
<1>1. state # "dead" /\ (~CONFIG_PV => Translate(Page.text).page = Page.text)
    BY DEF ExceptionInv, TextInv
<1>2. idt # <<>> => \A i, j \in Positions : i < j => Fault(i) <= Fault(j)
    <2>1. idt # <<>> => pc \notin {"build", "sift", "extract"}
        BY DEF ExceptionInv, SortedInv
    <2>2. pc \in {"build", "sift", "extract", "run", "search", "dispatch", "hook", "panic"}
        BY DEF TypeOK
    <2> QED BY <2>1, <2>2 DEF InOrder
<1>3. ASSUME state = "run"
      PROVE  /\ HostInv /\ PagingInv /\ TablesInv /\ Pending = {} /\ Paged
    BY <1>3, NoMorePending DEF SetupInv, ExceptionInv
<1>4. ASSUME state = "run", NEW v \in Vectors
      PROVE  /\ \A cpl \in {KERN, USER} : Delivery(v, cpl) = Due(v, cpl)
             /\ SoftwareMay(v, USER) <=> v \in Raisable
    <2>1. CASE CONFIG_PV
        <3>1. idt = Traps /\ vcpu.kernel_sp = 2
            BY <1>3, <1>4, <2>1 DEF TablesInv
        <3> QED BY <1>3, <1>4, <2>1, <3>1, PvDelivers
    <2>2. CASE ~CONFIG_PV
        BY <1>3, <1>4, <2>2, HvmDelivers
    <2> QED BY <2>1, <2>2
<1>5. ASSUME state = "run", ~CONFIG_PV
      PROVE  LoadsCs(__USER_CS, USER) /\ LoadsSs(__USER_DS, USER) /\ CodeBits(Descriptor(__USER_CS)) = Bits
    BY <1>3, <1>5, DescriptorsAre, SelectorsAre
<1> QED BY <1>1, <1>2, <1>4, <1>5, Zenon DEF ExceptionsAreDelivered, Due, Raisable

\* At every point of every boot, in every build, nothing faults that could not be
\* handled (head.S, arch_init_traps()), and the table of fixups is sorted before an
\* exception can look in it.  Once the test runs, each vector leads from user and
\* kernel code to its own entry point, at kernel privilege in code of the right
\* width, on the right stack and with interrupts off; user code can raise three and
\* run in its segments.
THEOREM ExceptionsAreHandled == Spec => []ExceptionsAreDelivered
<1>1. SetupInv /\ ExceptionInv /\ [Next]_vars => ExceptionInv'
    BY ExceptionInvStep
<1>2. SetupInv /\ ExceptionInv /\ InOrder /\ TypeOK => ExceptionsAreDelivered
    BY AllDelivered
<1>3. TableSpec => []InOrder /\ []TypeOK
    BY Sorts, TypeCorrect, PTL
<1> QED BY <1>1, <1>2, <1>3, ExceptionInvInit, SetupInvariant, SetupRefinesTable, PTL DEF Spec
=============================================================================
