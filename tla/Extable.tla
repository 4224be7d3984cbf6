------------------------------ MODULE Extable ------------------------------
(***************************************************************************)
(* The exception table: sort_extable() sorts it once with the heapsort()   *)
(* of common/heapsort.c, search_extable() looks a faulting address up with *)
(* a binary search, and do_exception() resumes at the fixup, asks the      *)
(* handler or the test's hook, or panics.                                  *)
(*                                                                         *)
(* Positions count entries, where the code counts bytes.  An entry is its  *)
(* faulting address and its place in the table as linked.                  *)
(***************************************************************************)
EXTENDS Integers

CONSTANTS
    Addrs,         \* the addresses at which code may fault
    MaxEntries,    \* bound: the entries of the table
    Beyond         \* what may lie in memory where the table ends

ASSUME ExtableAssumption ==
    /\ Addrs \subseteq Nat /\ Beyond \subseteq Int /\ MaxEntries \in Nat

VARIABLES
    size,          \* the number of entries
    linked,        \* the addresses of the table, in the order of the linker
    table,         \* the table
    beyond,        \* the word after the table, no part of it
    pc,
    idx,           \* heapsort()'s loops
    caller,        \* the loop that siftdown() returns to
    root, stop,    \* siftdown()
    addr,          \* regs->ip
    lo, hi,        \* start and stop of search_extable()
    found          \* what it returns

envVars == <<size, linked, beyond>>
sortVars == <<table, idx, caller, root, stop>>
searchVars == <<addr, lo, hi, found>>
tableVars == <<envVars, sortVars, searchVars, pc>>

NULL == -1

Fault(i) == table[i].fault

Swapped(i, j) == [table EXCEPT ![i] = table[j], ![j] = table[i]]

TableInit ==
    /\ size \in 1..MaxEntries             \* test_setup() has one
    /\ linked \in [0..(size - 1) -> Addrs]
    /\ table = [i \in 0..(size - 1) |-> [fault |-> linked[i], id |-> i]]
    /\ beyond \in Beyond
    /\ pc = "build" /\ idx = size \div 2 - 1
    /\ caller = "build" /\ root = 0 /\ stop = 0
    /\ addr = 0 /\ lo = 0 /\ hi = 0 /\ found = NULL

-----------------------------------------------------------------------------
(* heapsort() and siftdown().                                              *)

\* siftdown(base, size, compar, swap, r, s), called from the loop c.
Siftdown(c, r, s) ==
    pc' = "sift" /\ caller' = c /\ root' = r /\ stop' = s

Build ==
    /\ pc = "build" /\ idx >= 0
    /\ Siftdown("build", idx, size)
    /\ UNCHANGED <<envVars, table, idx, searchVars>>

Built ==
    /\ pc = "build" /\ idx < 0
    /\ pc' = "extract" /\ idx' = size - 1
    /\ UNCHANGED <<envVars, table, caller, root, stop, searchVars>>

\* The larger child, the left one of two equals.
Child ==
    LET left == 2 * root + 1
    IN  IF left + 1 < stop /\ Fault(left) < Fault(left + 1) THEN left + 1 ELSE left

Sift ==
    /\ pc = "sift"
    /\ 2 * root + 1 < stop /\ Fault(root) < Fault(Child)
    /\ table' = Swapped(root, Child)
    /\ root' = Child
    /\ UNCHANGED <<envVars, idx, caller, stop, searchVars, pc>>

Sifted ==
    /\ pc = "sift"
    /\ ~(2 * root + 1 < stop /\ Fault(root) < Fault(Child))
    /\ pc' = caller /\ idx' = idx - 1
    /\ UNCHANGED <<envVars, table, caller, root, stop, searchVars>>

\* A definition marked "Mutant" is no part of the model: it is what the
\* definition after it would be if the code had the named bug.

\* Mutant: the entry at the front overwrites the one at the back.
ExtractCopies ==
    /\ pc = "extract" /\ idx > 0
    /\ table' = [table EXCEPT ![idx] = table[0]]
    /\ Siftdown("extract", 0, idx)
    /\ UNCHANGED <<envVars, idx, searchVars>>

Extract ==
    /\ pc = "extract" /\ idx > 0
    /\ table' = Swapped(0, idx)
    /\ Siftdown("extract", 0, idx)
    /\ UNCHANGED <<envVars, idx, searchVars>>

Sorted ==
    /\ pc = "extract" /\ idx <= 0
    /\ pc' = "run"
    /\ UNCHANGED <<envVars, sortVars, searchVars>>

-----------------------------------------------------------------------------
(* do_exception() and search_extable().                                    *)

\* Since the last one, anything may have been written beyond the table.
Exception(a) ==
    /\ pc = "run"
    /\ addr' = a /\ beyond' \in Beyond
    /\ lo' = 0 /\ hi' = size /\ found' = NULL
    /\ pc' = "search"
    /\ UNCHANGED <<size, linked, sortVars>>

Mid == lo + (hi - lo) \div 2

\* The word compared with the address: hi starts one past the last entry.
Probed == IF Mid < size THEN Fault(Mid) ELSE beyond

\* Mutant: the lower bound moves to the middle itself.
ProbeStalls ==
    /\ pc = "search" /\ lo <= hi
    /\ \/ addr = Probed /\ found' = Mid /\ pc' = "dispatch" /\ UNCHANGED <<lo, hi>>
       \/ addr > Probed /\ lo' = Mid /\ UNCHANGED <<hi, found, pc>>
       \/ addr < Probed /\ hi' = Mid - 1 /\ UNCHANGED <<lo, found, pc>>
    /\ UNCHANGED <<envVars, sortVars, addr>>

\* Mutant: the upper bound skips an entry.
ProbeSkips ==
    /\ pc = "search" /\ lo <= hi
    /\ \/ addr = Probed /\ found' = Mid /\ pc' = "dispatch" /\ UNCHANGED <<lo, hi>>
       \/ addr > Probed /\ lo' = Mid + 1 /\ UNCHANGED <<hi, found, pc>>
       \/ addr < Probed /\ hi' = Mid - 2 /\ UNCHANGED <<lo, found, pc>>
    /\ UNCHANGED <<envVars, sortVars, addr>>

Probe ==
    /\ pc = "search" /\ lo <= hi
    /\ \/ addr = Probed /\ found' = Mid /\ pc' = "dispatch" /\ UNCHANGED <<lo, hi>>
       \/ addr > Probed /\ lo' = Mid + 1 /\ UNCHANGED <<hi, found, pc>>
       \/ addr < Probed /\ hi' = Mid - 1 /\ UNCHANGED <<lo, found, pc>>
    /\ UNCHANGED <<envVars, sortVars, addr>>

Miss ==
    /\ pc = "search" /\ lo > hi
    /\ pc' = "hook"
    /\ UNCHANGED <<envVars, sortVars, searchVars>>

\* No handler, or one that deals with the fault: on to the fixup.
Fixup ==
    /\ pc = "dispatch"
    /\ pc' = "run"
    /\ UNCHANGED <<envVars, sortVars, searchVars>>

HandlerRefuses ==
    /\ pc = "dispatch"
    /\ pc' = "hook"
    /\ UNCHANGED <<envVars, sortVars, searchVars>>

\* do_unhandled_exception(), and panic() when it returns false.
Hook ==
    /\ pc = "hook"
    /\ pc' \in {"run", "panic"}
    /\ UNCHANGED <<envVars, sortVars, searchVars>>

Sort == Build \/ Built \/ Sift \/ Sifted \/ Extract \/ Sorted
Search == Probe \/ Miss \/ Fixup \/ HandlerRefuses \/ Hook

TableNext == Sort \/ (\E a \in Addrs : Exception(a)) \/ Search

TableSpec == TableInit /\ [][TableNext]_tableVars

-----------------------------------------------------------------------------
Positions == 0..(size - 1)

\* Every variable stays in its range: no position leaves the table while it
\* is sorted, and lo and hi go no further than its ends.
TypeOK ==
    /\ size \in 1..MaxEntries /\ linked \in [Positions -> Addrs] /\ beyond \in Beyond
    /\ table \in [Positions -> [fault : Addrs, id : Positions]]
    /\ pc \in {"build", "sift", "extract", "run", "search", "dispatch", "hook", "panic"}
    /\ caller \in {"build", "extract"} /\ idx \in -1..(size - 1)
    /\ root \in Nat /\ stop \in 0..size
    /\ pc = "sift" => root < stop
    /\ addr \in Addrs \union {0} /\ lo \in 0..(size + 1) /\ hi \in -1..size
    /\ found \in -1..size

\* Sorting moves entries and never loses or alters one, nor, as there is no
\* place left, doubles one: each _ASM_EXTABLE() of the program keeps its fixup
\* and its handler.
NoEntryLost ==
    /\ \A i \in Positions : table[i].fault = linked[table[i].id]
    /\ \A i \in Positions : \E j \in Positions : table[j].id = i

\* Once the machine runs, the table is in order: heapsort() leaves no pair
\* the wrong way round, for any number of entries and any order of them.
InOrder ==
    pc \in {"run", "search", "dispatch", "hook", "panic"} =>
        \A i, j \in Positions : i < j => Fault(i) <= Fault(j)

\* A fault is dispatched through an entry exactly when the program was linked
\* with one for its address, and then through such an entry, whatever sorting
\* has done with them ("Appropriate extable_entry, or NULL if no entry",
\* extable.h).
LookupIsRight ==
    /\ pc = "dispatch" => found \in Positions /\ linked[table[found].id] = addr
    /\ pc = "hook" /\ found = NULL => \A i \in Positions : linked[i] # addr

-----------------------------------------------------------------------------
(* The inductive strengthening of the invariants above.                    *)

\* Position i is not below its children among the first e.
HeapAt(i, e) == \A c \in {2 * i + 1, 2 * i + 2} : c < e => Fault(c) <= Fault(i)

\* From position k on, every entry is in its final place.
InPlace(k) == \A i, j \in Positions : i < j /\ k <= j => Fault(i) <= Fault(j)

\* Where the heap begins that siftdown() restores.
First == IF caller = "build" THEN idx ELSE 0

\* Between the steps of heapsort() all is a heap, but for root while an entry
\* sinks: its children may exceed it, yet not its parent.
SortInv ==
    /\ pc = "build" => \A i \in Positions : idx < i => HeapAt(i, size)
    /\ pc = "sift" =>
          /\ idx >= 0 /\ root >= First
          /\ stop = IF caller = "build" THEN size ELSE idx
          /\ \A i \in Positions : First <= i /\ i # root => HeapAt(i, stop)
          /\ \A p \in Positions : First <= p /\ root \in {2 * p + 1, 2 * p + 2} =>
                \A c \in {2 * root + 1, 2 * root + 2} : c < stop => Fault(c) <= Fault(p)
          /\ caller = "extract" => InPlace(idx)
    /\ pc = "extract" =>
          /\ \A i \in Positions : HeapAt(i, idx + 1)
          /\ InPlace(idx + 1)

\* What lies outside the bounds of the search is not at the address.
SearchInv ==
    /\ pc = "search" =>
          /\ found = NULL /\ addr \in Addrs
          /\ \A i \in Positions : (i < lo => Fault(i) < addr) /\ (hi < i => addr < Fault(i))
    /\ pc = "dispatch" => found # NULL

\* The same of the table as it is.
LookupInTable ==
    /\ pc = "dispatch" => found \in Positions /\ Fault(found) = addr
    /\ pc = "hook" /\ found = NULL => \A i \in Positions : Fault(i) # addr

IndInv == TypeOK /\ NoEntryLost /\ SortInv /\ InOrder /\ SearchInv
=============================================================================
