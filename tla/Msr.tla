-------------------------------- MODULE Msr --------------------------------
(***************************************************************************)
(* Model specific registers: rdmsr_safe() and wrmsr_safe(), which survive  *)
(* a fault, and xtf_msr_consistency_test(), which writes and reads one     *)
(* register with plain and with emulated instructions.                     *)
(*                                                                         *)
(* Xen may have a register twice, as the processor holds it and as its     *)
(* emulator knows it; at any time it may take the one over into the other. *)
(***************************************************************************)
EXTENDS Integers, Sequences

CONSTANT MsrTests      \* the vals[] of consistency tests, with 0 the value at the start

ASSUME MsrAssumption == \A t \in MsrTests : t \in Seq([val : Nat, pred : BOOLEAN])

VARIABLES
    msr_has_fep,       \* xtf_has_fep
    msr_shared,        \* both kinds of instruction write both copies
    msr_copy,          \* what "real" and "emul" instructions find
    msr_written,       \* the value of the last write
    msr_done,          \* the reads of this test, each with whether it found that value
    msr_failures,      \* the calls of xtf_failure() of this test
    msr_vals, msr_i,   \* t->vals, i
    msr_loop,          \* the instructions that the loop writes with
    msr_safe,          \* the last call of rdmsr_safe() or wrmsr_safe()
    msr_pc

msrEnv == <<msr_has_fep, msr_shared>>
msrVars == <<msrEnv, msr_copy, msr_written, msr_done, msr_failures, msr_vals, msr_i, msr_loop,
             msr_safe, msr_pc>>

Routes == {"real", "emul"}

\* There is one register.
MsrIndices == {"present", "absent", "-1u"}
NoMsrCall == [idx |-> "present", faulted |-> FALSE, fault |-> FALSE]

MsrInit ==
    /\ msr_has_fep \in BOOLEAN /\ msr_shared \in BOOLEAN
    /\ msr_copy = [r \in Routes |-> 0] /\ msr_written = 0
    /\ msr_done = {} /\ msr_failures = {} /\ msr_vals = <<>> /\ msr_i = 1 /\ msr_loop = "real"
    /\ msr_safe = NoMsrCall /\ msr_pc = "idle"

\* Xen leaves or enters the guest, or emulates something for it.
Switch ==
    /\ \E r \in Routes : msr_copy' = [copy \in Routes |-> msr_copy[r]]
    /\ UNCHANGED <<msrEnv, msr_written, msr_done, msr_failures, msr_vals, msr_i, msr_loop, msr_safe,
                   msr_pc>>

\* ex_rdmsr_safe(), ex_wrmsr_safe(): what the fault leaves in cx.
FaultIndex == "-1u"

RdmsrOrWrmsrSafe ==
    /\ msr_pc = "idle"
    /\ \E idx \in MsrIndices :
          LET faults == idx # "present"
              new_idx == IF faults THEN FaultIndex ELSE idx
          IN  msr_safe' = [idx |-> idx, faulted |-> faults, fault |-> idx # new_idx]
    /\ UNCHANGED <<msrEnv, msr_copy, msr_written, msr_done, msr_failures, msr_vals, msr_i, msr_loop,
                   msr_pc>>

CallConsistencyTest ==
    /\ msr_pc = "idle"
    /\ msr_vals' \in MsrTests /\ msr_i' = 1 /\ msr_loop' = "real"
    /\ msr_done' = {} /\ msr_failures' = {}
    /\ msr_pc' = "for"
    /\ UNCHANGED <<msrEnv, msr_copy, msr_written, msr_safe>>

\* Mutant: "break" where the code has "continue".
Breaks == Len(msr_vals) + 1

\* continue, in a loop that counts i.
Continue == msr_i + 1

\* After the first loop comes the second, if there are emulated instructions.
For ==
    /\ msr_pc = "for"
    /\ IF msr_i <= Len(msr_vals)
       THEN /\ UNCHANGED msr_loop
            /\ IF msr_vals[msr_i].pred THEN msr_pc' = "write" /\ UNCHANGED msr_i
               ELSE msr_i' = Continue /\ UNCHANGED msr_pc
       ELSE /\ msr_i' = 1
            /\ IF msr_loop = "real" /\ msr_has_fep THEN msr_loop' = "emul" /\ UNCHANGED msr_pc
               ELSE msr_pc' = "idle" /\ UNCHANGED msr_loop
    /\ UNCHANGED <<msrEnv, msr_copy, msr_written, msr_done, msr_failures, msr_vals, msr_safe>>

\* wrmsr() and force_wrmsr().
WriteMsr ==
    /\ msr_pc = "write"
    /\ msr_written' = msr_vals[msr_i].val
    /\ msr_copy' = [r \in Routes |-> IF r = msr_loop \/ msr_shared THEN msr_written'
                                     ELSE msr_copy[r]]
    /\ msr_pc' = "real"
    /\ UNCHANGED <<msrEnv, msr_done, msr_failures, msr_vals, msr_i, msr_loop, msr_safe>>

\* rdmsr() or force_rdmsr(), and what the test makes of it.
ReadMsr(route) ==
    LET read == [i |-> msr_i, write |-> msr_loop, read |-> route]
    IN  /\ msr_pc = route
        /\ msr_done' = msr_done \union {<<read, msr_copy[route] = msr_written>>}
        /\ msr_failures' = IF msr_copy[route] # msr_vals[msr_i].val
                           THEN msr_failures \union {read} ELSE msr_failures
        /\ UNCHANGED <<msrEnv, msr_copy, msr_written, msr_vals, msr_loop, msr_safe>>

ReadReal ==
    /\ ReadMsr("real")
    /\ IF msr_has_fep THEN msr_pc' = "emul" /\ UNCHANGED msr_i
       ELSE msr_pc' = "for" /\ msr_i' = msr_i + 1

ReadEmulated == ReadMsr("emul") /\ msr_pc' = "for" /\ msr_i' = msr_i + 1

MsrNext ==
    \/ RdmsrOrWrmsrSafe \/ CallConsistencyTest \/ For \/ WriteMsr \/ ReadReal \/ ReadEmulated
    \/ Switch

-----------------------------------------------------------------------------
\* The reads that a test is to make: every way to write with every way to read,
\* of those that there are, for each value whose condition holds.
ToBeDone ==
    LET routes == IF msr_has_fep THEN Routes ELSE {"real"}
    IN  [i : {i \in DOMAIN msr_vals : msr_vals[i].pred}, write : routes, read : routes]

\* A consistency test leaves out none of these reads, whichever values it is
\* not to try, and complains of exactly those that do not find what was written
\* last, whatever Xen does in between.  A fault is always told of, save one of
\* the index -1u ("boolean indicating whether the read faulted").
MsrAnswersAreRight ==
    /\ msr_pc = "idle" => {d[1] : d \in msr_done} = ToBeDone
    /\ msr_failures = {d[1] : d \in {e \in msr_done : ~e[2]}}
    /\ msr_safe.idx # "-1u" => msr_safe.fault = msr_safe.faulted
=============================================================================
