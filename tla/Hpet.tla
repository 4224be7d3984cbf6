------------------------------- MODULE Hpet -------------------------------
(***************************************************************************)
(* The HPET driver of arch/x86/hpet.c and arch/hpet.h, with the device     *)
(* running beside it: while the main counter is enabled it ticks between   *)
(* any two accesses of the driver, and a timer whose comparator it reaches *)
(* interrupts.  The 64-bit counter and comparators are pairs of words      *)
(* <<high, low>>; in a 32-bit build the driver accesses one word at a      *)
(* time, in a 64-bit build both at once.                                   *)
(***************************************************************************)
EXTENDS Integers

CONSTANTS
  Word,       \* how many values a 32-bit word of the counter has
  Highest,    \* bound: the highest value that the upper word reaches
  Timers,     \* the timers the device has (hpet_nr_timers)
  HpetIrqs,       \* the lines that a test routes them to
  HpetBuilds      \* values of CONFIG_64BIT

ASSUME WordAssumption    == Word \in Nat \ {0}
ASSUME HighestAssumption == Highest \in Nat
ASSUME BuildsAssumption  == HpetBuilds \subseteq BOOLEAN

Words  == 0 .. Word - 1
Values == (0 .. Highest) \X Words
Zero   == <<0, 0>>
NoTime == <<-1, -1>>

\* The order of 64-bit values.
AtMost(a, b) == a[1] < b[1] \/ (a[1] = b[1] /\ a[2] <= b[2])
Before(a, b) == AtMost(a, b) /\ a # b

VARIABLES
  is64,      \* the CONFIG_64BIT of this build
  running,   \* HPET_CFG_ENABLE of HPET_CFG
  counter,   \* HPET_COUNTER
  timer,     \* HPET_Tn_CFG and HPET_Tn_CMP of each timer
  hpet_pc,        \* where the driver is, of hpet_init_timer() or
             \* hpet_read_counter()
  arg,       \* the arguments of hpet_init_timer(): nr, irq, ticks
  hi, lo,    \* the local variables of hpet_read_counter()
  began,     \* the counter when hpet_read_counter() was called
  read,      \* what it returned, with the counter at its call and return
  fired,     \* the interrupts of the last tick: nr, irq and the counter
  requested      \* for each timer, the call that set it up last

hpetVars == <<is64, running, counter, timer, hpet_pc, arg, hi, lo, began, read, fired, requested>>

device == <<running, counter, timer, fired>>
reader == <<hi, lo, began, read>>

Off    == [enabled |-> FALSE, irq |-> -1, cmp |-> Zero]
NoCall == [irq |-> -1, ticks |-> NoTime]
NoArg  == [nr |-> -1, irq |-> -1, ticks |-> NoTime]

\* hpet_init() found the device.  The firmware may have left it running, but
\* its timers off.
HpetInit ==
  /\ is64 \in HpetBuilds
  /\ running \in BOOLEAN
  /\ counter \in Values
  /\ timer = [n \in Timers |-> Off]
  /\ hpet_pc = "idle"
  /\ arg = NoArg
  /\ hi = 0
  /\ lo = 0
  /\ began = Zero
  /\ read = [value |-> Zero, from |-> Zero, to |-> Zero]
  /\ fired = {}
  /\ requested = [n \in Timers |-> NoCall]

(***************************************************************************)
(* The device.                                                             *)
(***************************************************************************)

Incremented(v) == IF v[2] + 1 = Word THEN <<v[1] + 1, 0>> ELSE <<v[1], v[2] + 1>>

\* The counter ticks, and the timers whose comparator it reaches interrupt.
Tick ==
  /\ running
  /\ counter # <<Highest, Word - 1>>
  /\ counter' = Incremented(counter)
  /\ fired' = {[nr |-> n, irq |-> timer[n].irq, at |-> counter'] :
                 n \in {k \in Timers : timer[k].enabled /\ timer[k].cmp = counter'}}
  /\ UNCHANGED <<is64, running, timer, hpet_pc, arg, reader, requested>>

(***************************************************************************)
(* hpet_init_timer().                                                      *)
(***************************************************************************)

\* A write of v to a 64-bit register that holds old: whole, or, where the
\* driver is built for 32 bits, the low word; the next step writes the high
\* one.  The order of the two is the compiler's, and tells nothing here: the
\* counter is halted.
LowOf(v, old) == IF is64 THEN v ELSE <<old[1], v[2]>>

CallInitTimer(n, irq, ticks) ==
  /\ hpet_pc = "idle"
  /\ arg' = [nr |-> n, irq |-> irq, ticks |-> ticks]
  /\ hpet_pc' = "halt"
  /\ UNCHANGED <<is64, device, reader, requested>>

\* Mutant: the counter is not disabled.
LeavesRunning ==
  /\ hpet_pc = "halt"
  /\ hpet_pc' = "zero"
  /\ UNCHANGED <<is64, device, arg, reader, requested>>

\* hpet_write64(HPET_CFG, cfg & ~HPET_CFG_ENABLE)
HaltCounter ==
  /\ hpet_pc = "halt"
  /\ running' = FALSE
  /\ hpet_pc' = "zero"
  /\ UNCHANGED <<is64, counter, timer, arg, reader, fired, requested>>

\* hpet_write64(HPET_COUNTER, 0)
ResetCounter ==
  /\ hpet_pc = "zero"
  /\ counter' = LowOf(Zero, counter)
  /\ hpet_pc' = "zero_high"
  /\ UNCHANGED <<is64, running, timer, arg, reader, fired, requested>>

ResetCounterHigh ==
  /\ hpet_pc = "zero_high"
  /\ counter' = Zero
  /\ hpet_pc' = "config"
  /\ UNCHANGED <<is64, running, timer, arg, reader, fired, requested>>

\* hpet_write32(HPET_Tn_CFG(nr), tm.raw)
ConfigureTimer ==
  /\ hpet_pc = "config"
  /\ timer' = [timer EXCEPT ![arg.nr] = [enabled |-> TRUE, irq |-> arg.irq,
                                         cmp |-> @.cmp]]
  /\ hpet_pc' = "compare"
  /\ UNCHANGED <<is64, running, counter, arg, reader, fired, requested>>

\* hpet_write64(HPET_Tn_CMP(nr), ticks)
SetComparator ==
  /\ hpet_pc = "compare"
  /\ timer' = [timer EXCEPT ![arg.nr].cmp = LowOf(arg.ticks, @)]
  /\ hpet_pc' = "compare_high"
  /\ UNCHANGED <<is64, running, counter, arg, reader, fired, requested>>

SetComparatorHigh ==
  /\ hpet_pc = "compare_high"
  /\ timer' = [timer EXCEPT ![arg.nr].cmp = arg.ticks]
  /\ requested' = [requested EXCEPT ![arg.nr] = [irq |-> arg.irq, ticks |-> arg.ticks]]
  /\ hpet_pc' = "start"
  /\ UNCHANGED <<is64, running, counter, arg, reader, fired>>

\* Mutant: what was read from HPET_CFG is written back as it was.
RestoresConfig ==
  /\ hpet_pc = "start"
  /\ hpet_pc' = "idle"
  /\ UNCHANGED <<is64, device, arg, reader, requested>>

\* hpet_write64(HPET_CFG, cfg | HPET_CFG_ENABLE)
StartCounter ==
  /\ hpet_pc = "start"
  /\ running' = TRUE
  /\ hpet_pc' = "idle"
  /\ UNCHANGED <<is64, counter, timer, arg, reader, fired, requested>>

(***************************************************************************)
(* hpet_read_counter().                                                    *)
(***************************************************************************)

CallRead ==
  /\ hpet_pc = "idle"
  /\ began' = counter
  /\ hpet_pc' = IF is64 THEN "whole" ELSE "hi"
  /\ UNCHANGED <<is64, device, arg, hi, lo, read, requested>>

Answer(value) == read' = [value |-> value, from |-> began, to |-> counter]

ReadWhole ==
  /\ hpet_pc = "whole"
  /\ Answer(counter)
  /\ hpet_pc' = "idle"
  /\ UNCHANGED <<is64, device, arg, hi, lo, began, requested>>

ReadHigh ==
  /\ hpet_pc = "hi"
  /\ hi' = counter[1]
  /\ hpet_pc' = "lo"
  /\ UNCHANGED <<is64, device, arg, lo, began, read, requested>>

ReadLow ==
  /\ hpet_pc = "lo"
  /\ lo' = counter[2]
  /\ hpet_pc' = "again"
  /\ UNCHANGED <<is64, device, arg, hi, began, read, requested>>

\* Mutant: the second try does not read the upper word anew.
RetriesLow ==
  /\ hpet_pc = "again"
  /\ IF hi = counter[1]
     THEN Answer(<<hi, lo>>) /\ hpet_pc' = "idle"
     ELSE hpet_pc' = "lo" /\ UNCHANGED read
  /\ UNCHANGED <<is64, device, arg, hi, lo, began, requested>>

\* Mutant: without the loop.
NeverRetries ==
  /\ hpet_pc = "again"
  /\ Answer(<<hi, lo>>)
  /\ hpet_pc' = "idle"
  /\ UNCHANGED <<is64, device, arg, hi, lo, began, requested>>

ReadHighAgain ==
  /\ hpet_pc = "again"
  /\ IF hi = counter[1]
     THEN Answer(<<hi, lo>>) /\ hpet_pc' = "idle"
     ELSE hpet_pc' = "hi" /\ UNCHANGED read
  /\ UNCHANGED <<is64, device, arg, hi, lo, began, requested>>

Driver ==
  \/ HaltCounter \/ ResetCounter \/ ResetCounterHigh \/ ConfigureTimer
  \/ SetComparator \/ SetComparatorHigh \/ StartCounter
  \/ ReadWhole \/ ReadHigh \/ ReadLow \/ ReadHighAgain

HpetNext ==
  \/ Tick
  \/ \E n \in Timers, irq \in HpetIrqs, ticks \in Values : CallInitTimer(n, irq, ticks)
  \/ CallRead
  \/ Driver

\* The device ticks while it may, and a driver that is running goes on.
HpetSpec == HpetInit /\ [][HpetNext]_hpetVars /\ WF_hpetVars(Tick) /\ WF_hpetVars(Driver)

(***************************************************************************)
(* Properties.                                                             *)
(***************************************************************************)

Calls == [nr : Timers, irq : HpetIrqs, ticks : Values]

\* Every variable has its type; a timer that is enabled has a line.
HpetTypeOK ==
  /\ is64 \in HpetBuilds
  /\ running \in BOOLEAN
  /\ counter \in Values
  /\ timer \in [Timers -> [enabled : {TRUE}, irq : HpetIrqs, cmp : Values]
                            \cup {Off}]
  /\ hpet_pc \in {"idle", "halt", "zero", "zero_high", "config", "compare",
            "compare_high", "start", "whole", "hi", "lo", "again"}
  /\ arg \in Calls \cup {NoArg}
  /\ hi \in 0 .. Highest
  /\ lo \in Words
  /\ began \in Values
  /\ read \in [value : Values, from : Values, to : Values]
  /\ fired \subseteq [nr : Timers, irq : HpetIrqs, at : Values]
  /\ requested \in [Timers -> [irq : HpetIrqs, ticks : Values] \cup {NoCall}]

\* hpet_read_counter() returns a value that the counter had while it ran, also
\* where it reads the two words separately and the low one overflows between
\* (arch/hpet.h:62).
ReadIsNow ==
  /\ AtMost(read.from, read.value)
  /\ AtMost(read.value, read.to)

\* A timer interrupts on the line and at the tick of the hpet_init_timer() call
\* that set it up last, never on a mixture of two calls or of the two words of
\* its comparator (hpet.c:49).
FiresAsAsked ==
  [][fired' # fired =>
       \A f \in fired' : /\ f.irq = requested[f.nr].irq
                         /\ f.at = requested[f.nr].ticks]_hpetVars

\* A timer that is set up for a later tick interrupts, unless the next call
\* stops the counter before (hpet.c:75).
TimersFire ==
  \A n \in Timers :
    (hpet_pc = "idle" /\ requested[n] # NoCall /\ Before(counter, requested[n].ticks))
      ~> ((\E f \in fired : f.nr = n) \/ hpet_pc = "halt")

\* Each call returns: the loop of hpet_read_counter() ends (hpet.h:70).
CallsReturn == hpet_pc # "idle" ~> hpet_pc = "idle"

(***************************************************************************)
(* The inductive invariant.                                                *)
(***************************************************************************)

\* The counter stands still while hpet_init_timer() writes.
HaltedInCall ==
  hpet_pc \in {"zero", "zero_high", "config", "compare", "compare_high", "start"}
    => ~running

\* A timer is as it was asked for, but for the one being set up.
TimersAsAsked ==
  \A n \in Timers :
    timer[n].enabled /\ ~(hpet_pc \in {"compare", "compare_high"} /\ n = arg.nr) =>
      /\ timer[n].irq = requested[n].irq
      /\ timer[n].cmp = requested[n].ticks

InCall ==
  /\ hpet_pc \in {"halt", "zero", "zero_high", "config", "compare", "compare_high",
            "start"} => arg \in Calls
  /\ hpet_pc \in {"compare", "compare_high"} =>
       timer[arg.nr].enabled /\ timer[arg.nr].irq = arg.irq

\* What the reader knows: the counter has not gone back since, and if the high
\* word is still the one it read, the low one belongs to it.
InRead ==
  /\ hpet_pc \in {"whole", "hi", "lo", "again"} => AtMost(began, counter)
  /\ hpet_pc \in {"lo", "again"} => hi <= counter[1]
  /\ hpet_pc = "again" /\ hi = counter[1] =>
       /\ AtMost(began, <<hi, lo>>)
       /\ lo <= counter[2]

HpetIndInv ==
  /\ HpetTypeOK
  /\ ReadIsNow
  /\ HaltedInCall
  /\ TimersAsAsked
  /\ InCall
  /\ InRead
=============================================================================
