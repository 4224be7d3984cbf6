------------------------------- MODULE Apic -------------------------------
(***************************************************************************)
(* The local APIC driver of arch/x86/apic.c and arch/apic.h, together with *)
(* the hardware whose rules it must follow: which writes to the APIC_BASE  *)
(* register fault, what a mode change resets, and which of the two ways to *)
(* reach a register (the MMIO window, the x2APIC registers) works in which *)
(* mode.  The firmware and whoever ran before may have left the APIC in    *)
(* any mode with its window anywhere; a test calls apic_init(), possibly   *)
(* more than once, and uses the registers after it succeeded.              *)
(***************************************************************************)
EXTENDS Naturals

CONSTANTS
  Requests,      \* the modes that the tests ask apic_init() for
  TestMode,      \* TEST_APIC_MODE, "UNKNOWN" where a test does not define it
  Dests,         \* destinations of interprocessor interrupts
  Commands       \* lower halves of the interrupt command register

HwModes == {"DISABLED", "XAPIC", "X2APIC"}
Modes   == HwModes \cup {"UNKNOWN", "NONE"}

\* apic_init() asserts it of its argument, and a test that forces the code of
\* one mode asks for no other.
ASSUME RequestsAssumption ==
  /\ Requests \subseteq HwModes
  /\ TestMode \in {"UNKNOWN", "XAPIC", "X2APIC"}
  /\ TestMode # "UNKNOWN" => Requests \subseteq {TestMode}

VARIABLES
  hw,             \* the APIC: extd, enable and window of its APIC_BASE,
                  \* enabled (APIC_SPIV_APIC_ENABLED) and icr2 (APIC_ICR2)
  present,        \* FALSE: Xen emulates no APIC, reading APIC_BASE faults
  cpu_has_x2apic,
  cur_apic_mode,  \* the driver's idea of the mode
  apic_pc,             \* where apic_init() or apic_icr_write() is
  mode,           \* its argument
  before,         \* the hardware's mode when apic_init() was called
  ret,            \* what apic_init() returned last, "none" at first
  icr,            \* the argument of apic_icr_write(): <<dest, command>>
  sent,           \* the interrupt sent last: got, and asked for
  outcome         \* "fine", "fault" (#GP) or "lost" (a write to no APIC)

apicVars == <<hw, present, cpu_has_x2apic, cur_apic_mode, apic_pc, mode, before, ret,
          icr, sent, outcome>>

NoDest == "nowhere"
Ipis   == Dests \X Commands

NoIpi  == [got |-> <<>>, asked |-> <<>>]

ASSUME NoDestAssumption == NoDest \notin Dests

\* The mode that bits EXTD and ENABLE of APIC_BASE stand for.
apicbase_to_mode(extd, enable) ==
  CASE ~extd /\ ~enable -> "DISABLED"
    [] ~extd /\ enable  -> "XAPIC"
    [] extd /\ enable   -> "X2APIC"
    [] OTHER            -> "NONE"

HwMode == apicbase_to_mode(hw.extd, hw.enable)

ApicInit ==
  /\ present \in BOOLEAN
  /\ cpu_has_x2apic \in BOOLEAN
  /\ hw \in [extd : BOOLEAN, enable : BOOLEAN,
             window : {"default", "moved"},
             enabled : BOOLEAN, icr2 : {NoDest}]
  /\ hw.extd => hw.enable /\ cpu_has_x2apic
  /\ hw.enabled => hw.enable
  /\ cur_apic_mode = "UNKNOWN"
  /\ apic_pc = "idle"
  /\ mode = "UNKNOWN"
  /\ before = HwMode
  /\ ret = "none"
  /\ icr = <<>>
  /\ sent = NoIpi
  /\ outcome = "fine"

(***************************************************************************)
(* The hardware.                                                           *)
(***************************************************************************)

\* The changes of EXTD and ENABLE that do not fault: x2APIC mode is entered
\* from xAPIC mode only, and left for disabled only.
Legal(extd, enable) ==
  LET to == apicbase_to_mode(extd, enable)
  IN  \/ to = HwMode
      \/ to = "DISABLED"
      \/ HwMode = "DISABLED" /\ to = "XAPIC"
      \/ HwMode = "XAPIC" /\ to = "X2APIC" /\ cpu_has_x2apic

\* wrmsr(MSR_APICBASE): disabling the APIC resets its registers.
SetBase(extd, enable, window, next) ==
  IF Legal(extd, enable)
  THEN /\ hw' = [extd |-> extd, enable |-> enable, window |-> window,
                 enabled |-> enable /\ hw.enabled,
                 icr2 |-> IF enable THEN hw.icr2 ELSE NoDest]
       /\ apic_pc' = next
       /\ UNCHANGED outcome
  ELSE /\ outcome' = "fault"
       /\ apic_pc' = "stopped"
       /\ UNCHANGED hw

\* CUR_APIC_MODE
AccessMode == IF TestMode # "UNKNOWN" THEN TestMode ELSE cur_apic_mode

\* What becomes of a register access: one through the window needs xAPIC mode
\* and the window where apic.h expects it, one through the MSRs faults outside
\* of x2APIC mode.
Access(via) ==
  IF via = "XAPIC"
  THEN IF HwMode = "XAPIC" /\ hw.window = "default" THEN "fine" ELSE "lost"
  ELSE IF HwMode = "X2APIC" THEN "fine" ELSE "fault"

\* One register write: apic_mmio_write() or apic_msr_write().
Write(via, reached, next) ==
  /\ hw' = IF Access(via) = "fine" THEN reached ELSE hw
  /\ outcome' = IF outcome = "fine" THEN Access(via) ELSE outcome
  /\ apic_pc' = IF Access(via) = "fault" THEN "stopped" ELSE next

(***************************************************************************)
(* apic_init()                                                             *)
(***************************************************************************)

CallInit(m) ==
  /\ apic_pc = "idle"
  /\ mode' = m
  /\ before' = HwMode
  /\ ret' = "none"
  /\ apic_pc' = IF cur_apic_mode = "UNKNOWN" THEN "discover" ELSE "check"
  /\ UNCHANGED <<hw, present, cpu_has_x2apic, cur_apic_mode, icr, sent,
                 outcome>>

DiscoverNone ==
  /\ apic_pc = "discover"
  /\ ~present
  /\ cur_apic_mode' = "NONE"
  /\ apic_pc' = "check"
  /\ UNCHANGED <<hw, present, cpu_has_x2apic, mode, before, ret, icr, sent,
                 outcome>>

\* The mode is read, and the window moved back where it was elsewhere.
Discover ==
  /\ apic_pc = "discover"
  /\ present
  /\ cur_apic_mode' = HwMode
  /\ SetBase(hw.extd, hw.enable, "default", "check")
  /\ UNCHANGED <<present, cpu_has_x2apic, mode, before, ret, icr, sent>>

Unavailable ==
  \/ cur_apic_mode = "NONE"
  \/ mode = "X2APIC" /\ ~cpu_has_x2apic

Refuse ==
  /\ apic_pc = "check"
  /\ Unavailable
  /\ ret' = "ENODEV"
  /\ apic_pc' = "idle"
  /\ UNCHANGED <<hw, present, cpu_has_x2apic, cur_apic_mode, mode, before,
                 icr, sent, outcome>>

\* Mutant: without the detour over disabled.
GoesStraight ==
  /\ apic_pc = "check"
  /\ ~Unavailable
  /\ apic_pc' = IF mode = cur_apic_mode THEN "spiv" ELSE "enable"
  /\ UNCHANGED <<hw, present, cpu_has_x2apic, cur_apic_mode, mode, before,
                 ret, icr, sent, outcome>>

Disable ==
  /\ apic_pc = "check"
  /\ ~Unavailable
  /\ IF mode = cur_apic_mode
     THEN apic_pc' = "spiv" /\ UNCHANGED <<hw, outcome>>
     ELSE SetBase(FALSE, FALSE, hw.window, "enable")
  /\ UNCHANGED <<present, cpu_has_x2apic, cur_apic_mode, mode, before, ret,
                 icr, sent>>

EnableXapic ==
  /\ apic_pc = "enable"
  /\ IF mode \in {"XAPIC", "X2APIC"}
     THEN SetBase(FALSE, TRUE, hw.window, "extend")
     ELSE apic_pc' = "extend" /\ UNCHANGED <<hw, outcome>>
  /\ UNCHANGED <<present, cpu_has_x2apic, cur_apic_mode, mode, before, ret,
                 icr, sent>>

EnableX2apic ==
  /\ apic_pc = "extend"
  /\ IF mode = "X2APIC"
     THEN SetBase(TRUE, TRUE, hw.window, "spiv")
     ELSE apic_pc' = "spiv" /\ UNCHANGED <<hw, outcome>>
  /\ cur_apic_mode' = IF apic_pc' = "spiv" THEN mode ELSE cur_apic_mode
  /\ UNCHANGED <<present, cpu_has_x2apic, mode, before, ret, icr, sent>>

\* Mutant: the APIC is enabled only where its mode was changed.
EnablesWhenChanged ==
  /\ apic_pc = "spiv"
  /\ IF before = mode
     THEN apic_pc' = "idle" /\ UNCHANGED <<hw, outcome>>
     ELSE Write(cur_apic_mode, [hw EXCEPT !.enabled = TRUE], "idle")
  /\ ret' = "ok"
  /\ UNCHANGED <<present, cpu_has_x2apic, cur_apic_mode, mode, before, icr,
                 sent>>

\* apic_write(APIC_SPIV, APIC_SPIV_APIC_ENABLED | 0xff); return 0;  TEST_APIC_MODE is
\* the test's, and unknown to the code of apic.c.
WriteSpiv ==
  /\ apic_pc = "spiv"
  /\ Write(cur_apic_mode, [hw EXCEPT !.enabled = TRUE], "idle")
  /\ ret' = IF apic_pc' = "idle" THEN "ok" ELSE ret
  /\ UNCHANGED <<present, cpu_has_x2apic, cur_apic_mode, mode, before, icr,
                 sent>>

(***************************************************************************)
(* apic_icr_write(), by a test for which apic_init() succeeded.            *)
(***************************************************************************)

CallIcrWrite(ipi) ==
  /\ apic_pc = "idle"
  /\ ret = "ok"
  /\ icr' = ipi
  /\ apic_pc' = IF AccessMode = "XAPIC" THEN "icr2" ELSE "icr"
  /\ UNCHANGED <<hw, present, cpu_has_x2apic, cur_apic_mode, mode, before, ret,
                 sent, outcome>>

\* Mutant: the destination is not written first.
SkipsIcr2 ==
  /\ apic_pc = "icr2"
  /\ apic_pc' = "icr"
  /\ UNCHANGED <<hw, present, cpu_has_x2apic, cur_apic_mode, mode, before, ret,
                 icr, sent, outcome>>

WriteIcr2 ==
  /\ apic_pc = "icr2"
  /\ Write(AccessMode, [hw EXCEPT !.icr2 = icr[1]], "icr")
  /\ UNCHANGED <<present, cpu_has_x2apic, cur_apic_mode, mode, before, ret,
                 icr, sent>>

\* Writing the lower half sends: in xAPIC mode to what APIC_ICR2 holds, in
\* x2APIC mode, where one write carries both halves, to what it says.
WriteIcr ==
  LET dest == IF HwMode = "XAPIC" THEN hw.icr2 ELSE icr[1]
  IN  /\ apic_pc = "icr"
      /\ Write(AccessMode, [hw EXCEPT !.icr2 = dest], "idle")
      /\ sent' = IF Access(AccessMode) = "fine"
                 THEN [got |-> <<dest, icr[2]>>, asked |-> icr]
                 ELSE sent
      /\ UNCHANGED <<present, cpu_has_x2apic, cur_apic_mode, mode, before, ret,
                     icr>>

ApicNext ==
  \/ \E m \in Requests : CallInit(m)
  \/ DiscoverNone
  \/ Discover
  \/ Refuse
  \/ Disable
  \/ EnableXapic
  \/ EnableX2apic
  \/ WriteSpiv
  \/ \E ipi \in Ipis : CallIcrWrite(ipi)
  \/ WriteIcr2
  \/ WriteIcr

ApicSpec == ApicInit /\ [][ApicNext]_apicVars

(***************************************************************************)
(* Properties.                                                             *)
(***************************************************************************)

\* Every variable has its type.  Of the interrupts sent it says that their
\* destination is one somebody wrote (apic_mmio_icr_write()).
ApicTypeOK ==
  /\ hw \in [extd : BOOLEAN, enable : BOOLEAN, window : {"default", "moved"},
             enabled : BOOLEAN, icr2 : Dests \cup {NoDest}]
  /\ present \in BOOLEAN
  /\ cpu_has_x2apic \in BOOLEAN
  /\ cur_apic_mode \in Modes
  /\ apic_pc \in {"idle", "discover", "check", "enable", "extend", "spiv", "icr2",
            "icr", "stopped"}
  /\ mode \in Requests \cup {"UNKNOWN"}
  /\ before \in HwModes
  /\ ret \in {"none", "ok", "ENODEV"}
  /\ icr \in Ipis \cup {<<>>}
  /\ sent \in [got : Ipis, asked : Ipis] \cup {NoIpi}
  /\ outcome \in {"fine", "fault", "lost"}

\* Whatever the order of apic_init() calls and the mode the APIC was found in,
\* no change of mode and no register access of the driver faults, and none
\* goes to a window that is not there (arch/x86/apic.c, apic_init()).
RegistersReached == outcome = "fine"

\* Between calls the driver's idea of the mode is the hardware's, and the
\* window is where apic.h expects it (apic.c:13, cur_apic_mode).
DriverKnowsMode ==
  apic_pc = "idle" /\ cur_apic_mode \in HwModes =>
    /\ HwMode = cur_apic_mode
    /\ hw.window = "default"

\* apic_init() returns 0 with the APIC in the mode asked for and enabled, and
\* -ENODEV only where that mode is not to be had, the mode then being what it
\* was (apic.h:50, "May fail if there is no APIC, or the requested mode is not
\* available").
ApicAnswersAreRight ==
  apic_pc = "idle" =>
    /\ ret = "ok" => HwMode = mode /\ hw.enabled
    /\ ret = "ENODEV" =>
         /\ ~present \/ (mode = "X2APIC" /\ ~cpu_has_x2apic)
         /\ HwMode = before

\* An interrupt goes where its own caller wanted it, also in xAPIC mode where
\* it takes two writes (apic.h:65, apic_mmio_icr_write()).
IpisAreWhole == sent.got = sent.asked

(***************************************************************************)
(* The inductive invariant: at each place of apic_init() and of            *)
(* apic_icr_write(), what the hardware is known to be.                     *)
(***************************************************************************)

HwIsLegal ==
  /\ hw.extd => hw.enable /\ cpu_has_x2apic
  /\ hw.enabled => hw.enable

\* While the hardware is not being changed, cur_apic_mode is its mode.
DriverAgrees ==
  cur_apic_mode \in HwModes /\ apic_pc \notin {"enable", "extend"} =>
    /\ HwMode = cur_apic_mode
    /\ hw.window = "default"

InDiscovery ==
  /\ apic_pc = "discover" => cur_apic_mode = "UNKNOWN"
  /\ apic_pc \notin {"idle", "discover"} => cur_apic_mode # "UNKNOWN"
  /\ apic_pc \in {"discover", "check"} => mode \in Requests /\ HwMode = before
  /\ cur_apic_mode = "NONE" => ~present

InChange ==
  apic_pc \in {"enable", "extend", "spiv"} =>
    /\ mode \in Requests
    /\ ~Unavailable
    /\ cur_apic_mode \in HwModes
    /\ hw.window = "default"
    /\ apic_pc = "enable" => HwMode = "DISABLED"
    /\ apic_pc = "extend" => HwMode = "XAPIC"
    /\ apic_pc = "spiv"   => HwMode = mode /\ cur_apic_mode = mode

Answered ==
  /\ apic_pc \notin {"idle", "icr2", "icr"} => ret = "none"
  /\ apic_pc \in {"icr2", "icr"} => ret = "ok"
  /\ ret = "ok" => mode \in Requests /\ cur_apic_mode = mode /\ hw.enabled
  /\ ret = "ENODEV" =>
       /\ ~present \/ (mode = "X2APIC" /\ ~cpu_has_x2apic)
       /\ HwMode = before

InIcrWrite ==
  /\ apic_pc = "icr2" => AccessMode = "XAPIC"
  /\ apic_pc \in {"icr2", "icr"} => icr \in Ipis
  /\ apic_pc = "icr" /\ AccessMode = "XAPIC" => hw.icr2 = icr[1]

ApicIndInv ==
  /\ ApicTypeOK
  /\ RegistersReached
  /\ IpisAreWhole
  /\ apic_pc # "stopped"
  /\ HwIsLegal
  /\ DriverAgrees
  /\ InDiscovery
  /\ InChange
  /\ Answered
  /\ InIcrWrite
=============================================================================
