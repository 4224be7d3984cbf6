--------------------------- MODULE Drivers_proofs ---------------------------
(***************************************************************************)
(* What is proved of the drivers of a test.  Used together, each of them   *)
(* takes only the steps that it takes on its own, so that what is proved   *)
(* of each holds of all together.                                          *)
(***************************************************************************)
EXTENDS Drivers, Arithmetic, TLAPS

-----------------------------------------------------------------------------
(* The APIC, for every set of requests but APIC_MODE_DISABLED, which makes *)
(* the driver fault, every TEST_APIC_MODE, and all destinations and        *)
(* commands.                                                               *)

\* What every test of the repository keeps to.
NeverDisables == "DISABLED" \notin Requests

\* The three legal values of APIC_BASE and their modes (apic.c:15).
LEMMA ModeOf ==
  /\ apicbase_to_mode(FALSE, FALSE) = "DISABLED"
  /\ apicbase_to_mode(FALSE, TRUE) = "XAPIC"
  /\ apicbase_to_mode(TRUE, TRUE) = "X2APIC"
BY DEF apicbase_to_mode

\* Initially nothing is known, and the hardware is in a legal mode.
LEMMA ApicIndInvInit == ApicInit => ApicIndInv
<1> SUFFICES ASSUME ApicInit PROVE ApicIndInv
  OBVIOUS
<1>1. HwMode \in HwModes
  BY DEF ApicInit, HwMode, HwModes, apicbase_to_mode
<1>2. ApicTypeOK
  BY <1>1 DEF ApicInit, ApicTypeOK, Modes
<1> QED
  BY <1>1, <1>2 DEF ApicInit, ApicIndInv, RegistersReached, IpisAreWhole, HwIsLegal,
    DriverAgrees, InDiscovery, InChange, Answered, InIcrWrite, NoIpi, HwModes

\* The flags of the hardware are flags, and a disabled APIC has none set.
LEMMA HwFlags ==
  ASSUME ApicIndInv
  PROVE  /\ hw.extd \in BOOLEAN /\ hw.enable \in BOOLEAN
         /\ hw.enabled \in BOOLEAN
         /\ (TRUE /\ hw.enabled) = hw.enabled
         /\ hw = [extd |-> hw.extd, enable |-> hw.enable, window |-> hw.window,
                  enabled |-> hw.enabled, icr2 |-> hw.icr2]
BY DEF ApicIndInv, ApicTypeOK

\* Every step keeps what is known at each place of the driver.
LEMMA ApicIndInvStep ==
  ASSUME NeverDisables, ApicIndInv, [ApicNext]_apicVars
  PROVE  ApicIndInv'
<1> USE DEF ApicIndInv, RegistersReached, IpisAreWhole
<1>1. mode \in Requests => mode \in {"XAPIC", "X2APIC"}
  BY RequestsAssumption DEF NeverDisables, HwModes
<1>2. TestMode # "UNKNOWN" /\ mode \in Requests => mode = TestMode
  BY RequestsAssumption
<1>3. hw = [extd |-> hw.extd, enable |-> hw.enable, window |-> hw.window,
            enabled |-> hw.enabled, icr2 |-> hw.icr2]
  BY HwFlags
<1>4. ASSUME NEW m \in Requests, CallInit(m) PROVE ApicIndInv'
  BY <1>4, <1>1, <1>2, <1>3, RequestsAssumption DEF CallInit, ApicTypeOK,
    HwIsLegal, DriverAgrees, InDiscovery, InChange, Answered, InIcrWrite,
    HwMode, HwModes, Modes, Unavailable, AccessMode, apicbase_to_mode
<1>5. CASE DiscoverNone
  BY <1>5, <1>1, <1>2, <1>3 DEF DiscoverNone, ApicTypeOK, HwIsLegal, DriverAgrees,
    InDiscovery, InChange, Answered, InIcrWrite, HwMode, HwModes, Modes
<1>6. CASE Discover
  BY <1>6, <1>1, <1>2, <1>3 DEF Discover, SetBase, Legal, ApicTypeOK, HwIsLegal,
    DriverAgrees, InDiscovery, InChange, Answered, InIcrWrite, HwMode, HwModes,
    Modes, apicbase_to_mode
<1>7. CASE Refuse
  BY <1>7, <1>1, <1>2, <1>3 DEF Refuse, Unavailable, ApicTypeOK, HwIsLegal,
    DriverAgrees, InDiscovery, InChange, Answered, InIcrWrite, HwMode, HwModes
<1>8. CASE Disable
  <2>1. mode \in Requests /\ ~Unavailable /\ apic_pc = "check"
    BY <1>8 DEF Disable, InDiscovery
  <2>2. CASE mode = cur_apic_mode
    <3>1. apic_pc' = "spiv" /\ UNCHANGED hw /\ UNCHANGED outcome
      BY <1>8, <2>2 DEF Disable
    <3> QED
      BY <1>8, <1>1, <2>1, <2>2, <3>1 DEF Disable, Unavailable, ApicTypeOK,
        HwIsLegal, DriverAgrees, InDiscovery, InChange, Answered, InIcrWrite,
        HwMode, HwModes
  <2>3. CASE mode # cur_apic_mode
    <3>1. Legal(FALSE, FALSE)
      BY ModeOf DEF Legal
    <3>2. /\ hw' = [extd |-> FALSE, enable |-> FALSE, window |-> hw.window,
                    enabled |-> FALSE, icr2 |-> NoDest]
          /\ apic_pc' = "enable"
          /\ UNCHANGED outcome
      BY <1>8, <2>3, <3>1 DEF Disable, SetBase
    <3>3. HwMode' = "DISABLED"
      BY <3>2, ModeOf DEF HwMode
    <3>4. hw.window = "default" /\ cur_apic_mode \in HwModes
      BY <2>1 DEF DriverAgrees, Unavailable, InDiscovery, ApicTypeOK, Modes
    <3>5. ApicTypeOK'
      BY <1>8, <3>2 DEF Disable, ApicTypeOK
    <3> QED
      BY <1>8, <1>1, <2>1, <3>2, <3>3, <3>4, <3>5 DEF Disable, Unavailable,
        HwIsLegal, DriverAgrees, InDiscovery, InChange, Answered, InIcrWrite
  <2> QED
    BY <2>2, <2>3
<1>9. CASE EnableXapic
  <2>1. /\ mode \in {"XAPIC", "X2APIC"}
        /\ HwMode = "DISABLED"
    BY <1>9, <1>1 DEF EnableXapic, InChange
  <2>2. Legal(FALSE, TRUE)
    BY <2>1, ModeOf DEF Legal
  <2>3. /\ hw' = [extd |-> FALSE, enable |-> TRUE, window |-> hw.window,
                  enabled |-> hw.enabled, icr2 |-> hw.icr2]
        /\ apic_pc' = "extend"
        /\ UNCHANGED outcome
    BY <1>9, <2>1, <2>2, HwFlags DEF EnableXapic, SetBase
  <2>4. HwMode' = "XAPIC"
    BY <2>3, ModeOf DEF HwMode
  <2>5. ApicTypeOK'
    BY <1>9, <2>3 DEF EnableXapic, ApicTypeOK
  <2> QED
    BY <1>9, <1>1, <2>3, <2>4, <2>5 DEF EnableXapic, Unavailable, HwIsLegal,
      DriverAgrees, InDiscovery, InChange, Answered, InIcrWrite
<1>10. CASE EnableX2apic
  <2>1. /\ mode \in Requests
        /\ mode \in {"XAPIC", "X2APIC"}
        /\ HwMode = "XAPIC"
        /\ mode = "X2APIC" => cpu_has_x2apic
        /\ cur_apic_mode \in HwModes
        /\ hw.window = "default"
        /\ apic_pc = "extend"
    BY <1>10, <1>1 DEF EnableX2apic, InChange, Unavailable
  <2>2. CASE mode = "XAPIC"
    <3>1. apic_pc' = "spiv" /\ UNCHANGED hw /\ UNCHANGED outcome
      BY <1>10, <2>2 DEF EnableX2apic
    <3>2. cur_apic_mode' = "XAPIC" /\ HwMode' = "XAPIC"
      BY <1>10, <2>1, <2>2, <3>1 DEF EnableX2apic, HwMode
    <3>3. ApicTypeOK'
      BY <1>10, <3>1, <3>2 DEF EnableX2apic, ApicTypeOK, Modes, HwModes
    <3> QED
      BY <1>10, <2>1, <2>2, <3>1, <3>2, <3>3 DEF EnableX2apic, Unavailable,
        HwIsLegal, DriverAgrees, InDiscovery, InChange, Answered, InIcrWrite,
        HwModes
  <2>3. CASE mode = "X2APIC"
    <3>1. Legal(TRUE, TRUE)
      BY <2>1, <2>3, ModeOf DEF Legal
    <3>2. /\ hw' = [extd |-> TRUE, enable |-> TRUE, window |-> hw.window,
                    enabled |-> hw.enabled, icr2 |-> hw.icr2]
          /\ apic_pc' = "spiv"
          /\ UNCHANGED outcome
      BY <1>10, <2>3, <3>1, HwFlags DEF EnableX2apic, SetBase
    <3>3. cur_apic_mode' = "X2APIC" /\ HwMode' = "X2APIC"
      BY <1>10, <2>3, <3>2, ModeOf DEF EnableX2apic, HwMode
    <3>4. ApicTypeOK'
      BY <1>10, <3>2, <3>3 DEF EnableX2apic, ApicTypeOK, Modes, HwModes
    <3> QED
      BY <1>10, <2>1, <2>3, <3>2, <3>3, <3>4 DEF EnableX2apic, Unavailable,
        HwIsLegal, DriverAgrees, InDiscovery, InChange, Answered, InIcrWrite,
        HwModes
  <2> QED
    BY <2>1, <2>2, <2>3
<1>11. CASE WriteSpiv
  <2>1. /\ mode \in Requests
        /\ mode \in {"XAPIC", "X2APIC"}
        /\ HwMode = mode
        /\ cur_apic_mode = mode
        /\ hw.window = "default"
        /\ ~Unavailable
        /\ apic_pc = "spiv"
    BY <1>11, <1>1 DEF WriteSpiv, InChange
  <2>2. Access(cur_apic_mode) = "fine"
    BY <2>1 DEF Access
  <2>3. /\ hw' = [hw EXCEPT !.enabled = TRUE]
        /\ apic_pc' = "idle"
        /\ outcome' = "fine"
        /\ ret' = "ok"
    BY <1>11, <2>2 DEF WriteSpiv, Write
  <2>4. hw.enable
    BY <2>1, HwFlags DEF HwMode, apicbase_to_mode, HwIsLegal
  <2>5. /\ hw' \in [extd : BOOLEAN, enable : BOOLEAN,
                     window : {"default", "moved"}, enabled : BOOLEAN,
                     icr2 : Dests \cup {NoDest}]
        /\ hw'.extd = hw.extd /\ hw'.enable = hw.enable
        /\ hw'.window = hw.window /\ hw'.enabled
    BY <2>3 DEF ApicTypeOK
  <2>6. HwMode' = HwMode
    BY <2>5 DEF HwMode
  <2>7. ApicTypeOK'
    BY <1>11, <2>3, <2>5 DEF WriteSpiv, ApicTypeOK
  <2> QED
    BY <1>11, <2>1, <2>3, <2>4, <2>5, <2>6, <2>7 DEF WriteSpiv, Unavailable,
      HwIsLegal, DriverAgrees, InDiscovery, InChange, Answered, InIcrWrite,
      HwModes
<1>12. ASSUME NEW ipi \in Ipis, CallIcrWrite(ipi) PROVE ApicIndInv'
  BY <1>12, <1>1, <1>2, <1>3 DEF CallIcrWrite, ApicTypeOK, HwIsLegal, DriverAgrees,
    InDiscovery, InChange, Answered, InIcrWrite, HwMode, HwModes, AccessMode
<1>13. CASE WriteIcr2
  BY <1>13, <1>1, <1>2, <1>3 DEF WriteIcr2, Write, Access, Ipis, ApicTypeOK,
    HwIsLegal, DriverAgrees, InDiscovery, InChange, Answered, InIcrWrite,
    HwMode, HwModes, AccessMode
<1>14. CASE WriteIcr
  BY <1>14, <1>1, <1>2, <1>3 DEF WriteIcr, Write, Access, Ipis, ApicTypeOK,
    HwIsLegal, DriverAgrees, InDiscovery, InChange, Answered, InIcrWrite,
    HwMode, HwModes, AccessMode
<1>15. CASE UNCHANGED apicVars
  BY <1>15 DEF apicVars, ApicTypeOK, HwIsLegal, DriverAgrees, InDiscovery, InChange,
    Answered, InIcrWrite, HwMode, AccessMode, Unavailable
<1> QED
  BY <1>4, <1>5, <1>6, <1>7, <1>8, <1>9, <1>10, <1>11, <1>12, <1>13, <1>14,
     <1>15 DEF ApicNext

\* The inductive invariant holds throughout.
THEOREM ApicInvariance == NeverDisables => (ApicSpec => []ApicIndInv)
<1> SUFFICES ASSUME NeverDisables PROVE ApicSpec => []ApicIndInv
  OBVIOUS
<1>1. ApicIndInv /\ [ApicNext]_apicVars => ApicIndInv'
  BY ApicIndInvStep
<1> QED
  BY ApicIndInvInit, <1>1, PTL DEF ApicSpec

\* Every variable has its type, and no interrupt goes where nobody sent it.
THEOREM ApicTypeCorrect == NeverDisables => (ApicSpec => []ApicTypeOK)
<1>1. ApicIndInv => ApicTypeOK
  BY DEF ApicIndInv
<1> QED
  BY <1>1, ApicInvariance, PTL

\* No sequence of apic_init() and apic_icr_write() calls faults or writes to a
\* window that is not there.
THEOREM NeverFaults == NeverDisables => (ApicSpec => []RegistersReached)
<1>1. ApicIndInv => RegistersReached
  BY DEF ApicIndInv
<1> QED
  BY <1>1, ApicInvariance, PTL

\* Between calls, cur_apic_mode is the mode of the hardware.
THEOREM KnowsMode == NeverDisables => (ApicSpec => []DriverKnowsMode)
<1>1. ApicIndInv => DriverKnowsMode
  BY DEF ApicIndInv, DriverAgrees, DriverKnowsMode
<1> QED
  BY <1>1, ApicInvariance, PTL

\* apic_init() answers 0 with the APIC as asked for, and -ENODEV only where
\* that cannot be.
THEOREM ApicAnswersRight == NeverDisables => (ApicSpec => []ApicAnswersAreRight)
<1> SUFFICES ASSUME NeverDisables PROVE ApicSpec => []ApicAnswersAreRight
  OBVIOUS
<1>1. ApicIndInv => ApicAnswersAreRight
  BY RequestsAssumption DEF ApicIndInv, Answered, DriverAgrees, ApicAnswersAreRight,
    HwModes
<1> QED
  BY <1>1, ApicInvariance, PTL

\* An interrupt goes where its own caller wanted it.
THEOREM IpisWhole == NeverDisables => (ApicSpec => []IpisAreWhole)
<1>1. ApicIndInv => IpisAreWhole
  BY DEF ApicIndInv
<1> QED
  BY <1>1, ApicInvariance, PTL

-----------------------------------------------------------------------------
(* The grant table, of any size.                                           *)

\* The pages are numbered from 0.
LEMMA PageNumbers ==
    /\ NrPages \in Nat /\ NrPages > 0 /\ NoFrame \in Int
    /\ \A p \in Pages : p \in Nat /\ p < NrPages
    /\ \A p \in Nat : p < NrPages => p \in Pages
<1>1. NrPages \in Nat /\ NrPages > 0
    BY GrantTableAssumption
<1> QED BY <1>1 DEF Pages, NoFrame

\* Nothing is mapped at first, and nothing claimed.
LEMMA GnttabIndInvInit == GnttabInit => GnttabIndInv
<1> SUFFICES ASSUME GnttabInit PROVE GnttabIndInv
    OBVIOUS
<1> USE PageNumbers DEF GnttabInit
<1>1. GnttabTypeOK
    <2>1. {set_version_unavailable, gnttab_mapped, gfns} \subseteq BOOLEAN
        BY Zenon
    <2> QED BY <2>1 DEF GnttabTypeOK
<1>2. GnttabAnswersAreRight /\ GnttabFlagsAreRight /\ GnttabProgress
    BY DEF GnttabAnswersAreRight, GnttabFlagsAreRight, GnttabProgress
<1> QED BY <1>1, <1>2 DEF GnttabIndInv

\* No call leaves the driver believing more than it has done.
LEMMA GnttabIndInvStep == GnttabIndInv /\ [GnttabNext]_gnttabVars => GnttabIndInv'
<1> SUFFICES ASSUME GnttabIndInv, [GnttabNext]_gnttabVars PROVE GnttabIndInv'
    OBVIOUS
<1> USE PageNumbers
    DEF GnttabIndInv, GnttabTypeOK, GnttabAnswersAreRight, GnttabFlagsAreRight,
        GnttabProgress, AllMapped, GnttabReturn, xenVars, flags
<1> USE DEF Knows, Supports
<1>1. ASSUME NEW v \in Versions, CallInitGrantTable(v) PROVE GnttabIndInv'
    BY <1>1 DEF CallInitGrantTable
<1>2. CASE SetVersion
    BY <1>2 DEF SetVersion
<1>3. CASE NoSetVersion
    BY <1>3, GrantTableAssumption DEF NoSetVersion
<1>4. CASE SetVersionFails
    BY <1>4 DEF SetVersionFails
<1>5. CASE CheckVersion
    <2>0. gfns' \in BOOLEAN
        BY <1>5, Zenon DEF CheckVersion
    <2>1. CASE set_version_unavailable /\ want # 1
        BY <1>5, <2>0, <2>1 DEF CheckVersion
    <2>2. CASE ~(set_version_unavailable /\ want # 1) /\ gnttab_mapped
        BY <1>5, <2>0, <2>2 DEF CheckVersion
    <2>3. CASE ~(set_version_unavailable /\ want # 1) /\ ~gnttab_mapped
        BY <1>5, <2>0, <2>3 DEF CheckVersion
    <2> QED BY <2>1, <2>2, <2>3
<1>6. CASE SetupTable
    BY <1>6 DEF SetupTable
<1>7. CASE SetupTableFails
    BY <1>7 DEF SetupTableFails
<1>8. CASE MapPage
    <2>1. page \in Pages /\ page \in Nat
        BY <1>8 DEF MapPage
    <2>2. \A p \in Pages : mapped'[p] = IF p = page THEN page ELSE mapped[p]
        BY <1>8, <2>1 DEF MapPage
    <2>3. mapped' \in [Pages -> Pages \union {NoFrame}]
        BY <1>8, <2>1 DEF MapPage
    <2> QED BY <1>8, <2>1, <2>2, <2>3 DEF MapPage
<1>9. CASE MapPageFails
    BY <1>9 DEF MapPageFails
<1>10. CASE Mapped
    BY <1>10 DEF Mapped
<1>11. CASE UNCHANGED gnttabVars
    BY <1>11 DEF gnttabVars
<1> QED BY <1>1, <1>2, <1>3, <1>4, <1>5, <1>6, <1>7, <1>8, <1>9, <1>10, <1>11 DEF GnttabNext

\* What a call has achieved is known in every reachable state.
THEOREM GnttabInvariance == GnttabSpec => []GnttabIndInv
BY GnttabIndInvInit, GnttabIndInvStep, PTL DEF GnttabSpec

\* A call that succeeds leaves every page of the table mapped, in the version
\* asked for, whatever calls and failures came before.
THEOREM GnttabAnswersRight == GnttabSpec => []GnttabAnswersAreRight
<1>1. GnttabIndInv => GnttabAnswersAreRight
    BY DEF GnttabIndInv
<1> QED BY GnttabInvariance, <1>1, PTL

\* The two flags that outlive a call are never ahead of the facts.
THEOREM GnttabFlagsRight == GnttabSpec => []GnttabFlagsAreRight
<1>1. GnttabIndInv => GnttabFlagsAreRight
    BY DEF GnttabIndInv
<1> QED BY GnttabInvariance, <1>1, PTL

-----------------------------------------------------------------------------
(* The IO-APIC, with any number of entries.                                *)

Redir == [mask : BOOLEAN, program : Programs, busy : BOOLEAN]

\* Entries change in the hands of their device only, and as they were asked to.
IoapicInv ==
    /\ \E n \in Nat : redir \in [0..(n - 1) -> Redir] /\ asked \in [0..(n - 1) -> Redir]
                      /\ nr_entries \in {0, n}
    /\ ioapic_pc \in {"idle", "read", "modify", "write"} /\ mask \in BOOLEAN
    /\ \A e \in Here : redir[e].program = asked[e].program
    /\ \A e \in Here : ioapic_pc = "idle" \/ e # entry => redir[e].mask = asked[e].mask
    /\ ioapic_pc # "idle" =>
          /\ entry \in Here /\ regsel = IOAPIC_REDIR_ENTRY(entry) /\ asked[entry].mask = mask
    /\ ioapic_pc \in {"modify", "write"} => value \in Redir /\ value.program = asked[entry].program
    /\ ioapic_pc = "write" => value.mask = mask

\* The registers of the entries are found again.
LEMMA EntryOfRegister == \A e \in Int : EntryOf(IOAPIC_REDIR_ENTRY(e)) = e
BY DEF EntryOf, IOAPIC_REDIR_ENTRY

\* Nothing is asked for at first.
LEMMA IoapicInvInit == IoapicInit => IoapicInv
<1> SUFFICES ASSUME IoapicInit PROVE IoapicInv
    OBVIOUS
<1>1. PICK n \in Entries \union {0} :
          redir \in [0..(n - 1) -> [mask : BOOLEAN, program : Programs, busy : {FALSE}]]
    BY DEF IoapicInit
<1>2. n \in Nat
    BY IoApicAssumption
<1>3. [mask : BOOLEAN, program : Programs, busy : {FALSE}] \subseteq Redir
    BY Zenon DEF Redir
<1>4. redir \in [0..(n - 1) -> Redir]
    BY <1>1, <1>3
<1> QED BY <1>2, <1>4 DEF IoapicInit, IoapicInv

\* Whatever the device does meanwhile, a write gives an entry back what was read
\* from it, but for the mask.
LEMMA IoapicInvStep == IoapicInv /\ [IoapicNext]_ioapicVars => IoapicInv'
<1> SUFFICES ASSUME IoapicInv, [IoapicNext]_ioapicVars PROVE IoapicInv'
    OBVIOUS
<1>1. PICK n \in Nat : redir \in [0..(n - 1) -> Redir] /\ asked \in [0..(n - 1) -> Redir]
                       /\ nr_entries \in {0, n}
    BY DEF IoapicInv
<1>2. Here = 0..(n - 1)
    BY <1>1 DEF Here
<1>3. CASE IoapicDelivers
    <2>1. PICK e \in Here : redir' = [redir EXCEPT ![e].busy = ~@]
        BY <1>3 DEF IoapicDelivers
    <2>2. redir' \in [0..(n - 1) -> Redir]
        BY <2>1, <1>1, <1>2 DEF Redir
    <2>3. Here' = Here /\ \A d \in Here : redir'[d].mask = redir[d].mask
                                          /\ redir'[d].program = redir[d].program
        BY <2>1, <1>1, <1>2, <2>2 DEF Here, Redir
    <2> QED BY <1>1, <1>3, <2>2, <2>3 DEF IoapicDelivers, IoapicInv, ioapicCall
<1>4. CASE InitIoapic
    <2>1. nr_entries' \in {0, n}
        BY <1>1, <1>2, <1>4 DEF InitIoapic, IoapicReturns
    <2> QED BY <1>1, <1>4, <2>1 DEF InitIoapic, IoapicReturns, IoapicInv, ioapicCall, Here
<1>5. CASE CallSetMask
    <2>1. PICK e \in 0..(nr_entries + 1), m \in BOOLEAN :
          IF e >= nr_entries THEN IoapicReturns(-22) /\ UNCHANGED <<regsel, entry, mask, asked>>
          ELSE /\ entry' = e /\ mask' = m
               /\ asked' = [asked EXCEPT ![e].mask = m]
               /\ regsel' = IOAPIC_REDIR_ENTRY(e)
               /\ ioapic_pc' = "read" /\ UNCHANGED ioapic_ret
        BY <1>5 DEF CallSetMask
    <2>2. CASE e >= nr_entries
        BY <1>1, <1>5, <2>1, <2>2 DEF CallSetMask, IoapicReturns, IoapicInv, Here
    <2>3. CASE ~(e >= nr_entries)
        <3>1. e \in Here
            BY <1>1, <1>2, <2>3
        <3> DEFINE r == [asked[e] EXCEPT !.mask = m]
        <3>2. asked \in [Here -> Redir] /\ asked[e] \in Redir
            BY <1>1, <1>2, <3>1
        <3>3. r \in Redir /\ r.mask = m /\ r.program = asked[e].program
            BY <2>1, <3>2 DEF Redir
        <3>4. asked' = [asked EXCEPT ![e] = r]
            BY <2>1, <2>3
        <3> HIDE DEF r
        <3>5. asked' \in [Here -> Redir] /\ asked'[e] = r
              /\ \A d \in Here : d # e => asked'[d] = asked[d]
            BY <3>1, <3>2, <3>3, <3>4
        <3> QED BY <1>1, <1>2, <1>5, <2>1, <2>3, <3>1, <3>3, <3>5 DEF CallSetMask, IoapicInv, Here
    <2> QED BY <2>2, <2>3
<1>6. CASE ReadRedir
    <2>1. entry \in Here /\ EntryOf(regsel) = entry
        BY <1>2, <1>6, EntryOfRegister DEF ReadRedir, IoapicInv
    <2>2. value' = redir[entry] /\ value' \in Redir
        BY <1>1, <1>2, <1>6, <2>1 DEF ReadRedir
    <2> QED BY <1>1, <1>6, <2>1, <2>2 DEF ReadRedir, IoapicInv, Here
<1>7. CASE ModifyRedir
    <2>1. value' \in Redir /\ value'.mask = mask /\ value'.program = value.program
        BY <1>7 DEF ModifyRedir, IoapicInv, Redir
    <2> QED BY <1>1, <1>7, <2>1 DEF ModifyRedir, IoapicInv, Here
<1>8. CASE WriteRedir
    <2>1. entry \in Here /\ EntryOf(regsel) = entry /\ value \in Redir
        BY <1>2, <1>8, EntryOfRegister DEF WriteRedir, IoapicInv
    <2> DEFINE r == [redir[entry] EXCEPT !.mask = value.mask, !.program = value.program]
    <2>2. redir' = [redir EXCEPT ![entry] = r]
        BY <1>8, <2>1 DEF WriteRedir
    <2>3. redir \in [Here -> Redir] /\ redir[entry] \in Redir
        BY <1>1, <1>2, <2>1
    <2>4. r \in Redir /\ r.mask = value.mask /\ r.program = value.program
        BY <2>1, <2>3 DEF Redir
    <2> HIDE DEF r
    <2>5. redir' \in [Here -> Redir] /\ redir'[entry] = r
          /\ \A d \in Here : d # entry => redir'[d] = redir[d]
        BY <2>1, <2>2, <2>3, <2>4
    <2>6. /\ Here' = Here /\ ioapic_pc = "write" /\ ioapic_pc' = "idle"
          /\ UNCHANGED <<regsel, entry, mask, value, asked, nr_entries>>
        BY <1>2, <1>8, <2>5 DEF WriteRedir, IoapicReturns, ioapicCall, Here
    <2>7. \E k \in Nat : redir' \in [0..(k - 1) -> Redir] /\ asked' \in [0..(k - 1) -> Redir]
                         /\ nr_entries' \in {0, k}
        BY <1>1, <1>2, <2>5, <2>6
    <2>8. r.mask = asked[entry].mask /\ r.program = asked[entry].program
        BY <2>4, <2>6 DEF IoapicInv
    <2> QED BY <2>1, <2>4, <2>5, <2>6, <2>7, <2>8 DEF IoapicInv
<1>9. CASE UNCHANGED ioapicVars
    BY <1>1, <1>9 DEF ioapicVars, ioapicCall, IoapicInv, Here
<1> QED BY <1>3, <1>4, <1>5, <1>6, <1>7, <1>8, <1>9 DEF IoapicNext

-----------------------------------------------------------------------------
(* The consistency tests of MSRs, of any values.                           *)

ReadsDone == {d[1] : d \in msr_done}
ReadsFailed == {d[1] : d \in {e \in msr_done : ~e[2]}}
ThisRead(route) == [i |-> msr_i, write |-> msr_loop, read |-> route]

\* What precedes value i of the present loop.
ReadsBefore ==
    {d \in ToBeDone : \/ d.write = msr_loop /\ d.i < msr_i
                      \/ d.write = "real" /\ msr_loop = "emul"}

\* The reads come one after the other, in the order of the loops.
MsrInv ==
    /\ msr_has_fep \in BOOLEAN /\ msr_vals \in Seq([val : Nat, pred : BOOLEAN])
    /\ msr_i \in Nat \ {0} /\ msr_loop \in Routes /\ (msr_loop = "emul" => msr_has_fep)
    /\ msr_pc \in {"idle", "for", "write", "real", "emul"}
    /\ msr_pc = "idle" => ReadsDone = ToBeDone
    /\ msr_pc \in {"for", "write", "real"} => ReadsDone = ReadsBefore
    /\ msr_pc = "emul" => ReadsDone = ReadsBefore \union {ThisRead("real")} /\ msr_has_fep
    /\ msr_pc \in {"write", "real", "emul"} => msr_i \in DOMAIN msr_vals /\ msr_vals[msr_i].pred
    /\ msr_pc \in {"real", "emul"} => msr_written = msr_vals[msr_i].val
    /\ msr_failures = ReadsFailed
    /\ msr_safe.idx # "-1u" => msr_safe.fault = msr_safe.faulted

\* At first no test has been run, which would have had no values.
LEMMA MsrInvInit == MsrInit => MsrInv
<1> SUFFICES ASSUME MsrInit PROVE MsrInv
    OBVIOUS
<1>1. ToBeDone = {}
    BY DEF MsrInit, ToBeDone
<1>2. ReadsDone = {} /\ ReadsFailed = {}
    BY DEF MsrInit, ReadsDone, ReadsFailed
<1> QED BY <1>1, <1>2 DEF MsrInit, MsrInv, Routes, NoMsrCall

\* A read adds itself, and to the failures if it fails.
LEMMA ReadAdds ==
    ASSUME NEW r, NEW b \in BOOLEAN, msr_done' = msr_done \union {<<r, b>>}
    PROVE  /\ ReadsDone' = ReadsDone \union {r}
           /\ ReadsFailed' = IF b THEN ReadsFailed ELSE ReadsFailed \union {r}
<1>1. <<r, b>>[1] = r /\ <<r, b>>[2] = b
    OBVIOUS
<1>2. ASSUME NEW x PROVE x \in ReadsDone' <=> x \in ReadsDone \/ x = r
    BY <1>1 DEF ReadsDone
<1>3. ASSUME NEW x PROVE x \in ReadsFailed' <=> x \in ReadsFailed \/ (~b /\ x = r)
    <2> DEFINE failed == {e \in msr_done : ~e[2]}
    <2>1. failed' = failed \union (IF b THEN {} ELSE {<<r, b>>})
        BY <1>1
    <2> HIDE DEF failed
    <2>2. x \in {d[1] : d \in failed'} <=> x \in {d[1] : d \in failed} \/ (~b /\ x = r)
        BY <1>1, <2>1
    <2> QED BY <2>2 DEF ReadsFailed, failed
<1> QED BY <1>2, <1>3

\* When the present value is done, the next one is the first that is not.
LEMMA ReadsBeforeNext ==
    ASSUME MsrInv, msr_i \in DOMAIN msr_vals, msr_i' = msr_i + 1,
           UNCHANGED <<msr_has_fep, msr_vals, msr_loop>>
    PROVE  ReadsBefore' = IF ~msr_vals[msr_i].pred THEN ReadsBefore
                     ELSE IF msr_has_fep THEN ReadsBefore \union {ThisRead("real"), ThisRead("emul")}
                     ELSE ReadsBefore \union {ThisRead("real")}
<1> DEFINE tried == {i \in DOMAIN msr_vals : msr_vals[i].pred}
           routes == IF msr_has_fep THEN Routes ELSE {"real"}
<1>1. ToBeDone = [i : tried, write : routes, read : routes] /\ ToBeDone' = ToBeDone
    BY DEF ToBeDone
<1>2. tried \subseteq Nat
    BY DEF MsrInv
<1>3. msr_i \in Nat /\ msr_loop \in routes
    BY DEF MsrInv, Routes
<1>4. ASSUME NEW d \in ToBeDone, d.write = msr_loop
      PROVE  d.i < msr_i + 1 <=> d.i < msr_i \/ d.i = msr_i
    BY <1>1, <1>2, <1>3
<1>5. ReadsBefore' = ReadsBefore \union {d \in ToBeDone : d.write = msr_loop /\ d.i = msr_i}
    BY <1>1, <1>4 DEF ReadsBefore
<1>6. {d \in ToBeDone : d.write = msr_loop /\ d.i = msr_i} =
      IF ~msr_vals[msr_i].pred THEN {} ELSE {ThisRead(r) : r \in routes}
    <2>1. CASE ~msr_vals[msr_i].pred
        <3>1. msr_i \notin tried
            BY <2>1
        <3> QED BY <1>1, <2>1, <3>1
    <2>2. CASE msr_vals[msr_i].pred
        <3>1. msr_i \in tried
            BY <2>2
        <3>2. ASSUME NEW r \in routes
              PROVE  ThisRead(r) \in ToBeDone /\ ThisRead(r).write = msr_loop /\ ThisRead(r).i = msr_i
            BY <1>1, <1>3, <3>1 DEF ThisRead
        <3>3. ASSUME NEW d \in ToBeDone, d.write = msr_loop, d.i = msr_i
              PROVE  d.read \in routes /\ d = ThisRead(d.read)
            BY <1>1, <3>3 DEF ThisRead
        <3> QED BY <2>2, <3>2, <3>3
    <2> QED BY <2>1, <2>2
<1> QED BY <1>5, <1>6 DEF Routes

\* No step leaves a read out or counts one wrongly.
LEMMA MsrInvStep == MsrInv /\ [MsrNext]_msrVars => MsrInv'
<1> SUFFICES ASSUME MsrInv, [MsrNext]_msrVars PROVE MsrInv'
    OBVIOUS
<1> USE DEF MsrInv, msrEnv
<1>1. ASSUME UNCHANGED <<msr_has_fep, msr_vals>> PROVE ToBeDone' = ToBeDone
    BY <1>1 DEF ToBeDone
<1>2. ASSUME UNCHANGED msr_done PROVE ReadsDone' = ReadsDone /\ ReadsFailed' = ReadsFailed
    BY <1>2 DEF ReadsDone, ReadsFailed
<1>3. ASSUME UNCHANGED <<msr_has_fep, msr_vals, msr_i, msr_loop>>
      PROVE  ReadsBefore' = ReadsBefore /\ ThisRead("real")' = ThisRead("real")
    BY <1>1, <1>3 DEF ReadsBefore, ThisRead
<1>4. CASE RdmsrOrWrmsrSafe
    BY <1>1, <1>2, <1>3, <1>4 DEF RdmsrOrWrmsrSafe, FaultIndex
<1>5. CASE CallConsistencyTest
    <2>1. ReadsBefore' = {}
        <3>1. ASSUME NEW d \in ToBeDone' PROVE ~(d.i < 1)
            BY <1>5, <3>1, MsrAssumption DEF CallConsistencyTest, ToBeDone
        <3> QED BY <1>5, <3>1 DEF CallConsistencyTest, ReadsBefore
    <2>2. ReadsDone' = {} /\ ReadsFailed' = {}
        BY <1>5 DEF CallConsistencyTest, ReadsDone, ReadsFailed
    <2> QED BY <1>5, <2>1, <2>2, MsrAssumption DEF CallConsistencyTest, Routes
<1>6. CASE For
    <2>1. ReadsDone' = ReadsDone /\ ReadsFailed' = ReadsFailed /\ ToBeDone' = ToBeDone
        BY <1>1, <1>2, <1>6 DEF For
    <2>2. CASE msr_i <= Len(msr_vals)
        <3>1. msr_i \in DOMAIN msr_vals
            BY <2>2
        <3>2. CASE msr_vals[msr_i].pred
            BY <1>3, <1>6, <2>1, <2>2, <3>1, <3>2 DEF For
        <3>3. CASE ~msr_vals[msr_i].pred
            <4>1. ReadsBefore' = ReadsBefore
                BY <1>6, <2>2, <3>1, <3>3, ReadsBeforeNext DEF For, Continue
            <4> QED BY <1>6, <2>1, <2>2, <3>3, <4>1 DEF For, Continue
        <3> QED BY <3>2, <3>3
    <2>3. CASE ~(msr_i <= Len(msr_vals))
        <3>1. ASSUME NEW d \in ToBeDone PROVE d.i < msr_i /\ d.i >= 1 /\ d.write \in Routes
            BY <2>3, <3>1 DEF ToBeDone, Routes
        <3>2. CASE msr_loop = "real" /\ msr_has_fep
            <4>1. ReadsBefore' = ReadsBefore
                <5>1. ReadsBefore = {d \in ToBeDone : d.write = "real"}
                    BY <3>1, <3>2 DEF ReadsBefore
                <5>2. ReadsBefore' = {d \in ToBeDone : d.write = "real"}
                    <6>1. msr_loop' = "emul" /\ msr_i' = 1
                        BY <1>6, <2>3, <3>2 DEF For
                    <6>2. ReadsBefore' = {d \in ToBeDone : \/ d.write = "emul" /\ d.i < 1
                                                      \/ d.write = "real"}
                        BY <2>1, <6>1 DEF ReadsBefore
                    <6>3. ASSUME NEW d \in ToBeDone PROVE ~(d.i < 1)
                        BY <6>3 DEF ToBeDone
                    <6> QED BY <6>2, <6>3
                <5> QED BY <5>1, <5>2
            <4> QED BY <1>6, <2>1, <2>3, <3>2, <4>1 DEF For, Routes
        <3>3. CASE ~(msr_loop = "real" /\ msr_has_fep)
            <4>1. ReadsBefore = ToBeDone
                <5>1. CASE msr_loop = "emul"
                    BY <3>1, <5>1 DEF ReadsBefore, Routes
                <5>2. CASE msr_loop = "real" /\ ~msr_has_fep
                    BY <3>1, <5>2 DEF ReadsBefore, ToBeDone
                <5> QED BY <3>3, <5>1, <5>2 DEF Routes
            <4> QED BY <1>6, <2>1, <2>3, <3>3, <4>1 DEF For
        <3> QED BY <3>2, <3>3
    <2> QED BY <2>2, <2>3
<1>7. CASE WriteMsr
    BY <1>1, <1>2, <1>3, <1>7 DEF WriteMsr
<1>8. ASSUME NEW route \in Routes, ReadMsr(route)
      PROVE  /\ ReadsDone' = ReadsDone \union {ThisRead(route)}
             /\ msr_failures' = ReadsFailed'
    <2>1. msr_written = msr_vals[msr_i].val
        BY <1>8 DEF ReadMsr, Routes
    <2>2. msr_done' = msr_done \union {<<ThisRead(route), msr_copy[route] = msr_written>>}
        BY <1>8 DEF ReadMsr, ThisRead
    <2>3. /\ ReadsDone' = ReadsDone \union {ThisRead(route)}
          /\ ReadsFailed' = IF msr_copy[route] = msr_written THEN ReadsFailed
                            ELSE ReadsFailed \union {ThisRead(route)}
        BY <2>2, ReadAdds
    <2> QED BY <1>8, <2>1, <2>3 DEF ReadMsr, ThisRead
<1>9. CASE ReadReal
    <2>1. ReadsDone' = ReadsDone \union {ThisRead("real")} /\ msr_failures' = ReadsFailed'
        BY <1>8, <1>9 DEF ReadReal, Routes
    <2>2. CASE msr_has_fep
        BY <1>3, <1>9, <2>1, <2>2 DEF ReadReal, ReadMsr
    <2>3. CASE ~msr_has_fep
        <3>1. ReadsBefore' = ReadsBefore \union {ThisRead("real")}
            BY <1>9, <2>3, ReadsBeforeNext DEF ReadReal, ReadMsr
        <3> QED BY <1>9, <2>1, <2>3, <3>1 DEF ReadReal, ReadMsr
    <2> QED BY <2>2, <2>3
<1>10. CASE ReadEmulated
    <2>1. ReadsDone' = ReadsDone \union {ThisRead("emul")} /\ msr_failures' = ReadsFailed'
        BY <1>8, <1>10 DEF ReadEmulated, Routes
    <2>2. ReadsBefore' = ReadsBefore \union {ThisRead("real"), ThisRead("emul")}
        BY <1>10, ReadsBeforeNext DEF ReadEmulated, ReadMsr
    <2> QED BY <1>10, <2>1, <2>2 DEF ReadEmulated, ReadMsr
<1>11. CASE Switch
    BY <1>1, <1>2, <1>3, <1>11 DEF Switch
<1>12. CASE UNCHANGED msrVars
    BY <1>1, <1>2, <1>3, <1>12 DEF msrVars
<1> QED BY <1>4, <1>5, <1>6, <1>7, <1>9, <1>10, <1>11, <1>12 DEF MsrNext

-----------------------------------------------------------------------------
(* The HPET, for words of any width, any number of timers and lines, and   *)
(* in either build.                                                        *)

USE WordAssumption, HighestAssumption

\* A 64-bit value is the pair of its words.
LEMMA ValueType ==
  ASSUME NEW v \in Values
  PROVE  /\ v = <<v[1], v[2]>>
         /\ v[1] \in 0 .. Highest /\ v[2] \in Words
         /\ v[1] \in Nat /\ v[2] \in Nat
BY DEF Values, Words

\* What the counter is reset to is one.
LEMMA ZeroIsValue == Zero \in Values
BY DEF Zero, Values, Words

\* A half-written register holds a value, whatever it held (hpet.h:54).
LEMMA LowOfType ==
  ASSUME NEW v \in Values, NEW old \in Values
  PROVE  LowOf(v, old) \in Values
BY ValueType DEF LowOf, Values

\* The order of values is one.
LEMMA Reflexive == ASSUME NEW v \in Values PROVE AtMost(v, v)
BY ValueType DEF AtMost

\* Later than later is later.
LEMMA Transitive ==
  ASSUME NEW a \in Values, NEW b \in Values, NEW c \in Values,
         AtMost(a, b), AtMost(b, c)
  PROVE  AtMost(a, c)
<1>1. /\ a[1] \in Nat /\ a[2] \in Nat /\ b[1] \in Nat /\ b[2] \in Nat
      /\ c[1] \in Nat /\ c[2] \in Nat
  BY ValueType
<1> QED
  BY <1>1 DEF AtMost

\* A tick leads to a later value.
LEMMA TickMovesOn ==
  ASSUME NEW v \in Values, v # <<Highest, Word - 1>>
  PROVE  /\ Incremented(v) \in Values
         /\ AtMost(v, Incremented(v))
<1>1. /\ v = <<v[1], v[2]>>
      /\ v[1] \in Nat /\ v[1] <= Highest
      /\ v[2] \in Nat /\ v[2] <= Word - 1
  BY ValueType DEF Words
<1>2. CASE v[2] + 1 = Word
  <2>1. v[1] # Highest
    BY <1>1, <1>2
  <2>2. v[1] + 1 \in 0 .. Highest /\ 0 \in Words
    BY <1>1, <2>1 DEF Words
  <2> QED
    BY <1>1, <1>2, <2>2 DEF Incremented, AtMost, Values
<1>3. CASE v[2] + 1 # Word
  <2>1. v[1] \in 0 .. Highest /\ v[2] + 1 \in Words
    BY <1>1, <1>3 DEF Words
  <2> QED
    BY <1>1, <1>3, <2>1 DEF Incremented, AtMost, Values
<1> QED
  BY <1>2, <1>3

\* Initially all timers are off and nothing has been read.
LEMMA HpetIndInvInit == HpetInit => HpetIndInv
<1> SUFFICES ASSUME HpetInit PROVE HpetIndInv
  OBVIOUS
<1>1. HpetTypeOK
  <2>1. 0 \in 0 .. Highest /\ 0 \in Words
    BY DEF Words
  <2> QED
    BY <2>1, ZeroIsValue DEF HpetInit, HpetTypeOK
<1>2. ReadIsNow
  BY ZeroIsValue, Reflexive DEF HpetInit, ReadIsNow
<1>3. HaltedInCall /\ TimersAsAsked /\ InCall /\ InRead
  BY DEF HpetInit, HaltedInCall, TimersAsAsked, Off, InCall, InRead
<1> QED
  BY <1>1, <1>2, <1>3 DEF HpetIndInv

\* The registers of one timer.
LEMMA TimerType ==
  ASSUME HpetTypeOK, NEW n \in Timers
  PROVE  /\ timer[n].cmp \in Values
         /\ timer[n].enabled =>
              timer[n] \in [enabled : {TRUE}, irq : HpetIrqs, cmp : Values]
<1>1. CASE timer[n] = Off
  BY <1>1, ZeroIsValue DEF Off
<1>2. CASE timer[n] \in [enabled : {TRUE}, irq : HpetIrqs, cmp : Values]
  BY <1>2
<1> QED
  BY <1>1, <1>2 DEF HpetTypeOK

\* The type of each variable is kept: the devices' variables, and the driver's.
LEMMA TypeStep ==
  ASSUME HpetIndInv, [HpetNext]_hpetVars
  PROVE  HpetTypeOK'
<1> USE DEF HpetIndInv, HpetTypeOK
<1>1. CASE Tick
  <2>1. counter' \in Values
    BY <1>1, TickMovesOn DEF Tick
  <2>2. fired' \subseteq [nr : Timers, irq : HpetIrqs, at : Values]
    <3> SUFFICES ASSUME NEW n \in Timers, timer[n].enabled
                 PROVE  timer[n].irq \in HpetIrqs
      BY <1>1, <2>1 DEF Tick
    <3>1. timer[n] # Off
      BY DEF Off
    <3> QED
      BY <3>1
  <2> QED
    BY <1>1, <2>1, <2>2 DEF Tick, reader
<1>2. ASSUME NEW n \in Timers, NEW irq \in HpetIrqs, NEW ticks \in Values,
             CallInitTimer(n, irq, ticks)
      PROVE  HpetTypeOK'
  BY <1>2 DEF CallInitTimer, Calls, device, reader
<1>3. CASE HaltCounter
  BY <1>3 DEF HaltCounter, reader
<1>4. CASE ResetCounter
  BY <1>4, LowOfType, ZeroIsValue DEF ResetCounter, reader
<1>5. CASE ResetCounterHigh
  BY <1>5, ZeroIsValue DEF ResetCounterHigh, reader
<1>6. CASE ConfigureTimer
  <2>1. arg.nr \in Timers /\ arg.irq \in HpetIrqs
    BY <1>6 DEF ConfigureTimer, InCall, Calls
  <2>2. timer[arg.nr].cmp \in Values
    BY <2>1, TimerType
  <2>3. timer' = [timer EXCEPT ![arg.nr] =
                    [enabled |-> TRUE, irq |-> arg.irq,
                     cmp |-> timer[arg.nr].cmp]]
    BY <1>6, <2>1 DEF ConfigureTimer
  <2>4. timer' \in [Timers -> [enabled : {TRUE}, irq : HpetIrqs, cmp : Values]
                              \cup {Off}]
    BY <2>1, <2>2, <2>3
  <2> QED
    BY <1>6, <2>4 DEF ConfigureTimer, reader
<1>7. CASE SetComparator
  <2> DEFINE new == LowOf(arg.ticks, timer[arg.nr].cmp)
  <2>1. arg.nr \in Timers /\ arg.ticks \in Values /\ timer[arg.nr].enabled
    BY <1>7 DEF SetComparator, InCall, Calls
  <2>2. new \in Values
    BY <2>1, TimerType, LowOfType
  <2>3. timer[arg.nr] \in [enabled : {TRUE}, irq : HpetIrqs, cmp : Values]
    BY <2>1, TimerType
  <2>4. timer' = [timer EXCEPT ![arg.nr].cmp = new]
    BY <1>7, <2>1 DEF SetComparator
  <2> HIDE DEF new
  <2>5. timer' \in [Timers -> [enabled : {TRUE}, irq : HpetIrqs, cmp : Values]
                              \cup {Off}]
    BY <2>1, <2>2, <2>3, <2>4
  <2> QED
    BY <1>7, <2>5 DEF SetComparator, reader
<1>8. CASE SetComparatorHigh
  <2>1. /\ arg.nr \in Timers /\ arg.irq \in HpetIrqs /\ arg.ticks \in Values
        /\ timer[arg.nr].enabled
    BY <1>8 DEF SetComparatorHigh, InCall, Calls
  <2>2. timer[arg.nr] \in [enabled : {TRUE}, irq : HpetIrqs, cmp : Values]
    BY <2>1, TimerType
  <2>3. timer' \in [Timers -> [enabled : {TRUE}, irq : HpetIrqs, cmp : Values]
                              \cup {Off}]
    BY <1>8, <2>1, <2>2 DEF SetComparatorHigh
  <2>4. requested' \in [Timers -> [irq : HpetIrqs, ticks : Values] \cup {NoCall}]
    BY <1>8, <2>1 DEF SetComparatorHigh
  <2> QED
    BY <1>8, <2>3, <2>4 DEF SetComparatorHigh, reader
<1>9. CASE StartCounter
  BY <1>9 DEF StartCounter, reader
<1>10. CASE CallRead
  BY <1>10 DEF CallRead, device
<1>11. CASE ReadWhole
  BY <1>11 DEF ReadWhole, Answer, device
<1>12. CASE ReadHigh
  BY <1>12, ValueType DEF ReadHigh, device
<1>13. CASE ReadLow
  BY <1>13, ValueType DEF ReadLow, device
<1>14. CASE ReadHighAgain
  <2>1. <<hi, lo>> \in Values
    BY DEF Values
  <2>2. read' \in [value : Values, from : Values, to : Values]
    <3>1. CASE hi = counter[1]
      BY <1>14, <2>1, <3>1 DEF ReadHighAgain, Answer
    <3>2. CASE hi # counter[1]
      BY <1>14, <3>2 DEF ReadHighAgain
    <3> QED
      BY <3>1, <3>2
  <2>3. hpet_pc' \in {"idle", "hi"}
    BY <1>14 DEF ReadHighAgain
  <2> QED
    BY <1>14, <2>2, <2>3 DEF ReadHighAgain, device
<1>15. CASE UNCHANGED hpetVars
  BY <1>15 DEF hpetVars
<1> QED
  BY <1>1, <1>2, <1>3, <1>4, <1>5, <1>6, <1>7, <1>8, <1>9, <1>10, <1>11, <1>12,
     <1>13, <1>14, <1>15 DEF HpetNext, Driver

\* What the reader knows stays true under ticks, and its answer is right.
LEMMA ReadStep ==
  ASSUME HpetIndInv, [HpetNext]_hpetVars
  PROVE  ReadIsNow' /\ InRead'
<1> USE DEF HpetIndInv, ReadIsNow, InRead
<1>1. counter \in Values /\ began \in Values /\ hi \in Nat /\ lo \in Nat
  BY DEF HpetTypeOK, Words
<1>2. counter = <<counter[1], counter[2]>> /\ counter[1] \in Nat /\ counter[2] \in Nat
      /\ began[1] \in Nat /\ began[2] \in Nat
  BY <1>1, ValueType
<1>3. CASE Tick
  <2>1. counter' \in Values /\ AtMost(counter, counter')
    BY <1>3, <1>1, TickMovesOn DEF Tick
  <2>2. counter'[1] \in Nat /\ counter'[2] \in Nat
    BY <2>1, ValueType
  <2>3. AtMost(began, counter) => AtMost(began, counter')
    BY <1>1, <2>1, Transitive
  <2>4. /\ counter[1] <= counter'[1]
        /\ counter[1] = counter'[1] => counter[2] <= counter'[2]
    BY <1>2, <2>1, <2>2 DEF AtMost
  <2>5. hi <= counter[1] =>
          /\ hi <= counter'[1]
          /\ hi = counter'[1] => hi = counter[1] /\ counter[2] <= counter'[2]
    BY <1>1, <1>2, <2>2, <2>4
  <2>6. UNCHANGED <<hpet_pc, hi, lo, began, read>>
    BY <1>3 DEF Tick, reader
  <2>7. counter[2] <= counter'[2] /\ lo <= counter[2] => lo <= counter'[2]
    BY <1>1, <1>2, <2>2
  <2> QED
    BY <2>3, <2>5, <2>6, <2>7
<1>4. ASSUME NEW n \in Timers, NEW irq \in HpetIrqs, NEW ticks \in Values,
             CallInitTimer(n, irq, ticks)
      PROVE  ReadIsNow' /\ InRead'
  BY <1>4 DEF CallInitTimer, device, reader
<1>5. CASE HaltCounter \/ ResetCounter \/ ResetCounterHigh \/ ConfigureTimer
  BY <1>5 DEF HaltCounter, ResetCounter, ResetCounterHigh, ConfigureTimer, reader
<1>6. CASE SetComparator \/ SetComparatorHigh \/ StartCounter
  BY <1>6 DEF SetComparator, SetComparatorHigh, StartCounter, reader
<1>7. CASE CallRead
  BY <1>7, <1>1, Reflexive DEF CallRead, device
<1>8. CASE ReadWhole
  BY <1>8, <1>1, Reflexive DEF ReadWhole, Answer, device
<1>9. CASE ReadHigh
  BY <1>9, <1>2 DEF ReadHigh, device
<1>10. CASE ReadLow
  BY <1>10, <1>2 DEF ReadLow, device
<1>11. CASE ReadHighAgain
  <2>1. CASE hi = counter[1]
    <3>1. AtMost(<<hi, lo>>, counter)
      BY <1>1, <1>2, <1>11, <2>1 DEF AtMost, ReadHighAgain
    <3>2. /\ read' = [value |-> <<hi, lo>>, from |-> began, to |-> counter]
          /\ hpet_pc' = "idle"
      BY <1>11, <2>1 DEF ReadHighAgain, Answer
    <3>3. AtMost(began, <<hi, lo>>)
      BY <1>11, <2>1 DEF ReadHighAgain
    <3> QED
      BY <3>1, <3>2, <3>3
  <2>2. CASE hi # counter[1]
    BY <1>11, <2>2 DEF ReadHighAgain, device
  <2> QED
    BY <2>1, <2>2
<1>12. CASE UNCHANGED hpetVars
  BY <1>12 DEF hpetVars
<1> QED
  BY <1>3, <1>4, <1>5, <1>6, <1>7, <1>8, <1>9, <1>10, <1>11, <1>12
  DEF HpetNext, Driver

\* While hpet_init_timer() writes the counter is halted; all timers but the one
\* it writes are as requested for, and when it is done that one is too.
LEMMA TimerStep ==
  ASSUME HpetIndInv, [HpetNext]_hpetVars
  PROVE  HaltedInCall' /\ TimersAsAsked' /\ InCall'
<1> USE DEF HpetIndInv, HaltedInCall, TimersAsAsked, InCall
<1>1. CASE Tick
  BY <1>1 DEF Tick, reader
<1>2. ASSUME NEW n \in Timers, NEW irq \in HpetIrqs, NEW ticks \in Values,
             CallInitTimer(n, irq, ticks)
      PROVE  HaltedInCall' /\ TimersAsAsked' /\ InCall'
  BY <1>2 DEF CallInitTimer, Calls, device
<1>3. CASE HaltCounter \/ ResetCounter \/ ResetCounterHigh \/ StartCounter
  BY <1>3 DEF HaltCounter, ResetCounter, ResetCounterHigh, StartCounter
<1>4. CASE ConfigureTimer
  <2>1. arg.nr \in Timers /\ arg.irq \in HpetIrqs
    BY <1>4 DEF ConfigureTimer, Calls
  <2>2. /\ timer'[arg.nr].enabled /\ timer'[arg.nr].irq = arg.irq
        /\ \A n \in Timers \ {arg.nr} : timer'[n] = timer[n]
    BY <1>4, <2>1 DEF ConfigureTimer, HpetTypeOK
  <2> QED
    BY <1>4, <2>1, <2>2 DEF ConfigureTimer
<1>5. CASE SetComparator
  <2>1. arg.nr \in Timers /\ timer[arg.nr].enabled
    BY <1>5 DEF SetComparator, Calls
  <2>2. timer[arg.nr] \in [enabled : {TRUE}, irq : HpetIrqs, cmp : Values]
    BY <2>1, TimerType
  <2>3. /\ timer'[arg.nr].enabled /\ timer'[arg.nr].irq = timer[arg.nr].irq
        /\ \A n \in Timers \ {arg.nr} : timer'[n] = timer[n]
    BY <1>5, <2>1, <2>2 DEF SetComparator, HpetTypeOK
  <2> QED
    BY <1>5, <2>1, <2>3 DEF SetComparator
<1>6. CASE SetComparatorHigh
  <2>1. arg.nr \in Timers /\ timer[arg.nr].enabled
    BY <1>6 DEF SetComparatorHigh, Calls
  <2>2. timer[arg.nr] \in [enabled : {TRUE}, irq : HpetIrqs, cmp : Values]
    BY <2>1, TimerType
  <2>3. /\ timer'[arg.nr].irq = arg.irq
        /\ timer'[arg.nr].cmp = arg.ticks
        /\ \A n \in Timers \ {arg.nr} : timer'[n] = timer[n]
    BY <1>6, <2>1, <2>2 DEF SetComparatorHigh, HpetTypeOK
  <2>4. /\ requested'[arg.nr] = [irq |-> arg.irq, ticks |-> arg.ticks]
        /\ \A n \in Timers \ {arg.nr} : requested'[n] = requested[n]
    BY <1>6, <2>1 DEF SetComparatorHigh, HpetTypeOK
  <2> QED
    BY <1>6, <2>1, <2>3, <2>4 DEF SetComparatorHigh
<1>7. CASE CallRead
  BY <1>7 DEF CallRead, device
<1>8. CASE ReadWhole \/ ReadHigh \/ ReadLow
  BY <1>8 DEF ReadWhole, ReadHigh, ReadLow, device
<1>9. CASE ReadHighAgain
  <2>1. hpet_pc' \in {"idle", "hi"}
    BY <1>9 DEF ReadHighAgain
  <2> QED
    BY <1>9, <2>1 DEF ReadHighAgain, device
<1>10. CASE UNCHANGED hpetVars
  BY <1>10 DEF hpetVars
<1> QED
  BY <1>1, <1>2, <1>3, <1>4, <1>5, <1>6, <1>7, <1>8, <1>9, <1>10
  DEF HpetNext, Driver

\* The inductive invariant holds throughout.
THEOREM HpetInvariance == HpetSpec => []HpetIndInv
<1>1. HpetIndInv /\ [HpetNext]_hpetVars => HpetIndInv'
  BY TypeStep, ReadStep, TimerStep DEF HpetIndInv
<1> QED
  BY HpetIndInvInit, <1>1, PTL DEF HpetSpec

\* Every variable has its type.
THEOREM HpetTypeCorrect == HpetSpec => []HpetTypeOK
<1>1. HpetIndInv => HpetTypeOK
  BY DEF HpetIndInv
<1> QED
  BY <1>1, HpetInvariance, PTL

\* hpet_read_counter() returns a value that the counter had while it ran.
THEOREM ReadsAreNow == HpetSpec => []ReadIsNow
<1>1. HpetIndInv => ReadIsNow
  BY DEF HpetIndInv
<1> QED
  BY <1>1, HpetInvariance, PTL

\* A timer interrupts on the line and at the tick that were requested for last.
THEOREM TimersFireAsAsked == HpetSpec => FiresAsAsked
<1> DEFINE Right == fired' # fired =>
                      \A f \in fired' : /\ f.irq = requested[f.nr].irq
                                        /\ f.at = requested[f.nr].ticks
<1>1. ASSUME HpetIndInv, [HpetNext]_hpetVars PROVE [Right]_hpetVars
  <2>1. CASE Tick
    <3>1. running
      BY <2>1 DEF Tick
    <3>2. hpet_pc \notin {"compare", "compare_high"}
      BY <1>1, <3>1 DEF HpetIndInv, HaltedInCall
    <3>3. \A n \in Timers : timer[n].enabled =>
            timer[n].irq = requested[n].irq /\ timer[n].cmp = requested[n].ticks
      BY <1>1, <3>2 DEF HpetIndInv, TimersAsAsked
    <3> QED
      BY <2>1, <3>3 DEF Tick
  <2>2. CASE ~Tick
    <3>1. UNCHANGED fired
      BY <1>1, <2>2 DEF HpetNext, Driver, hpetVars, device, CallInitTimer, HaltCounter, ResetCounter,
        ResetCounterHigh, ConfigureTimer, SetComparator, SetComparatorHigh, StartCounter, CallRead, ReadWhole,
        ReadHigh, ReadLow, ReadHighAgain
    <3> QED
      BY <3>1
  <2> QED
    BY <2>1, <2>2
<1>2. HpetIndInv /\ [HpetNext]_hpetVars => [Right]_hpetVars
  BY <1>1
<1> QED
  BY <1>2, HpetInvariance, PTL DEF HpetSpec, FiresAsAsked

-----------------------------------------------------------------------------
(* The id of the domain, whatever fails, for all ids and ports, and any    *)
(* number of blocks of leaves.                                             *)

\* The number that the digits before the i-th make.
Leading(n, i) ==
    CASE i = 1 -> 0 [] i = 2 -> n \div 10000 [] i = 3 -> n \div 1000
      [] i = 4 -> n \div 100 [] i = 5 -> n \div 10 [] i = 6 -> n

\* What has been read of an id, and what is left of it.
DigitsInv ==
    domid_pc = "digits" =>
        \E n \in {own, FirstReserved}, i \in 1..6, end \in {<<>>, <<Other>>} :
            digits = SubSeq(FiveDigits(n), i, 5) \o end /\ domid = Leading(n, i)

\* What is known of the id at each place, and where the port is.
DomIdInv ==
    /\ own \in DomIds /\ id \in {None, -1, own}
    /\ blocks \in [0..(Blocks - 1) -> {"xen", "other", "short"}]
    /\ text \in {<<>>, <<Other>>, Decimal(own), Append(Decimal(own), Other), Decimal(FirstReserved)}
    /\ leaves # Blocks => leaves \in XenBlocks
    /\ domid_pc = "cpuid" => leaves \in XenBlocks
    /\ open = IF domid_pc \in {"status", "close"} THEN {port} ELSE {}
    /\ domid_pc = "close" => status \in {own, NoPort}
    /\ DigitsInv

\* The numbers that xenstore may have as an id.
IdNumbers == 0..FirstReserved

\* The digits of an id are digits, and make it again.
LEMMA DigitsMake ==
    ASSUME NEW n \in IdNumbers
    PROVE  /\ FiveDigits(n) \in [1..5 -> Digits] /\ FiveDigits(n) \in Seq(Digits) /\ Len(FiveDigits(n)) = 5
           /\ \A i \in 1..5 : Leading(n, i + 1) = Leading(n, i) * 10 + FiveDigits(n)[i]
<1>0. n \in Nat /\ n < 100000
    <2>1. n \in 0..FirstReserved
        BY Zenon DEF IdNumbers
    <2>2. FirstReserved \in Nat /\ FirstReserved < 100000
        BY DEF FirstReserved
    <2> QED BY <2>1, <2>2
<1> DEFINE a == n \div 10000
           b == n \div 1000
           c == n \div 100
           d == n \div 10
<1>1. /\ a \in 0..9 /\ b \in Nat /\ c \in Nat /\ d \in Nat
      /\ b = a * 10 + (b % 10) /\ c = b * 10 + (c % 10) /\ d = c * 10 + (d % 10) /\ n = d * 10 + (n % 10)
      /\ b % 10 \in 0..9 /\ c % 10 \in 0..9 /\ d % 10 \in 0..9 /\ n % 10 \in 0..9
    <2>1. n \in Nat /\ n < 100000
        BY <1>0
    <2>2. a \in 0..9 /\ b \in Nat /\ c \in Nat /\ d \in Nat
        <3>1. a \in 0..9
            BY <2>1
        <3>2. b \in Nat
            BY <2>1
        <3>3. c \in Nat
            BY <2>1
        <3>4. d \in Nat
            BY <2>1
        <3> QED BY <3>1, <3>2, <3>3, <3>4
    <2>3. b = a * 10 + (b % 10)
        <3> DEFINE r == b - a * 10
        <3>1. r \in 0..9 /\ b = a * 10 + r
            BY <2>1
        <3>2. b \in Int /\ a \in Int /\ r \in 0..(10 - 1) /\ 10 \in Nat \ {0}
            BY <2>1, <3>1
        <3> HIDE DEF b, a, r
        <3> QED BY <3>1, <3>2, ModUnique
    <2>4. c = b * 10 + (c % 10)
        <3> DEFINE r == c - b * 10
        <3>1. r \in 0..9 /\ c = b * 10 + r
            BY <2>1
        <3>2. c \in Int /\ b \in Int /\ r \in 0..(10 - 1) /\ 10 \in Nat \ {0}
            BY <2>1, <3>1
        <3> HIDE DEF c, b, r
        <3> QED BY <3>1, <3>2, ModUnique
    <2>5. d = c * 10 + (d % 10)
        <3> DEFINE r == d - c * 10
        <3>1. r \in 0..9 /\ d = c * 10 + r
            BY <2>1
        <3>2. d \in Int /\ c \in Int /\ r \in 0..(10 - 1) /\ 10 \in Nat \ {0}
            BY <2>1, <3>1
        <3> HIDE DEF d, c, r
        <3> QED BY <3>1, <3>2, ModUnique
    <2>6. n = d * 10 + (n % 10)
        BY <2>1
    <2>7. b % 10 \in 0..9 /\ c % 10 \in 0..9 /\ d % 10 \in 0..9 /\ n % 10 \in 0..9
        BY <2>1, <2>2
    <2> QED BY <2>2, <2>3, <2>4, <2>5, <2>6, <2>7
<1> HIDE DEF a, b, c, d
<1>2. FiveDigits(n) = <<a, b % 10, c % 10, d % 10, n % 10>>
    BY DEF FiveDigits, a, b, c, d
<1>3. Leading(n, 1) = 0 /\ Leading(n, 2) = a /\ Leading(n, 3) = b /\ Leading(n, 4) = c
      /\ Leading(n, 5) = d /\ Leading(n, 6) = n
    BY DEF Leading, a, b, c, d
<1>4. FiveDigits(n) \in Seq(Digits) /\ Len(FiveDigits(n)) = 5 /\ FiveDigits(n) \in [1..5 -> Digits]
    <2> DEFINE D == 0..9
               b1 == b % 10
               c1 == c % 10
               d1 == d % 10
               n1 == n % 10
    <2>1. a \in D /\ b1 \in D /\ c1 \in D /\ d1 \in D /\ n1 \in D /\ FiveDigits(n) = <<a, b1, c1, d1, n1>>
        BY <1>1, <1>2
    <2>2. D = Digits
        BY DEF Digits
    <2> HIDE DEF D, b1, c1, d1, n1
    <2>3. <<a, b1, c1, d1, n1>> \in Seq(D) /\ Len(<<a, b1, c1, d1, n1>>) = 5
        BY <2>1
    <2>4. <<a, b1, c1, d1, n1>> \in [1..5 -> D]
        BY <2>1
    <2> QED BY <2>1, <2>2, <2>3, <2>4
<1>6. ASSUME NEW i \in 1..5 PROVE Leading(n, i + 1) = Leading(n, i) * 10 + FiveDigits(n)[i]
    <2>1. i = 1 \/ i = 2 \/ i = 3 \/ i = 4 \/ i = 5
        OBVIOUS
    <2>2. CASE i = 1
        <3>1. i + 1 = 2 /\ FiveDigits(n)[1] = a
            BY <2>2, <1>2
        <3> QED BY <3>1, <2>2, <1>1, <1>3
    <2>3. CASE i = 2
        <3>1. i + 1 = 3 /\ FiveDigits(n)[2] = b % 10
            BY <2>3, <1>2
        <3> QED BY <3>1, <2>3, <1>1, <1>3
    <2>4. CASE i = 3
        <3>1. i + 1 = 4 /\ FiveDigits(n)[3] = c % 10
            BY <2>4, <1>2
        <3> QED BY <3>1, <2>4, <1>1, <1>3
    <2>5. CASE i = 4
        <3>1. i + 1 = 5 /\ FiveDigits(n)[4] = d % 10
            BY <2>5, <1>2
        <3> QED BY <3>1, <2>5, <1>1, <1>3
    <2>6. CASE i = 5
        <3>1. i + 1 = 6 /\ FiveDigits(n)[5] = n % 10
            BY <2>6, <1>2
        <3> QED BY <3>1, <2>6, <1>1, <1>3
    <2> QED BY <2>1, <2>2, <2>3, <2>4, <2>5, <2>6
<1> QED BY <1>4, <1>6

\* What is left starts with the next digit, and goes on with what is left then.
LEMMA DigitsOf ==
    ASSUME NEW n \in IdNumbers, NEW i \in 1..6, NEW end \in {<<>>, <<Other>>}
    PROVE  LET rest == SubSeq(FiveDigits(n), i, 5) \o end
           IN  /\ i < 6 => /\ rest # <<>> /\ rest[1] = FiveDigits(n)[i]
                           /\ Tail(rest) = SubSeq(FiveDigits(n), i + 1, 5) \o end
               /\ i = 6 => rest = end
               /\ SubSeq(FiveDigits(n), i, 5) \in Seq(0..10)
<1> DEFINE all == FiveDigits(n)
           D == 0..10
           s == SubSeq(all, i, 5)
           t == SubSeq(all, i + 1, 5)
<1>1. all \in [1..5 -> Digits] /\ all \in Seq(Digits) /\ Len(all) = 5
    BY DigitsMake
<1>2. all \in [1..5 -> D]
    BY <1>1 DEF Digits
<1> HIDE DEF all
<1>3. s = [k \in 1..(5 - i + 1) |-> all[i + k - 1]]
    OBVIOUS
<1>4. t = [k \in 1..(5 - (i + 1) + 1) |-> all[i + 1 + k - 1]]
    OBVIOUS
<1>5. s \in Seq(D) /\ Len(s) = 6 - i
    <2>1. \A k \in 1..(5 - i + 1) : all[i + k - 1] \in D
        BY <1>2
    <2>2. s \in [1..(5 - i + 1) -> D]
        BY <2>1, <1>3
    <2>3. 5 - i + 1 \in Nat /\ 5 - i + 1 = 6 - i
        OBVIOUS
    <2> HIDE DEF s
    <2>4. s \in Seq(D)
        BY <2>2, <2>3
    <2> QED BY <2>2, <2>3, <2>4
<1>6. i < 6 => t \in Seq(D) /\ Len(t) = 5 - i
    <2> SUFFICES ASSUME i < 6 PROVE t \in Seq(D) /\ Len(t) = 5 - i
        OBVIOUS
    <2>1. \A k \in 1..(5 - (i + 1) + 1) : all[i + 1 + k - 1] \in D
        BY <1>2
    <2>2. t \in [1..(5 - (i + 1) + 1) -> D]
        BY <2>1, <1>4
    <2>3. 5 - (i + 1) + 1 \in Nat /\ 5 - (i + 1) + 1 = 5 - i
        OBVIOUS
    <2> HIDE DEF t
    <2>4. t \in Seq(D)
        BY <2>2, <2>3
    <2> QED BY <2>2, <2>3, <2>4
<1>7. end \in Seq(D) /\ Len(end) \in {0, 1}
    <2>1. CASE end = <<>>
        BY <2>1
    <2>2. CASE end = <<Other>>
        <3>1. Other \in D
            BY DEF Other
        <3> QED BY <2>2, <3>1
    <2> QED BY <2>1, <2>2
<1>8. \A k \in 1..(6 - i) : s[k] = all[i + k - 1]
    BY <1>3
<1>9. i < 6 => \A k \in 1..(5 - i) : t[k] = all[i + k]
    BY <1>4
<1> HIDE DEF s, t
<1> DEFINE rest == s \o end
           tail == t \o end
<1>10. rest \in Seq(D) /\ Len(rest) = (6 - i) + Len(end) /\ Len(end) \in Nat
       /\ (\A k \in 1..(6 - i) : rest[k] = s[k]) /\ (\A k \in 1..Len(end) : rest[(6 - i) + k] = end[k])
    <2>1. rest \in Seq(D)
        BY <1>5, <1>7
    <2> QED BY <1>5, <1>7, <2>1
<1>11. ASSUME i < 6 PROVE rest # <<>> /\ rest[1] = all[i] /\ Tail(rest) = tail
    <2>1. 1 \in 1..(6 - i)
        BY <1>11
    <2>2. rest[1] = all[i]
        BY <2>1, <1>8, <1>10
    <2>3. rest # <<>>
        BY <1>10, <1>11
    <2> DEFINE u == Tail(rest)
    <2>4. u \in Seq(D) /\ Len(u) = (5 - i) + Len(end) /\ \A k \in 1..Len(u) : u[k] = rest[k + 1]
        <3> HIDE DEF rest
        <3> QED BY <1>10, <2>3
    <2> HIDE DEF u, rest
    <2>5. \A k \in 1..Len(t) : u[k] = t[k]
        <3> TAKE k \in 1..Len(t)
        <3>1. k \in 1..(5 - i) /\ k + 1 \in 1..(6 - i) /\ k \in 1..Len(u)
            BY <1>6, <1>7, <1>11, <2>4
        <3>2. u[k] = rest[k + 1] /\ rest[k + 1] = s[k + 1] /\ s[k + 1] = all[i + (k + 1) - 1]
            BY <3>1, <2>4, <1>10, <1>8
        <3>3. i + (k + 1) - 1 = i + k /\ t[k] = all[i + k]
            BY <3>1, <1>9, <1>11
        <3> QED BY <3>2, <3>3
    <2>6. \A k \in 1..Len(end) : u[Len(t) + k] = end[k]
        <3> TAKE k \in 1..Len(end)
        <3>1. Len(t) + k \in 1..Len(u) /\ (Len(t) + k) + 1 = (6 - i) + k
            BY <1>6, <1>7, <1>11, <2>4
        <3> QED BY <3>1, <2>4, <1>10
    <2>7. u = t \o end
        <3>1. t \in Seq(D) /\ Len(u) = Len(t) + Len(end)
            BY <1>6, <1>11, <2>4
        <3>2. u \in Seq(D) /\ end \in Seq(D)
            BY <1>7, <2>4
        <3> QED BY <3>1, <3>2, <2>5, <2>6, ConcatIs
    <2> QED BY <2>2, <2>3, <2>7 DEF u
<1>12. ASSUME i = 6 PROVE rest = end
    <2>1. s = <<>>
        BY <1>5, <1>12
    <2> QED BY <2>1, <1>7
<1> QED BY <1>5, <1>11, <1>12 DEF s, t, all

\* A number is written without leading zeros, or as a single one.
LEMMA DecimalIs ==
    ASSUME NEW n \in IdNumbers
    PROVE  \E i \in 1..5 : Decimal(n) = SubSeq(FiveDigits(n), i, 5) /\ Leading(n, i) = 0
<1> DEFINE all == FiveDigits(n)
           first(i) == (all[i] # 0 \/ i = 5) /\ \A j \in 1..(i - 1) : all[j] = 0
<1>1. \E i \in 1..5 : first(i)
    <2>1. CASE all[1] # 0
        <3>1. first(1)
            BY <2>1
        <3> QED BY <3>1
    <2>2. CASE all[1] = 0 /\ all[2] # 0
        <3>1. \A j \in 1..(2 - 1) : j = 1
            OBVIOUS
        <3>2. first(2)
            BY <2>2, <3>1
        <3> QED BY <3>2
    <2>3. CASE all[1] = 0 /\ all[2] = 0 /\ all[3] # 0
        <3>1. \A j \in 1..(3 - 1) : j = 1 \/ j = 2
            OBVIOUS
        <3>2. first(3)
            BY <2>3, <3>1
        <3> QED BY <3>2
    <2>4. CASE all[1] = 0 /\ all[2] = 0 /\ all[3] = 0 /\ all[4] # 0
        <3>1. \A j \in 1..(4 - 1) : j = 1 \/ j = 2 \/ j = 3
            OBVIOUS
        <3>2. first(4)
            BY <2>4, <3>1
        <3> QED BY <3>2
    <2>5. CASE all[1] = 0 /\ all[2] = 0 /\ all[3] = 0 /\ all[4] = 0
        <3>1. \A j \in 1..(5 - 1) : j = 1 \/ j = 2 \/ j = 3 \/ j = 4
            OBVIOUS
        <3>2. first(5)
            BY <2>5, <3>1
        <3> QED BY <3>2
    <2> QED BY <2>1, <2>2, <2>3, <2>4, <2>5
<1>2. PICK i \in 1..5 : i = FirstOf(all) /\ \A j \in 1..(i - 1) : all[j] = 0
    <2>1. \E i \in 1..5 : (all[i] # 0 \/ i = 5) /\ \A j \in 1..(i - 1) : all[j] = 0
        BY <1>1
    <2> HIDE DEF all
    <2> QED BY <2>1, Zenon DEF FirstOf
<1>3. \A j \in 1..5 : Leading(n, j + 1) = Leading(n, j) * 10 + all[j]
    BY DigitsMake
<1>4. Leading(n, 1) = 0
    BY DEF Leading
<1>5. Leading(n, i) = 0
    <2> HIDE DEF all
    <2>1. i > 1 => Leading(n, 1 + 1) = 0
        BY <1>2, <1>3, <1>4
    <2>2. i > 2 => Leading(n, 2 + 1) = 0
        BY <1>2, <1>3, <2>1
    <2>3. i > 3 => Leading(n, 3 + 1) = 0
        BY <1>2, <1>3, <2>2
    <2>4. i > 4 => Leading(n, 4 + 1) = 0
        BY <1>2, <1>3, <2>3
    <2>5. i = 1 \/ i = 2 \/ i = 3 \/ i = 4 \/ i = 5
        OBVIOUS
    <2> QED BY <1>4, <2>1, <2>2, <2>3, <2>4, <2>5
<1> QED BY <1>2, <1>5 DEF Decimal

\* No id is longer than that.
LEMMA DomIdNumbers ==
    ASSUME own \in DomIds PROVE own \in IdNumbers /\ FirstReserved \in IdNumbers /\ own \in Nat /\ own < FirstReserved
<1>1. own \in 0..(FirstReserved - 1)
    BY DomIdAssumption
<1>2. FirstReserved \in Nat
    BY DEF FirstReserved
<1>3. own \in Nat /\ own < FirstReserved
    BY <1>1, <1>2
<1>4. own \in 0..FirstReserved /\ FirstReserved \in 0..FirstReserved
    BY <1>2, <1>3
<1> QED BY <1>3, <1>4 DEF IdNumbers

\* Nothing is known at first.
LEMMA DomIdInvInit == DomIdInit => DomIdInv
BY DEF DomIdInit, DomIdInv, DigitsInv

\* A string that xenstore may have as an id, if it starts with a digit.
LEMMA TextIs ==
    ASSUME DomIdInv, text # <<>>, text[1] \in Digits
    PROVE  \E n \in {own, FirstReserved}, i \in 1..6, end \in {<<>>, <<Other>>} :
               text = SubSeq(FiveDigits(n), i, 5) \o end /\ Leading(n, i) = 0
<1>1. own \in IdNumbers /\ FirstReserved \in IdNumbers
    <2>1. own \in DomIds
        BY DEF DomIdInv
    <2> QED BY <2>1, DomIdNumbers
<1>2. text # <<Other>>
    BY DEF Other, Digits
<1>3. PICK n \in {own, FirstReserved}, end \in {<<>>, <<Other>>} :
          \/ end = <<>> /\ text = Decimal(n)
          \/ end = <<Other>> /\ text = Append(Decimal(n), Other)
    BY <1>2 DEF DomIdInv
<1>4. n \in IdNumbers
    BY <1>1
<1>5. PICK i \in 1..5 : Decimal(n) = SubSeq(FiveDigits(n), i, 5) /\ Leading(n, i) = 0
    BY <1>4, DecimalIs
<1>6. Decimal(n) \in Seq(0..10)
    <2>1. i \in 1..6
        OBVIOUS
    <2>2. SubSeq(FiveDigits(n), i, 5) \in Seq(0..10)
        BY <2>1, <1>4, DigitsOf
    <2> QED BY <2>2, <1>5
<1>7. text = Decimal(n) \o end
    <2> DEFINE d == Decimal(n)
    <2>1. d \in Seq(0..10) /\ Other \in 0..10
        BY <1>6 DEF Other
    <2> HIDE DEF d
    <2>2. CASE end = <<>>
        <3>1. d \o <<>> = d
            BY <2>1
        <3>2. text = d
            BY <2>2, <1>3 DEF d
        <3> QED BY <2>2, <3>1, <3>2 DEF d
    <2>3. CASE end = <<Other>>
        <3>1. Append(d, Other) = d \o <<Other>>
            BY <2>1
        <3>2. text = Append(d, Other)
            BY <2>3, <1>3 DEF d
        <3> QED BY <2>3, <3>1, <3>2 DEF d
    <2> QED BY <2>2, <2>3
<1>8. i \in 1..6 /\ text = SubSeq(FiveDigits(n), i, 5) \o end /\ Leading(n, i) = 0
    BY <1>5, <1>7
<1> QED BY <1>8, Zenon

\* Every source tells the id of this domain, or none, and gives its port back.
LEMMA DomIdInvStep == DomIdInv /\ [DomIdNext]_domidVars => DomIdInv'
<1> SUFFICES ASSUME DomIdInv, [DomIdNext]_domidVars PROVE DomIdInv'
    OBVIOUS
<1>1. own \in DomIds /\ id \in {None, -1, own}
    BY DEF DomIdInv
<1>2. own \in IdNumbers /\ FirstReserved \in IdNumbers /\ own \in Nat /\ own < FirstReserved
    BY <1>1, DomIdNumbers
<1>3. CASE CallGetDomId
    BY <1>3 DEF CallGetDomId, DomIdInv, DigitsInv, domidEnv, XenBlocks
<1>4. CASE FindXenLeaves
    <2>1. CASE leaves # Blocks
        BY <1>4, <2>1 DEF FindXenLeaves, DomIdInv, DigitsInv, domidEnv, XenBlocks
    <2>2. CASE leaves = Blocks /\ XenBlocks = {}
        BY <1>4, <2>2 DEF FindXenLeaves, DomIdInv, DigitsInv, domidEnv, XenBlocks
    <2>3. CASE leaves = Blocks /\ XenBlocks # {}
        <3>1. XenBlocks \subseteq Nat
            BY DomIdAssumption DEF XenBlocks, DomIdInv
        <3>2. \E b \in XenBlocks : \A c \in XenBlocks : b <= c
            BY <2>3, <3>1, LeastNumber
        <3>3. (CHOOSE b \in XenBlocks : \A c \in XenBlocks : b <= c) \in XenBlocks
            BY <3>2, Zenon
        <3>4. leaves' \in XenBlocks /\ domid_pc' = "cpuid" /\ XenBlocks' = XenBlocks
            BY <1>4, <2>3, <3>3 DEF FindXenLeaves, domidEnv, XenBlocks
        <3> QED BY <1>4, <3>4 DEF FindXenLeaves, DomIdInv, DigitsInv, domidEnv
    <2> QED BY <2>1, <2>2, <2>3
<1>5. CASE ArchGetDomId
    <2>1. LeafDomId = own
        BY <1>5 DEF ArchGetDomId, DomIdInv, LeafDomId, XenBlocks
    <2> QED BY <1>5, <2>1 DEF ArchGetDomId, GetDomIdReturns, DomIdInv, DigitsInv, domidEnv, XenBlocks
<1>6. CASE AllocUnbound \/ AllocFails
    BY <1>6 DEF AllocUnbound, AllocFails, DomIdInv, DigitsInv, domidEnv, XenBlocks
<1>7. CASE EvtchnStatus
    BY <1>7 DEF EvtchnStatus, DomIdInv, DigitsInv, domidEnv, XenBlocks
<1>8. CASE EvtchnClose
    BY <1>8 DEF EvtchnClose, GetDomIdReturns, DomIdInv, DigitsInv, domidEnv, XenBlocks
<1>9. CASE XenstoreRead
    <2>1. CASE domid_pc' = "idle"
        BY <1>9, <2>1 DEF XenstoreRead, GetDomIdReturns, DomIdInv, DigitsInv, domidEnv, XenBlocks
    <2>2. CASE domid_pc' # "idle"
        <3>1. /\ text # <<>> /\ text[1] \in Digits /\ digits' = text /\ domid' = 0
              /\ domid_pc' = "digits" /\ UNCHANGED id
            BY <1>9, <2>2 DEF XenstoreRead, GetDomIdReturns
        <3>2. DigitsInv'
            <4>1. PICK n \in {own, FirstReserved}, i \in 1..6, end \in {<<>>, <<Other>>} :
                      text = SubSeq(FiveDigits(n), i, 5) \o end /\ Leading(n, i) = 0
                BY <3>1, TextIs
            <4>2. own' = own
                BY <1>9 DEF XenstoreRead, domidEnv
            <4>3. \E m \in {own, FirstReserved}, j \in 1..6, e \in {<<>>, <<Other>>} :
                      digits' = SubSeq(FiveDigits(m), j, 5) \o e /\ domid' = Leading(m, j)
                BY <3>1, <4>1, Zenon
            <4> QED BY <4>2, <4>3 DEF DigitsInv
        <3> QED BY <1>9, <3>1, <3>2 DEF XenstoreRead, DomIdInv, domidEnv, XenBlocks
    <2> QED BY <2>1, <2>2
<1>10. CASE XenstoreDigit
    <2>1. PICK n \in {own, FirstReserved}, i \in 1..6, end \in {<<>>, <<Other>>} :
              digits = SubSeq(FiveDigits(n), i, 5) \o end /\ domid = Leading(n, i)
        BY <1>10 DEF XenstoreDigit, DomIdInv, DigitsInv
    <2>2. n \in IdNumbers
        BY <1>2
    <2>3. i # 6
        <3> SUFFICES ASSUME i = 6 PROVE FALSE
            OBVIOUS
        <3>1. digits = end
            BY <2>1, <2>2, DigitsOf
        <3> QED BY <1>10, <3>1 DEF XenstoreDigit, Other, Digits
    <2>4. i < 6 /\ i \in 1..5 /\ i + 1 \in 1..6
        BY <2>3
    <2>5. digits[1] = FiveDigits(n)[i] /\ Tail(digits) = SubSeq(FiveDigits(n), i + 1, 5) \o end
        BY <2>1, <2>2, <2>4, DigitsOf
    <2>6. Leading(n, i + 1) = Leading(n, i) * 10 + FiveDigits(n)[i]
        BY <2>2, <2>4, DigitsMake
    <2>7. digits' = SubSeq(FiveDigits(n), i + 1, 5) \o end /\ domid' = Leading(n, i + 1) /\ own' = own
        BY <1>10, <2>1, <2>5, <2>6 DEF XenstoreDigit, domidEnv
    <2>8. DigitsInv'
        <3>1. \E m \in {own, FirstReserved}, j \in 1..6, e \in {<<>>, <<Other>>} :
                  digits' = SubSeq(FiveDigits(m), j, 5) \o e /\ domid' = Leading(m, j)
            <4> DEFINE k == i + 1
            <4>1. k \in 1..6 /\ digits' = SubSeq(FiveDigits(n), k, 5) \o end /\ domid' = Leading(n, k)
                BY <2>4, <2>7
            <4> HIDE DEF k
            <4> QED BY <4>1, Zenon
        <3> QED BY <2>7, <3>1 DEF DigitsInv
    <2> QED BY <1>10, <2>8 DEF XenstoreDigit, DomIdInv, domidEnv, XenBlocks
<1>11. CASE XenstoreValue
    <2>1. PICK n \in {own, FirstReserved}, i \in 1..6, end \in {<<>>, <<Other>>} :
              digits = SubSeq(FiveDigits(n), i, 5) \o end /\ domid = Leading(n, i)
        BY <1>11 DEF XenstoreValue, DomIdInv, DigitsInv
    <2>2. n \in IdNumbers
        BY <1>2
    <2>3. i = 6
        <3> SUFFICES ASSUME i # 6 PROVE FALSE
            OBVIOUS
        <3>1. i < 6 /\ i \in 1..5
            OBVIOUS
        <3>2. digits # <<>> /\ digits[1] = FiveDigits(n)[i]
            BY <2>1, <2>2, <3>1, DigitsOf
        <3>3. FiveDigits(n)[i] \in Digits
            BY <2>2, <3>1, DigitsMake
        <3> QED BY <1>11, <3>2, <3>3 DEF XenstoreValue
    <2>4. domid = n
        BY <2>1, <2>3 DEF Leading
    <2>5. (IF domid >= FirstReserved THEN -1 ELSE domid) \in {-1, own}
        BY <1>2, <2>4 DEF FirstReserved
    <2> QED BY <1>11, <2>5 DEF XenstoreValue, GetDomIdReturns, DomIdInv, DigitsInv, domidEnv, XenBlocks
<1>12. CASE DomIdPanicked \/ UNCHANGED domidVars
    <2>1. UNCHANGED domidVars
        BY <1>12 DEF DomIdPanicked
    <2>2. /\ UNCHANGED <<own, is_hvm, blocks, has_leaf4, text>>
          /\ UNCHANGED <<leaves, open, port, status, digits, domid, id, domid_pc>>
        BY <2>1 DEF domidVars, domidEnv
    <2>3. XenBlocks' = XenBlocks /\ (DigitsInv => DigitsInv')
        BY <2>2 DEF XenBlocks, DigitsInv
    <2> QED BY <2>2, <2>3 DEF DomIdInv
<1> QED BY <1>3, <1>4, <1>5, <1>6, <1>7, <1>8, <1>9, <1>10, <1>11, <1>12 DEF DomIdNext

-----------------------------------------------------------------------------
(* All together.                                                           *)

\* A step of a test is one of each of its drivers, or leaves that one alone.
LEMMA StepsOfDrivers ==
    [Next]_vars =>
        /\ [ApicNext]_apicVars /\ [GnttabNext]_gnttabVars /\ [HpetNext]_hpetVars
        /\ [IoapicNext]_ioapicVars /\ [DomIdNext]_domidVars /\ [MsrNext]_msrVars
BY DEF Next, vars, UsesApic, UsesGnttab, UsesHpet, UsesIoapic, UsesDomId, UsesMsr

\* A test that uses several drivers implements the specification of each of them.
THEOREM DriversAreThemselves == FairSpec => ApicSpec /\ GnttabSpec /\ HpetSpec
<1>1. Init => ApicInit /\ GnttabInit /\ HpetInit
    BY DEF Init
<1> QED BY <1>1, StepsOfDrivers, PTL DEF FairSpec, Spec, ApicSpec, GnttabSpec, HpetSpec

\* Whatever else a test uses, and whichever modes other than "disabled" it asks
\* for, it finds the APIC where it expects it and each answer true.
THEOREM ApicIsRight ==
    ASSUME NeverDisables
    PROVE  FairSpec => [](RegistersReached /\ ApicAnswersAreRight /\ IpisAreWhole)
<1>1. ApicSpec => []RegistersReached
    BY NeverFaults
<1>2. ApicSpec => []ApicAnswersAreRight
    BY ApicAnswersRight
<1>3. ApicSpec => []IpisAreWhole
    BY IpisWhole
<1> QED BY <1>1, <1>2, <1>3, DriversAreThemselves, PTL

\* Nor do other drivers disturb the grant table and the HPET.
THEOREM GnttabAndHpetAreRight ==
    FairSpec => []GnttabAnswersAreRight /\ []ReadIsNow /\ FiresAsAsked
BY GnttabAnswersRight, ReadsAreNow, TimersFireAsAsked, DriversAreThemselves, PTL

\* ioapic_set_mask() changes what it is asked to and nothing else, for any
\* number of entries and while the device works on them.
THEOREM MasksRight == FairSpec => []MasksAsAsked
<1>1. Init => IoapicInv
    BY IoapicInvInit DEF Init
<1>2. IoapicInv /\ [Next]_vars => IoapicInv'
    BY IoapicInvStep, StepsOfDrivers
<1>3. IoapicInv => MasksAsAsked
    BY DEF IoapicInv, MasksAsAsked
<1> QED BY <1>1, <1>2, <1>3, PTL DEF FairSpec, Spec

\* A consistency test makes all of the reads that it should, and complains of
\* exactly those that do not find the value written last, for any values.
THEOREM MsrAnswersRight == FairSpec => []MsrAnswersAreRight
<1>1. Init => MsrInv
    BY MsrInvInit DEF Init
<1>2. MsrInv /\ [Next]_vars => MsrInv'
    BY MsrInvStep, StepsOfDrivers
<1>3. MsrInv => MsrAnswersAreRight
    BY DEF MsrInv, MsrAnswersAreRight, ReadsDone, ReadsFailed
<1> QED BY <1>1, <1>2, <1>3, PTL DEF FairSpec, Spec

\* xtf_get_domid() gives the id of this domain or none, whichever sources fail
\* and whatever other drivers did before, and leaves no event channel behind.
THEOREM DomIdRight == FairSpec => []DomIdIsOwn
<1>1. Init => DomIdInv
    BY DomIdInvInit DEF Init
<1>2. DomIdInv /\ [Next]_vars => DomIdInv'
    BY DomIdInvStep, StepsOfDrivers
<1>3. DomIdInv => DomIdIsOwn
    BY DEF DomIdInv, DomIdIsOwn
<1> QED BY <1>1, <1>2, <1>3, PTL DEF FairSpec, Spec
=============================================================================
