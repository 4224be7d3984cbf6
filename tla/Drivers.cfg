CONSTANTS
  Tests <- MCTests
  MsrTests <- MCMsrTests
  Requests = {"XAPIC", "X2APIC"}
  TestMode = "UNKNOWN"
  Dests = {"self", "other"}
  Commands = {"fixed", "nmi"}
  Versions = {1, 2, 3}
  NrPages = 2
  Kinds = {"PV", "HVM"}
  Xens = {"old", "v1", "v2"}
  Word = 2
  Highest = 1
  Timers = {0, 1}
  HpetIrqs = {16}
  HpetBuilds = {FALSE, TRUE}
  DomIds = {0, 12}
  Blocks = 2
  Ports = {1, 2}
  Entries = {2}
  Programs = {"a", "b"}
SPECIFICATION FairSpec
INVARIANTS
  RegistersReached
  ApicAnswersAreRight
  IpisAreWhole
  GnttabAnswersAreRight
  ReadIsNow
  MasksAsAsked
  DomIdIsOwn
  MsrAnswersAreRight
PROPERTIES
  FiresAsAsked
  CallsReturn
  TimersFire
