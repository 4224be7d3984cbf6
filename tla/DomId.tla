------------------------------- MODULE DomId -------------------------------
(***************************************************************************)
(* How a test finds out its domain id: xtf_get_domid() asks the CPUID      *)
(* leaves of Xen, then an event channel made for the purpose, then         *)
(* xenstore.  Each source may fail, and a call may follow any other.       *)
(***************************************************************************)
EXTENDS Integers, Sequences

CONSTANTS
    DomIds,        \* the ids that the domain may have
    Blocks,        \* how many blocks of hypervisor leaves find_xen_leaves() looks at
    Ports          \* the event channel ports of the domain

\* DOMID_FIRST_RESERVED
FirstReserved == 32752

ASSUME DomIdAssumption ==
    /\ DomIds \subseteq 0..(FirstReserved - 1) /\ Blocks \in Nat /\ Ports \subseteq Nat

VARIABLES
    own,           \* the id of this domain
    is_hvm,        \* CONFIG_HVM
    blocks,        \* what CPUID has at each 0x100: "xen", "other", or "short",
                   \* where the first leaf announces less than two more
    has_leaf4,     \* XEN_HVM_CPUID_DOMID_PRESENT
    text,          \* what xenstore has as "domid", <<>> without xenstore
    leaves,        \* the block found, once it is
    open,          \* the ports that are open
    port,          \* that of the call
    status,        \* what the hypervisor told of it
    digits,        \* the rest of the string to convert
    domid,         \* its value so far
    id,            \* what xtf_get_domid() returned last; None before
    domid_pc

domidEnv == <<own, is_hvm, blocks, has_leaf4, text>>
domidVars == <<domidEnv, leaves, open, port, status, digits, domid, id, domid_pc>>

None == -2
NoPort == -1

Digits == 0..9

\* The decimal digits of an id, which has at most five of them.
FiveDigits(n) ==
    <<n \div 10000, (n \div 1000) % 10, (n \div 100) % 10, (n \div 10) % 10, n % 10>>

FirstOf(all) == CHOOSE i \in 1..5 : (all[i] # 0 \/ i = 5) /\ \A j \in 1..(i - 1) : all[j] = 0

Decimal(n) == SubSeq(FiveDigits(n), FirstOf(FiveDigits(n)), 5)

\* What follows digits; no digit.
Other == 10

DomIdInit ==
    /\ own \in DomIds /\ is_hvm \in BOOLEAN /\ has_leaf4 \in BOOLEAN
    /\ blocks \in [0..(Blocks - 1) -> {"xen", "other", "short"}]
    /\ text \in {<<>>, <<Other>>, Decimal(own), Append(Decimal(own), Other),
                 Decimal(FirstReserved)}
    /\ leaves = Blocks /\ open = {} /\ port = NoPort /\ status = NoPort
    /\ digits = <<>> /\ domid = 0 /\ id = None
    /\ domid_pc = "idle"

GetDomIdReturns(r) == id' = r /\ domid_pc' = "idle"

CallGetDomId ==
    /\ domid_pc = "idle"
    /\ domid_pc' = IF is_hvm THEN "leaves" ELSE "alloc"
    /\ UNCHANGED <<domidEnv, leaves, open, port, status, digits, domid, id>>

\* The blocks with the signature of Xen, and with leaves to use.
XenBlocks == {b \in DOMAIN blocks : blocks[b] = "xen"}

\* find_xen_leaves(): the first of them, or panic().
FindXenLeaves ==
    /\ domid_pc = "leaves"
    /\ IF leaves # Blocks THEN domid_pc' = "cpuid" /\ UNCHANGED leaves
       ELSE IF XenBlocks = {} THEN domid_pc' = "panic" /\ UNCHANGED leaves
       ELSE /\ leaves' = CHOOSE b \in XenBlocks : \A c \in XenBlocks : b <= c
            /\ domid_pc' = "cpuid"
    /\ UNCHANGED <<domidEnv, open, port, status, digits, domid, id>>

\* cpuid_count(base + 4, 0): what other hypervisors have there is theirs.
LeafDomId == IF blocks[leaves] = "xen" THEN own ELSE FirstReserved

ArchGetDomId ==
    /\ domid_pc = "cpuid"
    /\ IF has_leaf4 THEN GetDomIdReturns(LeafDomId) ELSE domid_pc' = "alloc" /\ UNCHANGED id
    /\ UNCHANGED <<domidEnv, leaves, open, port, status, digits, domid>>

\* evtchn_get_domid(): EVTCHNOP_alloc_unbound, for the domain itself.
AllocUnbound ==
    /\ domid_pc = "alloc"
    /\ \E p \in Ports \ open : port' = p /\ open' = open \union {p}
    /\ domid_pc' = "status"
    /\ UNCHANGED <<domidEnv, leaves, status, digits, domid, id>>

AllocFails ==
    /\ domid_pc = "alloc"
    /\ domid_pc' = "xenstore"
    /\ UNCHANGED <<domidEnv, leaves, open, port, status, digits, domid, id>>

\* Mutant: it returns as soon as it has no status.
ReturnsWithPort ==
    /\ domid_pc = "status"
    /\ \/ status' = own /\ domid_pc' = "close"
       \/ status' = NoPort /\ domid_pc' = "xenstore"
    /\ UNCHANGED <<domidEnv, leaves, open, port, digits, domid, id>>

\* EVTCHNOP_status, which may fail.
EvtchnStatus ==
    /\ domid_pc = "status"
    /\ status' \in {own, NoPort}
    /\ domid_pc' = "close"
    /\ UNCHANGED <<domidEnv, leaves, open, port, digits, domid, id>>

EvtchnClose ==
    /\ domid_pc = "close"
    /\ open' = open \ {port} /\ port' = NoPort
    /\ IF status # NoPort THEN GetDomIdReturns(status) ELSE domid_pc' = "xenstore" /\ UNCHANGED id
    /\ UNCHANGED <<domidEnv, leaves, status, digits, domid>>

\* xenstore_get_domid(): xenstore_init() and xenstore_read() may fail.
XenstoreRead ==
    /\ domid_pc = "xenstore"
    /\ \/ /\ text # <<>> /\ text[1] \in Digits
          /\ digits' = text /\ domid' = 0
          /\ domid_pc' = "digits" /\ UNCHANGED id
       \/ /\ GetDomIdReturns(-1)
          /\ UNCHANGED <<digits, domid>>
    /\ UNCHANGED <<domidEnv, leaves, open, port, status>>

\* There are too few of them for an overflow.
XenstoreDigit ==
    /\ domid_pc = "digits" /\ digits # <<>> /\ digits[1] \in Digits
    /\ domid' = domid * 10 + digits[1]
    /\ digits' = Tail(digits)
    /\ UNCHANGED <<domidEnv, leaves, open, port, status, id, domid_pc>>

XenstoreValue ==
    /\ domid_pc = "digits" /\ ~(digits # <<>> /\ digits[1] \in Digits)
    /\ GetDomIdReturns(IF domid >= FirstReserved THEN -1 ELSE domid)
    /\ digits' = <<>>
    /\ UNCHANGED <<domidEnv, leaves, open, port, status, domid>>

DomIdPanicked == domid_pc = "panic" /\ UNCHANGED domidVars

DomIdNext ==
    \/ CallGetDomId \/ FindXenLeaves \/ ArchGetDomId
    \/ AllocUnbound \/ AllocFails \/ EvtchnStatus \/ EvtchnClose
    \/ XenstoreRead \/ XenstoreDigit \/ XenstoreValue \/ DomIdPanicked

-----------------------------------------------------------------------------
\* Whatever fails, the domain is left without an open port, so that it can ask
\* as often as it likes ("Clean up the allocated port, irrespective of other
\* failures"), and what it is told is its own id or that there is none.
DomIdIsOwn ==
    domid_pc = "idle" => open = {} /\ id \in {None, -1, own}
=============================================================================
