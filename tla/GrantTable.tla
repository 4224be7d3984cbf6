----------------------------- MODULE GrantTable -----------------------------
(***************************************************************************)
(* The grant table driver: xtf_init_grant_table() asks Xen for a version   *)
(* of the table, where Xen can be asked, and maps the table once.  It may  *)
(* be called any number of times; each hypercall may fail, half of the     *)
(* mapping done.                                                           *)
(***************************************************************************)
EXTENDS Integers

CONSTANTS
    Versions,    \* what a test may ask for
    NrPages,     \* the pages of gnttab_raw[]
    Kinds,       \* of builds
    Xens         \* of hypervisors: without set_version, with v1 only, with both

ASSUME GrantTableAssumption ==
    /\ Versions \subseteq Nat /\ NrPages \in Nat \ {0}
    /\ Kinds \subseteq {"PV", "HVM"}
    /\ Xens \subseteq {"old", "v1", "v2"}

VARIABLES
    kind, xen,                   \* of the build, of the hypervisor
    \* Xen's state of this domain
    version,                     \* the version of the table
    mapped,                      \* what each page of gnttab_raw[] maps, or NoFrame
    \* the driver's
    set_version_unavailable, gnttab_mapped,
    want, page, rc,              \* argument and variables of the call
    gfns,                        \* PV: gnttab_gfns[] has been filled
    gnttab_pc

xenVars == <<kind, xen, version>>
flags == <<set_version_unavailable, gnttab_mapped>>
gnttabVars == <<xenVars, mapped, flags, want, gfns, page, rc, gnttab_pc>>

Pages == 0..(NrPages - 1)
NoFrame == -1

GnttabInit ==
    /\ kind \in Kinds /\ xen \in Xens
    /\ version = 1
    /\ mapped = [p \in Pages |-> NoFrame]
    /\ set_version_unavailable = FALSE /\ gnttab_mapped = FALSE
    /\ want = 0 /\ gfns = FALSE /\ page = 0 /\ rc = "ok" /\ gnttab_pc = "idle"

-----------------------------------------------------------------------------
GnttabReturn(r) == gnttab_pc' = "idle" /\ rc' = r

CallInitGrantTable(v) ==
    /\ gnttab_pc = "idle"
    /\ want' = v /\ rc' = "ok"
    /\ gnttab_pc' = IF set_version_unavailable THEN "check" ELSE "set_version"
    /\ UNCHANGED <<xenVars, mapped, flags, gfns, page>>

\* Xen has the hypercall, for this version.
Knows(v) == xen = "v2" \/ (xen = "v1" /\ v # 2)

Supports(v) == v = 1 \/ (v = 2 /\ xen = "v2")

SetVersion ==
    /\ gnttab_pc = "set_version"
    /\ Knows(want) /\ Supports(want)
    /\ version' = want
    /\ gnttab_pc' = "check"
    /\ UNCHANGED <<kind, xen, mapped, flags, want, gfns, page, rc>>

\* -ENOSYS: for good, as the code takes it.
NoSetVersion ==
    /\ gnttab_pc = "set_version"
    /\ ~Knows(want)
    /\ set_version_unavailable' = TRUE /\ rc' = "ENOSYS"
    /\ gnttab_pc' = "check"
    /\ UNCHANGED <<xenVars, mapped, gnttab_mapped, want, gfns, page>>

\* Any other error: no such version, active grants, no memory.
SetVersionFails ==
    /\ gnttab_pc = "set_version"
    /\ Knows(want)
    /\ GnttabReturn("EIO")
    /\ UNCHANGED <<xenVars, mapped, flags, want, gfns, page>>

\* A definition marked "Mutant" is no part of the model: it is what the
\* definition after it would be if the code had the named bug.

\* Mutant: an old Xen is good for every version.
NeverTooOld ==
    /\ gnttab_pc = "check"
    /\ IF gnttab_mapped THEN GnttabReturn(rc) ELSE gnttab_pc' = "map" /\ rc' = "ok"
    /\ page' = 0 /\ gfns' = FALSE
    /\ UNCHANGED <<xenVars, mapped, flags, want>>

CheckVersion ==
    /\ gnttab_pc = "check"
    /\ IF set_version_unavailable /\ want # 1 THEN GnttabReturn("ENODEV")
       ELSE IF gnttab_mapped THEN GnttabReturn(rc)
       ELSE gnttab_pc' = "map" /\ rc' = "ok"
    /\ page' = 0 /\ gfns' = FALSE
    /\ UNCHANGED <<xenVars, mapped, flags, want>>

\* arch_map_gnttab(): under PV, GNTTABOP_setup_table first says where the
\* frames are.
SetupTable ==
    /\ gnttab_pc = "map" /\ kind = "PV" /\ ~gfns
    /\ gfns' = TRUE
    /\ UNCHANGED <<xenVars, mapped, flags, want, page, rc, gnttab_pc>>

SetupTableFails ==
    /\ gnttab_pc = "map" /\ kind = "PV" /\ ~gfns
    /\ GnttabReturn("EIO")
    /\ UNCHANGED <<xenVars, mapped, flags, want, gfns, page>>

\* hypercall_update_va_mapping(), or XENMEM_add_to_physmap, of the next page.
MapPage ==
    /\ gnttab_pc = "map" /\ (kind = "PV" => gfns)
    /\ page < NrPages
    /\ mapped' = [mapped EXCEPT ![page] = page]
    /\ page' = page + 1
    /\ UNCHANGED <<xenVars, flags, want, gfns, rc, gnttab_pc>>

MapPageFails ==
    /\ gnttab_pc = "map" /\ (kind = "PV" => gfns)
    /\ page < NrPages
    /\ GnttabReturn("EIO")
    /\ UNCHANGED <<xenVars, mapped, flags, want, gfns, page>>

Mapped ==
    /\ gnttab_pc = "map" /\ page = NrPages
    /\ gnttab_mapped' = TRUE
    /\ GnttabReturn("ok")
    /\ UNCHANGED <<xenVars, mapped, set_version_unavailable, want, gfns, page>>

GnttabNext ==
    \/ \E v \in Versions : CallInitGrantTable(v)
    \/ SetVersion \/ NoSetVersion \/ SetVersionFails \/ CheckVersion
    \/ SetupTable \/ SetupTableFails \/ MapPage \/ MapPageFails \/ Mapped

GnttabSpec == GnttabInit /\ [][GnttabNext]_gnttabVars

-----------------------------------------------------------------------------
\* Every variable stays in its range.
GnttabTypeOK ==
    /\ kind \in Kinds /\ xen \in Xens
    /\ version \in Versions \union {1}
    /\ mapped \in [Pages -> Pages \union {NoFrame}]
    /\ set_version_unavailable \in BOOLEAN /\ gnttab_mapped \in BOOLEAN
    /\ want \in Versions \union {0} /\ gfns \in BOOLEAN /\ page \in 0..NrPages
    /\ rc \in {"ok", "EIO", "ENODEV", "ENOSYS"}
    /\ gnttab_pc \in {"idle", "set_version", "check", "map"}

AllMapped == \A p \in Pages : mapped[p] = p

\* Whatever failed in the calls before: a call that returns 0 leaves the whole
\* table mapped, in the version asked for; -ENODEV is the answer only of a Xen
\* that does not have the version; -ENOSYS is no answer ("Sets a grant table
\* version, and maps the grant table itself.  Safe to be called multiple times
\* to switch grant table version", grant_table.h).
GnttabAnswersAreRight ==
    gnttab_pc = "idle" /\ want # 0 =>
        /\ rc = "ok" => AllMapped /\ version = want
        /\ rc = "ENODEV" => ~Supports(want)
        /\ rc # "ENOSYS"

\* The two flags that outlive a call are never ahead of the facts.
GnttabFlagsAreRight ==
    /\ gnttab_mapped => AllMapped
    /\ set_version_unavailable => version = 1

-----------------------------------------------------------------------------
\* The inductive strengthening: what a call has achieved so far.
GnttabProgress ==
    /\ set_version_unavailable => xen # "v2"
    /\ xen # "v2" => version = 1
    /\ xen = "old" /\ ~set_version_unavailable =>
          ~gnttab_mapped /\ gnttab_pc \notin {"check", "map"}
    /\ rc = "ENOSYS" =>
          gnttab_pc = "idle" \/ (gnttab_pc = "check" /\ (gnttab_mapped => want # 1))
    /\ gnttab_pc \in {"set_version", "map"} => rc = "ok"
    /\ gnttab_pc = "check" =>
          rc \in {"ok", "ENOSYS"} /\ (set_version_unavailable \/ rc = "ok")
    /\ gnttab_pc = "set_version" => ~set_version_unavailable
    /\ gnttab_pc # "idle" => want \in Versions
    /\ gnttab_pc \in {"check", "map"} => set_version_unavailable \/ version = want
    /\ gnttab_pc = "map" =>
          /\ version = want /\ ~gnttab_mapped
          /\ \A p \in Pages : p < page => mapped[p] = p

GnttabIndInv ==
    /\ GnttabTypeOK
    /\ GnttabAnswersAreRight
    /\ GnttabFlagsAreRight
    /\ GnttabProgress
=============================================================================
