-------------------------------- MODULE Cpuid --------------------------------
(***************************************************************************)
(* collect_cpuid() of arch/x86/setup.c: what a test knows of the processor *)
(* it runs on, in x86_features[], x86_vendor and so on.                    *)
(*                                                                         *)
(* The number of a leaf is its upper and its lower half.  Where the code   *)
(* only passes a register on, it stands for itself: leaf, subleaf, name.   *)
(***************************************************************************)
EXTENDS Integers

CONSTANTS
    Vendors,       \* of the processors
    MaxLeaves,     \* their highest leaf, and
    MaxExtdLeaves, \* what they have in its place among the extended ones
    Signatures,    \* eax of leaf 1
    Sizes          \* the widths of addresses in eax of leaf 0x80000008

ASSUME CpuidAssumption ==
    /\ Vendors \subseteq {"GenuineIntel", "AuthenticAMD", "another"}
    /\ \A l \in MaxLeaves \union MaxExtdLeaves : l[1] \in 0..(2^16 - 1) /\ l[2] \in 0..(2^16 - 1)
    /\ Signatures \subseteq [stepping : 0..15, model : 0..15, family : 0..15,
                             extended_model : 0..15, extended_family : 0..255]
    /\ Sizes \subseteq [phys : 0..255, virt : 0..255]

VARIABLES
    processor,     \* what CPUID says of this one
    x86            \* what collect_cpuid() sets

cpuidVars == <<processor, x86>>

Basic(n) == <<0, n>>
Extended(n) == <<32768, n>>       \* 0x8000....

AtLeast(max, leaf) == max[1] > leaf[1] \/ (max[1] = leaf[1] /\ max[2] >= leaf[2])

\* Words of x86_features[].
FEATURESET_1d == 0
FEATURESET_1c == 1
FEATURESET_e1d == 2
FEATURESET_e1c == 3
FEATURESET_Da1 == 4
FEATURESET_7b0 == 5
FEATURESET_7c0 == 6
FEATURESET_e7d == 7
FEATURESET_e8b == 8
FEATURESET_7d0 == 9
FSCAPINTS == FEATURESET_7d0 + 1

\* The call that sets word w: the leaf, the subleaf and the register.
cpuid_fn(w) ==
    CASE w = FEATURESET_1c -> <<Basic(1), 0, "ecx">>
      [] w = FEATURESET_1d -> <<Basic(1), 0, "edx">>
      [] w = FEATURESET_7b0 -> <<Basic(7), 0, "ebx">>
      [] w = FEATURESET_7c0 -> <<Basic(7), 0, "ecx">>
      [] w = FEATURESET_7d0 -> <<Basic(7), 0, "edx">>
      [] w = FEATURESET_Da1 -> <<Basic(13), 0, "eax">>
      [] w = FEATURESET_e1c -> <<Extended(1), 0, "ecx">>
      [] w = FEATURESET_e1d -> <<Extended(1), 0, "edx">>
      [] w = FEATURESET_e7d -> <<Extended(7), 0, "edx">>
      [] w = FEATURESET_e8b -> <<Extended(8), 0, "ebx">>

\* A definition marked "Mutant" is no part of the model: it is what the
\* definition after it would be if the code had the named bug.

\* Mutant: the extended leaves are taken to be there.
NotLookedFor(leaf) ==
    IF leaf[1] = 0 THEN AtLeast(processor.max_leaf, leaf)
    ELSE AtLeast(processor.max_extd_leaf, leaf)

Present(leaf) ==
    IF leaf[1] = 0 THEN AtLeast(processor.max_leaf, leaf)
    ELSE processor.max_extd_leaf[1] = 32768 /\ AtLeast(processor.max_extd_leaf, leaf)

X86_VENDOR ==
    CASE processor.vendor = "GenuineIntel" -> "X86_VENDOR_INTEL"
      [] processor.vendor = "AuthenticAMD" -> "X86_VENDOR_AMD"
      [] OTHER -> "X86_VENDOR_UNKNOWN"

\* What a word has that is not set.
NoWord == <<>>

Or(value, default) == IF value = 0 THEN default ELSE value

CpuidInit ==
    /\ processor \in [vendor : Vendors, max_leaf : MaxLeaves, max_extd_leaf : MaxExtdLeaves,
                      signature : Signatures, sizes : Sizes]
    /\ x86 = [features |-> [w \in 0..(FSCAPINTS - 1) |-> NoWord], vendor |-> "X86_VENDOR_UNKNOWN",
              family |-> 0, model |-> 0, stepping |-> 0, maxphysaddr |-> 0, maxvirtaddr |-> 0]

collect_cpuid ==
    LET eax == processor.signature
        has1 == Present(Basic(1))
        addr == IF Present(Extended(8)) THEN processor.sizes ELSE [phys |-> 0, virt |-> 0]
        long == eax.family = 15 \/ (X86_VENDOR = "X86_VENDOR_INTEL" /\ eax.family = 6)
    IN  /\ x86' = [features |-> [w \in 0..(FSCAPINTS - 1) |->
                                    IF Present(cpuid_fn(w)[1]) THEN cpuid_fn(w) ELSE NoWord],
                   vendor |-> X86_VENDOR,
                   stepping |-> IF has1 THEN eax.stepping ELSE 0,
                   model |-> IF ~has1 THEN 0
                             ELSE eax.model + IF long THEN 16 * eax.extended_model ELSE 0,
                   family |-> IF ~has1 THEN 0
                              ELSE eax.family + IF eax.family = 15 THEN eax.extended_family ELSE 0,
                   maxphysaddr |-> Or(addr.phys, 36),
                   maxvirtaddr |-> Or(addr.virt, 32)]
        /\ UNCHANGED processor

-----------------------------------------------------------------------------
\* What CPUID is documented to return for each word of a featureset
\* (xen/arch-x86/cpufeatureset.h).
Documented ==
    [w \in 0..(FSCAPINTS - 1) |->
        CASE w = 0 -> <<Basic(1), 0, "edx">>
          [] w = 1 -> <<Basic(1), 0, "ecx">>
          [] w = 2 -> <<Extended(1), 0, "edx">>
          [] w = 3 -> <<Extended(1), 0, "ecx">>
          [] w = 4 -> <<Basic(13), 1, "eax">>
          [] w = 5 -> <<Basic(7), 0, "ebx">>
          [] w = 6 -> <<Basic(7), 0, "ecx">>
          [] w = 7 -> <<Extended(7), 0, "edx">>
          [] w = 8 -> <<Extended(8), 0, "ebx">>
          [] w = 9 -> <<Basic(7), 0, "edx">>]

\* A processor without extended leaves has something else in place of the
\* highest one.
Has(leaf) ==
    LET max == IF leaf[1] = 0 THEN processor.max_leaf ELSE processor.max_extd_leaf
    IN  max[1] = leaf[1] /\ max[2] >= leaf[2]

WordIsTheCpus(w) ==
    x86.features[w] = IF Has(Documented[w][1]) THEN Documented[w] ELSE NoWord
=============================================================================
