SPECIFICATION MCSpec
CONSTANTS
    Builds = {"hvm32", "hvm32pse", "hvm32pae", "hvm64", "pv32pae", "pv64"}
    Size <- MCSize
    mfn_list <- MCmfn_list
    SpecialPages <- MCSpecialPages
    Vendors = {"GenuineIntel", "AuthenticAMD", "another"}
    MaxLeaves <- MCMaxLeaves
    MaxExtdLeaves <- MCMaxExtdLeaves
    Signatures <- MCSignatures
    Sizes <- MCSizes
    Addrs = {1, 2, 3, 4, 10, 11}
    MaxEntries = 6
    Beyond = {0}
    Vary = {"builds", "processors", "tables", "selftest"}
INVARIANTS
    LookupIsRight
    ExceptionsAreDelivered
    AddressesMeanThemselves
    SharedWithXen
    HypercallsArrive
    FeaturesAreTheCpus
PROPERTIES
    Settles
