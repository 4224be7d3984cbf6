SPECIFICATION MCSpec
CONSTANTS
    Builds = {"hvm64"}
    Size <- MCSize
    mfn_list <- MCmfn_list
    SpecialPages <- MCSpecialPages
    Vendors = {"GenuineIntel", "AuthenticAMD", "another"}
    MaxLeaves <- MCMaxLeaves
    MaxExtdLeaves <- MCMaxExtdLeaves
    Signatures <- MCSignatures
    Sizes <- MCSizes
    Addrs = {1, 2, 3}
    MaxEntries = 1
    Beyond = {0}
    Vary = {"processors"}
INVARIANTS
    XsaveFeaturesAreTheCpus
