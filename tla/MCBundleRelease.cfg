CONSTANTS
    h1 = h1
    h = h
    c = c
    cap1 = cap1
    cap2 = cap2
    ka = ka
    kb = kb
    good = good
    NoFile = NoFile
    NoPin = NoPin
    NoProvision = NoProvision
    NoRef = NoRef
    NoClass = NoClass
    Garbled = Garbled
    NoSelection = NoSelection
    NoId = NoId
    NoFrame = NoFrame
    Embedded = Embedded
    NoClaim = NoClaim
    Mixed = Mixed
    IdOrder <- MCIdOrder
    Catalog <- MCCatalog
    Traces <- MCTraces
    Hashes = {h1}
    Directories <- MCDirectories
    Kernels = {ka, kb}
    Starts <- MCStarts
    Damageable = {"trace", "certificate", "projection", "attestation"}
    Spoilt = {Garbled}
    Mode = "TraceSafeRCertificate"
    Environments <- MCEnvironments
    Refs <- MCRefs
    Site <- MCSite
    MaxChecks = 2
    MaxBundles = 2
    MaxEdits = 1
SPECIFICATION Spec
INVARIANTS TypeOK HonestBundleVerifies AttestedAsReleased BindingIsCurrent PublishedMeetsContracts
PROPERTIES PromiseKept
CHECK_DEADLOCK FALSE
