CONSTANTS
    cert = cert
    s1 = s1
    s2 = s2
    k1 = k1
    k2 = k2
    good = good
    bad = bad
    b1 = b1
    b2 = b2
    NoFile = NoFile
    NoPin = NoPin
    NoProvision = NoProvision
    NoRef = NoRef
    NoClass = NoClass
    NoTime = NoTime
    NoTarget = NoTarget
    NoEnvelope = NoEnvelope
    Garbled = Garbled
    NoRegistry = NoRegistry
    NoStatus = NoStatus
    Shared = Shared
    Named = Named
    Stem <- MCStem
    Fixture = Fixture
    MaxAge = 1
    Skew = 0
    Files <- MCFiles
    TypeOf <- MCTypeOf
    Versioned <- MCVersioned
    Bodies <- MCBodies
    KeyOffers <- MCKeyOffers
    Holders <- MCHolders
    Pins <- MCPins
    Fetched = {good, bad}
    ModeTable <- MCModeTable
    SeenFlaws = {}
    Ahead = {0}
    RevokeTimes = {0, 1}
    MaxTime = 2
    MaxKeys = 2
    MaxMade = 1
    MaxEdits = 1
SPECIFICATION Spec
INVARIANTS TypeOK ReleasedIsAuthentic HonestReleasePasses AcceptedCheckerIsPinned
PROPERTIES KeptUntilCause RevocationStands
SYMMETRY MCSymmetry
CHECK_DEADLOCK FALSE
