CONSTANTS
    a1 = a1
    b1 = b1
    o1 = o1
    Absent = Absent
    Tenants <- MCTenants
    Capabilities <- MCCapabilities
    Effects <- MCEffects
    Resources <- MCResources
    ResourceTenant <- MCResourceTenant
    Catalog <- MCCatalog
    KnownEffects <- MCKnownEffects
    PrincipalIds <- MCPrincipalIds
    Principals <- MCPrincipals
    Actions <- MCActions
    EventIds <- MCEventIds
    Scope <- MCScope
    Expanded <- MCExpanded
    HandoffIds <- MCHandoffIds
    LeanIdent <- MCLeanIdent
    ContractRefs <- MCContractRefs
    Roles <- MCRoles
    Supports <- MCSupports
    TraceIds <- MCTraceIds
    Attempts <- MCAttempts
    MaxObserved = 3
    MaxDelivered = 2
    MaxEdits = 2

SPECIFICATION Spec

INVARIANT TypeOK
INVARIANT AcceptedIsStretch
INVARIANT WholeIsAccepted
INVARIANT DenialsSurvive
INVARIANT AcceptedIsProvable
INVARIANT ReplayAgrees
INVARIANT LastHashSealsAll

CHECK_DEADLOCK FALSE
