CONSTANTS
    a1 = a1
    a2 = a2
    b1 = b1
    Tenants <- MCTenants
    Capabilities <- MCCapabilities
    Effects <- MCEffects
    Resources <- MCResources
    ResourceTenant <- MCResourceTenant
    Catalog <- MCCatalog
    KnownEffects <- MCKnownEffects
    PrincipalIds <- MCPrincipalIds
    Principals <- MCPrincipals
    Actions <- MCActions
    Handoffs <- MCHandoffs
    MaxEvents = 3
    MaxHandoffs = 2

SPECIFICATION Spec

INVARIANT TypeOK
INVARIANT FrameValid
INVARIANT RefusedExactly
INVARIANT AuthorityHasSource
INVARIANT ChainBounded

PROPERTY TenantIsFixed

CHECK_DEADLOCK FALSE
