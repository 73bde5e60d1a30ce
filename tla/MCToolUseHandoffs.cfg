CONSTANTS
    Tenants <- MCTenants
    Capabilities <- MCCapabilities
    Effects <- MCEffects
    KnownEffects <- MCEffects
    Catalog <- MCCatalog
    Resources <- MCResources
    ResourceTenant <- MCResourceTenant
    PrincipalIds <- MCPrincipalIds
    Principals <- MCPrincipals
    Actions <- MCActions
    EventIds <- MCEventIds
    Scope <- MCScope
    ToolMap <- MCToolMap
    UnmappedTools <- MCUnmappedTools
    Uris <- MCUris
    ResourceAt <- MCResourceAt
    AgentUri <- MCAgentUri
    AgentId = "ann"
    AgentCapabilities <- MCAgentCapabilities
    ToolCalls <- MCToolCalls
    Handoffs <- MCHandoffs
    MaxCalls = 2
    MaxHandoffs = 3

SPECIFICATION Spec

INVARIANT CompiledIsAccepted

CHECK_DEADLOCK FALSE
