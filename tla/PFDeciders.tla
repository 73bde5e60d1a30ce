----------------------------- MODULE PFDeciders -----------------------------
(***************************************************************************)
(* Records of PF-Core and the predicates the Lean kernel decides on them:  *)
(* may this principal take this action, is this event safe, is this trace. *)
(* Translated from lean/PFCore (Capability, Action, Event, Trace, Handoff, *)
(* NonInterference), which python/pcs_core/lean_check.py mirrors.          *)
(*                                                                         *)
(* Lists the code only searches (capabilities, effects, reads, writes) are *)
(* sets here.                                                              *)
(***************************************************************************)
EXTENDS Naturals, Sequences

CONSTANTS
    Tenants,         \* tenant names
    Capabilities,    \* capability ids that may be written in a record
    Effects,         \* effect kinds that may be written in a record
    Resources,       \* resources; every one belongs to one tenant
    ResourceTenant,  \* [Resources -> Tenants]
    Catalog,         \* the closed catalog: set of <<capability, effect>>
    KnownEffects,    \* effect kinds of the closed catalog
    PrincipalIds,    \* names of principals
    Principals,      \* principal records found in recorded events
    Actions          \* action records found in recorded events

Principal == [id: PrincipalIds, tenant: Tenants, capabilities: SUBSET Capabilities]

Action == [capability: Capabilities, capabilityEffect: Effects, effects: SUBSET Effects,
           reads: SUBSET Resources, writes: SUBSET Resources]

Handoff == [fromPrincipal: Principal, toPrincipal: Principal,
            delegatedCapabilities: SUBSET Capabilities]

Event == [principal: Principals, action: Actions, decision: {"allow", "deny"}]

ASSUME DeciderAssumption ==
    /\ ResourceTenant \in [Resources -> Tenants]
    /\ Principals \subseteq Principal
    /\ Actions \subseteq Action

-----------------------------------------------------------------------------
(* Deciders on one action, one event, one trace. *)

HasCapability(p, c) == c \in p.capabilities

Footprint(a) == a.reads \cup a.writes

ActionWithinTenant(p, a) == \A r \in Footprint(a) : ResourceTenant[r] = p.tenant

ActionEffectsKnown(a) == a.effects \subseteq KnownEffects

CapabilityMatchesEffects(a) == a.capabilityEffect \in a.effects

KnownCapability(c) == \E e \in Effects : <<c, e>> \in Catalog

KnownCapabilityEffect(c, e) == <<c, e>> \in Catalog

ActionAllowed(p, a) ==
    /\ HasCapability(p, a.capability)
    /\ ActionWithinTenant(p, a)
    /\ ActionEffectsKnown(a)
    /\ CapabilityMatchesEffects(a)
    /\ KnownCapability(a.capability)
    /\ KnownCapabilityEffect(a.capability, a.capabilityEffect)

EventSafe(ev) == ev.decision = "allow" => ActionAllowed(ev.principal, ev.action)

TraceSafe(tr) == \A i \in 1..Len(tr) : EventSafe(tr[i])

(* An event is visible to the observer of a tenant when it is an allow     *)
(* event of a principal of that tenant.                                    *)
LowEvent(t, ev) == ev.decision = "allow" /\ ev.principal.tenant = t

(* Single-trace projection isolation of two tenants, as the decider states it. *)
NonInterferenceD(tr, low, high) ==
    low = high \/ \A i \in 1..Len(tr) :
        /\ tr[i].principal.tenant = high => ~LowEvent(low, tr[i])
        /\ LowEvent(low, tr[i]) => tr[i].principal.tenant = low

(* Every event stays in its principal's tenant or is denied. *)
TraceCrossTenantSafe(tr) ==
    \A i \in 1..Len(tr) :
        tr[i].decision = "deny" \/ ActionWithinTenant(tr[i].principal, tr[i].action)

=============================================================================
