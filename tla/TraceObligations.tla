-------------------------- MODULE TraceObligations --------------------------
(***************************************************************************)
(* What Python says of a trace before Lean sees it: the mirrors of the     *)
(* Lean deciders, the obligations they fill in, the issues that stop a     *)
(* `lean-check`, and the checks of `validate-trace` with its options.      *)
(* Translated from python/pcs_core/lean_check.py, pf_core_runtime.py and   *)
(* cli.py.                                                                 *)
(***************************************************************************)
EXTENDS TraceFile

CONSTANTS
    Expanded  \* [Principals -> the record with what its roles give written out]

ASSUME ExpandedAssumption ==
    /\ Expanded \in [Principals -> Principals]
    /\ \A p \in Principals :
          /\ Expanded[p].id = p.id /\ Expanded[p].tenant = p.tenant
          /\ p.capabilities \subseteq Expanded[p].capabilities
          /\ Expanded[Expanded[p]] = Expanded[p]

(* principal_capabilities_explicit *)
Explicit(p) == p.capabilities = Expanded[p].capabilities

-----------------------------------------------------------------------------
(* The deciders of lean_check.py. *)

ActionAdmissibleD(p, a) ==
    /\ InCatalog(a) /\ CapabilityMatchesEffects(a)
    /\ HasCapability(p, a.capability) /\ ActionWithinTenant(p, a)

EventSafeD(c) == c.decision = "allow" => ActionAdmissibleD(c.principal, c.action)

(* The scope is that of the pattern in the event, where Lean's decider has  *)
(* the catalog's.                                                          *)
EventSafeRD(c) == EventSafeD(c) /\ (c.decision = "allow" => InPattern(c))

TenantIsolationD(cs) ==
    \A i \in 1..Len(cs) :
        cs[i].decision = "allow" => ActionWithinTenant(cs[i].principal, cs[i].action)

TenantsOf(cs) == {cs[i].principal.tenant : i \in 1..Len(cs)}

Obligation(kind, ref, passed) == [kind |-> kind, ref |-> ref, passed |-> passed]

(* build_decider_obligations *)
DeciderObligations(cs) ==
    LET events == 1..Len(cs) IN
    {Obligation("TraceSafeDeciderSound", <<>>, \A i \in events : EventSafeD(cs[i])),
     Obligation("TraceSafeRDeciderSound", <<>>, \A i \in events : EventSafeRD(cs[i])),
     Obligation("TenantIsolationD", <<>>, TenantIsolationD(cs)),
     Obligation("TraceCrossTenantSafeD", <<>>, TraceCrossTenantSafe(cs))}
    \cup {Obligation("NonInterferenceD", <<low, high>>, NonInterferenceD(cs, low, high)) :
            low \in TenantsOf(cs), high \in TenantsOf(cs)}
    \cup {Obligation("EventSafeDeciderSound", <<i>>, EventSafeD(cs[i])) : i \in events}
    \cup {Obligation("ActionResourcesWithinCapabilityPattern", <<i>>, InPattern(cs[i])) :
            i \in {j \in events : cs[j].decision = "allow"}}

-----------------------------------------------------------------------------
(* validate_pfcore_trace_hash_chain, with the scopes it looks at last. *)
ChainValid(f) ==
    HashesValid(f) /\ \A i \in 1..Len(f.events) : InPattern(f.events[i].content)

(* check_pfcore_trace_lean_semantics *)
SemanticIssues(f) ==
    LET cs == Contents(f) IN
    {issue \in {"HashChainInvalid", "EventSequence", "PrincipalCapabilityMismatch",
                "EventUnsafe", "TraceUnsafe"} :
        \/ issue = "HashChainInvalid" /\ ~ChainValid(f)
        \/ issue = "EventSequence" /\ ~SequenceOrder(f)
        \/ /\ issue = "PrincipalCapabilityMismatch"
           /\ \E i \in 1..Len(cs) : ~Explicit(cs[i].principal)
        \/ issue \in {"EventUnsafe", "TraceUnsafe"} /\ \E i \in 1..Len(cs) : ~EventSafeD(cs[i])}

-----------------------------------------------------------------------------
(* `validate-trace' and its options. *)

(* validate_tenant_isolation: every event, a denied one too. *)
TenantIsolated(cs) ==
    \A i \in 1..Len(cs) : ActionWithinTenant(cs[i].principal, cs[i].action)

(* validate_cross_tenant_safety *)
CrossTenantSafe(cs) ==
    \A i \in 1..Len(cs) :
        cs[i].decision = "deny" \/ ActionWithinTenant(cs[i].principal, cs[i].action)

(* trace_projection_for_tenant: what one tenant may see.                     *)
Projection(cs, t) == {c \in {cs[i] : i \in 1..Len(cs)} : LowEvent(t, c)}

(* validate_observational_non_interference of all pairs: what is projected  *)
(* is visible, and no event of another tenant is.                          *)
PairsIsolated(cs) ==
    \A low, high \in TenantsOf(cs) :
        low # high =>
            /\ \A c \in Projection(cs, low) : LowEvent(low, c)
            /\ \A i \in 1..Len(cs) : cs[i].principal.tenant = high => ~LowEvent(low, cs[i])

Flags == {"tenant_isolation", "cross_tenant_safety", "non_interference"}

(* cmd_pf_core_validate_trace *)
ValidateTrace(f, flags) ==
    /\ ChainValid(f) /\ SequenceOrder(f)
    /\ "tenant_isolation" \in flags => TenantIsolated(Contents(f))
    /\ "cross_tenant_safety" \in flags => CrossTenantSafe(Contents(f))
    /\ "non_interference" \in flags => PairsIsolated(Contents(f))

=============================================================================
