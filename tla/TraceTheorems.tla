--------------------------- MODULE TraceTheorems ---------------------------
(***************************************************************************)
(* The Lean module that `pcs pf-core lean-check' generates for a trace:    *)
(* which theorems it states, in which certificate mode, and whether Lean   *)
(* can prove them.  Translated from generate_proof_obligation_file and     *)
(* what it calls (python/pcs_core/pf_core_lean_codegen.py), with the       *)
(* simulation of python/pcs_core/pf_core_resolved_evidence.py that comes   *)
(* before; what the theorems say is that of lean/PFCore.                   *)
(*                                                                         *)
(* A theorem is [name, holds]: its name, <<kind>> or <<kind, identifier>>, *)
(* and whether the statement is true, so that its proof closes.  A trace   *)
(* is its events' contents.                                                *)
(***************************************************************************)
EXTENDS TraceObligations, Contracts

CONSTANTS
    HandoffIds,    \* handoff_id values
    LeanIdent,     \* [ids of events, handoffs, traces, contracts -> identifiers]: other
                   \* characters become `_', and those at the ends go
    ContractRefs,  \* [EventIds -> ids of contracts such an event names]
    Roles,         \* [PrincipalIds -> roles]
    Supports       \* evidence resolved beside a trace

(* Handoffs as [id, handoff], contracts by their id, effects of the frame  *)
(* ({}: there is none; an empty one is refused as if there were none).      *)
ASSUME TheoremAssumption ==
    /\ EventIds \cup HandoffIds \subseteq DOMAIN LeanIdent
    /\ EventIds \subseteq DOMAIN ContractRefs /\ PrincipalIds \subseteq DOMAIN Roles
    /\ \A s \in Supports :
          /\ DOMAIN s = {"handoffs", "contracts", "frame"}
          /\ \A h \in s.handoffs : h.id \in HandoffIds /\ h.handoff \in Handoff
          /\ DOMAIN s.contracts \subseteq DOMAIN LeanIdent
          /\ s.frame \subseteq Effects

Base == "TraceSafeCertificate"
Scoped == "TraceSafeRCertificate"
Framed == "FramePreservedCertificate"
EffectFramed == "EffectFrameCertificate"
HandedOff == "HandoffSafeCertificate"
Composed == "CompositionalExtensionCertificate"
Contracted == "ContractCheckedCertificate"

Modes == {Base, Scoped, Framed, EffectFramed, HandedOff, Composed, Contracted}

T(name, holds) == [name |-> name, holds |-> holds]

All(theorems) == \A t \in theorems : t.holds

Names(theorems) == {t.name : t \in theorems}

Ident(c) == LeanIdent[c.id]

(* event_to_lean: what becomes of an event in Lean.  Its number, its hashes *)
(* and the pattern of its capability are not taken along.                   *)
LeanEvent(c) ==
    [id |-> c.id, principal |-> c.principal, action |-> c.action, decision |-> c.decision]

LeanTrace(cs) == [i \in 1..Len(cs) |-> LeanEvent(cs[i])]

Allowed(cs) == {i \in 1..Len(cs) : cs[i].decision = "allow"}

-----------------------------------------------------------------------------
(* In every mode. *)

EventTheorems(tr) == {T(<<"concrete_event_safe", Ident(tr[i])>>, EventSafe(tr[i])) : i \in 1..Len(tr)}

TrustBoundary == {<<"concrete_tenant_isolation_prop">>, <<"concrete_trace_cross_tenant_safe_prop">>,
                  <<"concrete_non_interference_prop">>}

BaseNames == {<<"concrete_trace_safe">>, <<"concrete_trace_safe_prop">>,
              <<"concrete_allowed_events_allowed">>}

(* The trace is safe, decided, and what soundness makes of it. *)
TraceTheorems(tr) == {T(name, TraceSafe(tr)) : name \in BaseNames \cup TrustBoundary}

HandoffSafe(h) ==
    /\ h.delegatedCapabilities \subseteq h.fromPrincipal.capabilities
    /\ h.fromPrincipal.tenant = h.toPrincipal.tenant

HandoffTheorems(s) ==
    {T(<<"concrete_handoff_safe", LeanIdent[h.id]>>, HandoffSafe(h.handoff)) : h \in s.handoffs}

-----------------------------------------------------------------------------
(* Contracts. *)

(* The event as a contract sees it, with the capabilities it is held to.    *)
AsEvent(c, capabilities) ==
    [refs |-> ContractRefs[c.id],
     principal |-> [tenant |-> c.principal.tenant, roles |-> Roles[c.principal.id],
                    caps |-> capabilities],
     cap |-> c.action.capability, effects |-> c.action.effects,
     tenants |-> {ResourceTenant[r] : r \in Footprint(c.action)},
     evidence |-> {}, decision |-> c.decision]

(* validate_contracts_before_codegen: each event, by the contracts it names. *)
ContractsHold(cs, s) ==
    LET ids == DOMAIN s.contracts IN
    ids # {} => \A i \in 1..Len(cs) : \A id \in ContractRefs[cs[i].id] :
        /\ id \in ids
        /\ ContractIssues(AsEvent(cs[i], Expanded[cs[i].principal].capabilities), s.contracts[id]) = {}

(* satisfiesContractSpecD: Python's event safety is not Lean's. *)
LeanMeets(c, r) ==
    IF r.kind = "event_safe" THEN EventSafe(c) ELSE Meets(AsEvent(c, c.principal.capabilities), r)

PreKinds == {"tenant", "capability", "effect", "role"}
PostKinds == {"decision", "event_safe"}

Satisfies(c, contract, kinds) ==
    \A r \in LeanPart(contract) : r.kind \in kinds => LeanMeets(c, r)

(* traceSatisfiesContractSpecsD asks it of EVERY event, and the invariant.  *)
TraceSatisfies(tr, contract) ==
    /\ \A i \in 1..Len(tr) : Satisfies(tr[i], contract, PreKinds \cup PostKinds)
    /\ (\E r \in LeanPart(contract) : r.kind = "trace_safe") => TraceSafe(tr)

Named(cs, s) ==
    {n \in (1..Len(cs)) \X DOMAIN s.contracts : n[2] \in ContractRefs[cs[n[1]].id]}

(* What is asked of an event that names a contract: all of it, and apart    *)
(* from each other the fields before and after, where there are any.        *)
Questions(contract) ==
    {q \in {<<"concrete_satisfies", PreKinds \cup PostKinds>>,
            <<"concrete_contract_pre", PreKinds>>, <<"concrete_contract_post", PostKinds>>} :
        q[1] = "concrete_satisfies" \/ \E r \in LeanPart(contract) : r.kind \in q[2]}

(* generate_contract_proof_obligations *)
ContractTheorems(tr, s) ==
    {T(<<"concrete_trace_satisfies", n[2]>>, TraceSatisfies(tr, s.contracts[n[2]])) :
        n \in Named(tr, s)}
    \cup UNION {{T(<<q[1], n[2], Ident(tr[n[1]])>>, Satisfies(tr[n[1]], s.contracts[n[2]], q[2])) :
                    q \in Questions(s.contracts[n[2]])} : n \in Named(tr, s)}

-----------------------------------------------------------------------------
(* The operational state: initialState, stepState, frameValidD. *)

InitialState(p) == [tenant |-> p.tenant, activePrincipal |-> p, resourceFrame |-> {},
                    capabilityFrame |-> p.capabilities]

(* The post-state that is written into the module, step or no step. *)
PostState(s, c) ==
    IF c.decision = "deny" THEN s
    ELSE [tenant |-> c.principal.tenant, activePrincipal |-> c.principal,
          resourceFrame |-> s.resourceFrame \cup Footprint(c.action),
          capabilityFrame |-> c.principal.capabilities]

States(tr) ==
    LET state[i \in 0..Len(tr)] ==
            IF i = 0 THEN InitialState(tr[1].principal) ELSE PostState(state[i - 1], tr[i])
    IN  state

FrameValid(s) ==
    /\ s.tenant = s.activePrincipal.tenant
    /\ \A r \in s.resourceFrame : ResourceTenant[r] = s.tenant
    /\ s.capabilityFrame \subseteq s.activePrincipal.capabilities

StepApplies(s, c) ==
    c.decision = "allow" => ActionAllowed(c.principal, c.action) /\ s.tenant = c.principal.tenant

(* Fault: the tenant of the state is not compared. *)
SimulatesAnyTenant(cs) == cs # <<>> /\ \A i \in 1..Len(cs) : EventSafeD(cs[i])

(* simulate_frame_preserved_transitions, with Python's deciders. *)
Simulates(cs) ==
    /\ cs # <<>>
    /\ \A i \in 1..Len(cs) :
          cs[i].decision = "allow" =>
              /\ ActionAdmissibleD(cs[i].principal, cs[i].action)
              /\ States(cs)[i - 1].tenant = cs[i].principal.tenant

Updates == {"resource_frame_update", "active_principal_update", "tenant_update",
            "capability_frame_update"}

Transition(kind, s, c) ==
    CASE kind = "step_state_applies" -> StepApplies(s, c)
      [] kind = "deny_identity" -> PostState(s, c) = s
      [] kind = "resource_frame_update" ->
            PostState(s, c).resourceFrame = s.resourceFrame \cup Footprint(c.action)
      [] kind = "active_principal_update" -> PostState(s, c).activePrincipal = c.principal
      [] kind = "tenant_update" -> PostState(s, c).tenant = c.principal.tenant
      [] kind = "capability_frame_update" ->
            PostState(s, c).capabilityFrame = c.principal.capabilities
      [] kind = "frame_valid_after" -> FrameValid(PostState(s, c))

TransitionKinds(c) ==
    {"step_state_applies", "frame_valid_after"}
    \cup (IF c.decision = "deny" THEN {"deny_identity"} ELSE Updates)

TransitionTheorems(tr) ==
    {T(<<"frame_valid_initial">>, FrameValid(States(tr)[0]))}
    \cup UNION {{T(<<kind, Ident(tr[i])>>, Transition(kind, States(tr)[i - 1], tr[i])) :
                    kind \in TransitionKinds(tr[i])} : i \in 1..Len(tr)}

(* The extension by one event needs the prefix to be safe, the event to be  *)
(* safe and to have a step, and both states to be valid.                    *)
CompositionTheorems(tr) ==
    LET Extends(i) == TraceSafe(SubSeq(tr, 1, i))
        Kinds == {"compositional_step_applies", "compositional_frame_valid_after",
                  "concrete_compositional_extension"}
        Holds(kind, i) ==
            CASE kind = "compositional_step_applies" -> StepApplies(States(tr)[i - 1], tr[i])
              [] kind = "compositional_frame_valid_after" -> FrameValid(States(tr)[i])
              [] OTHER -> Extends(i)
    IN  {T(<<"compositional_frame_valid_initial">>, FrameValid(States(tr)[0]))}
        \cup {T(<<k, Ident(tr[i])>>, Holds(k, i)) : k \in Kinds, i \in 1..Len(tr)}

-----------------------------------------------------------------------------
(* Effects and scopes. *)

EffectFrameTheorems(tr, s) ==
    {T(<<"concrete_action_effects_in_frame", Ident(tr[i])>>, tr[i].action.effects \subseteq s.frame) :
        i \in 1..Len(tr)}

(* actionResourcesWithinCapabilityPatternD: the catalog's pattern. *)
WithinCatalogPattern(c) == Footprint(c.action) \subseteq Scope[c.action.capability]

TraceSafeR(tr) ==
    TraceSafe(tr) /\ \A i \in Allowed(tr) : WithinCatalogPattern(tr[i])

ScopedNames == {<<"concrete_trace_safe_r">>, <<"concrete_trace_safe_r_prop">>,
                <<"concrete_trace_safe_r_implies_trace_safe">>}

ScopeTheorems(tr) ==
    {T(name, TraceSafeR(tr)) : name \in ScopedNames}
    \cup {T(<<"concrete_action_resource_scope", Ident(tr[i])>>, WithinCatalogPattern(tr[i])) :
            i \in Allowed(tr)}

-----------------------------------------------------------------------------
(* The module. *)

(* generate_mode_proof_theorems: what the mode adds, and under which name   *)
(* the whole of it is put together.                                        *)
ModeTheorems(mode, tr, s) ==
    CASE mode = Scoped       -> ScopeTheorems(tr)
      [] mode = Framed       -> TransitionTheorems(tr)
      [] mode = EffectFramed -> EffectFrameTheorems(tr, s)
      [] mode = HandedOff    -> HandoffTheorems(s)
      [] mode = Composed     -> CompositionTheorems(tr) \cup HandoffTheorems(s) \cup ContractTheorems(tr, s)
      [] mode = Contracted   -> ContractTheorems(tr, s)
      [] OTHER               -> {}

Aggregate(mode) ==
    CASE mode = Framed       -> {<<"frame_preserved_steps">>}
      [] mode = EffectFramed -> {<<"concrete_action_effects_in_frame">>}
      [] mode = HandedOff    -> {<<"concrete_handoff_safe">>}
      [] mode = Composed     -> {<<"concrete_compositional_extension">>}
      [] mode = Contracted   -> {<<"concrete_contract_checked">>}
      [] OTHER               -> {}

(* The selected predicate of the mode: the last theorem of every module. *)
Witness(tr, proper) ==
    T(<<"concrete_certificate_mode_witness">>, TraceSafe(tr) /\ All(proper))

(* generate_proof_obligation_file *)
GeneratedTheorems(mode, cs, s) ==
    LET tr == LeanTrace(cs)
        proper == ModeTheorems(mode, tr, s)
    IN  EventTheorems(tr) \cup TraceTheorems(tr) \cup HandoffTheorems(s)
        \cup ContractTheorems(tr, s) \cup proper
        \cup {T(name, All(proper)) : name \in Aggregate(mode)}
        \cup {Witness(tr, proper)}

(* certificate_mode_obligations: the names a mode's module must hold. *)
RequiredTheorems(mode, cs) ==
    BaseNames \cup Aggregate(mode) \cup {<<"concrete_certificate_mode_witness">>}
    \cup (IF mode = Scoped
          THEN ScopedNames \cup {<<"concrete_action_resource_scope", Ident(cs[i])>> : i \in Allowed(cs)}
          ELSE {})
    \cup (IF mode = Composed THEN {<<"compositional_frame_valid_initial">>} ELSE {})
    \cup (IF mode = Framed
          THEN {<<"frame_valid_initial">>}
               \cup UNION {{<<kind, Ident(cs[i])>> : kind \in TransitionKinds(cs[i])} : i \in 1..Len(cs)}
          ELSE {})

(* verify_certificate_mode_prerequisites, and what resolution asks of the  *)
(* effect frame.                                                           *)
Prerequisites(mode, cs, s) ==
    CASE mode = HandedOff         -> s.handoffs # {}
      [] mode = Contracted        -> DOMAIN s.contracts # {} /\ ContractTheorems(cs, s) # {}
      [] mode \in {Framed, Composed} -> Simulates(cs)
      [] mode = EffectFramed      -> cs # <<>> /\ s.frame # {} /\ \A i \in 1..Len(cs) :
                                         cs[i].action.effects \subseteq s.frame
      [] mode = Scoped            -> cs # <<>> /\ \A i \in Allowed(cs) : InPattern(cs[i])
      [] OTHER                    -> cs # <<>>

(* Definitions are named by identifier: those of the events, the handoffs   *)
(* and the trace alike, those of a contract with a suffix (Pre, Post, Inv). *)
(* Left out: an id that ends in a suffix of another one's definitions.      *)
DistinctNames(trace, cs, s) ==
    /\ \A i, j \in 1..Len(cs) : i # j => Ident(cs[i]) # Ident(cs[j])
    /\ \A g, h \in s.handoffs : g # h => LeanIdent[g.id] # LeanIdent[h.id]
    /\ \A i \in 1..Len(cs), h \in s.handoffs : Ident(cs[i]) # LeanIdent[h.id]
    /\ \A i \in 1..Len(cs) : LeanIdent[trace] # Ident(cs[i])
    /\ \A h \in s.handoffs : LeanIdent[trace] # LeanIdent[h.id]
    /\ \A n, m \in Named(cs, s) : n[2] # m[2] => LeanIdent[n[2]] # LeanIdent[m[2]]

(* Lean accepts the module: no name is defined twice, every proof closes.   *)
LeanAccepts(trace, cs, s, theorems) == DistinctNames(trace, cs, s) /\ All(theorems)

=============================================================================
