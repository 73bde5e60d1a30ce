------------------------------ MODULE PFKernel ------------------------------
(***************************************************************************)
(* The operational kernel of PF-Core: how a recorded event moves the       *)
(* operational state (tenant, active principal, resource frame, capability *)
(* frame), and how a handoff moves it.  Translated from lean/PFCore        *)
(* (Transition, State, Handoff, Compositional) and from the Python mirror  *)
(* of stepState in python/pcs_core/pf_core_resolved_evidence.py, which     *)
(* folds a recorded trace and refuses it at the first allow event that has *)
(* no step.  The resource frame, whose insertion drops duplicates, is a    *)
(* set here.                                                               *)
(***************************************************************************)
EXTENDS PFDeciders

CONSTANTS
    Handoffs,        \* handoff records
    MaxEvents,       \* bound: length of the recorded trace
    MaxHandoffs      \* bound: handoffs applied

ASSUME KernelAssumption ==
    /\ Handoffs \subseteq Handoff
    /\ MaxEvents \in Nat
    /\ MaxHandoffs \in Nat

-----------------------------------------------------------------------------
(* Operational state. *)

VARIABLES
    tenant,           \* State.tenant
    activePrincipal,  \* State.activePrincipal
    resourceFrame,    \* State.resourceFrame
    capabilityFrame,  \* State.capabilityFrame
    trace,            \* events folded so far, oldest first
    refused,          \* the fold met an allow event whose stepState is none
    delegations       \* handoffs applied so far, oldest first

state == <<tenant, activePrincipal, resourceFrame, capabilityFrame>>
vars == <<tenant, activePrincipal, resourceFrame, capabilityFrame, trace, refused, delegations>>

(* The state is derived from the principal of the trace's first event. *)
InitialState(p) ==
    /\ tenant = p.tenant
    /\ activePrincipal = p
    /\ resourceFrame = {}
    /\ capabilityFrame = p.capabilities

Init ==
    /\ \E p \in Principals : InitialState(p)
    /\ trace = <<>>
    /\ refused = FALSE
    /\ delegations = <<>>

(* Fault: stepState without its tenant test. *)
AppliesAnyTenant(ev) == ActionAllowed(ev.principal, ev.action)

(* stepState returns a state for an allow event exactly when: *)
Applies(ev) ==
    /\ ActionAllowed(ev.principal, ev.action)
    /\ tenant = ev.principal.tenant

(* Fault: the lists are inserted instead of their members. *)
ExpandNested(frame, a) == frame \cup {a.reads, a.writes}

ExpandResourceFrame(frame, a) == frame \cup Footprint(a)

(* The next event of the trace; the first one gave the initial state. *)
Recordable(ev) ==
    /\ Len(trace) < MaxEvents
    /\ trace = <<>> => ev.principal = activePrincipal

(* An allow event with a step: the event's principal becomes active and    *)
(* the frame grows by the declared footprint.                              *)
StepAllow(ev) ==
    /\ ev.decision = "allow"
    /\ Recordable(ev)
    /\ Applies(ev)
    /\ tenant' = ev.principal.tenant
    /\ activePrincipal' = ev.principal
    /\ resourceFrame' = ExpandResourceFrame(resourceFrame, ev.action)
    /\ capabilityFrame' = ev.principal.capabilities
    /\ trace' = Append(trace, ev)
    /\ UNCHANGED <<refused, delegations>>

(* Fault: applyEvent's no-op goes unnoticed. *)
StepNoneSilent(ev) ==
    /\ ev.decision = "allow"
    /\ Recordable(ev)
    /\ ~Applies(ev)
    /\ trace' = Append(trace, ev)
    /\ UNCHANGED <<tenant, activePrincipal, resourceFrame, capabilityFrame, refused, delegations>>

(* An allow event without a step: applyEvent leaves the state as it is,    *)
(* and the fold of a frame-preserving certificate refuses the trace.       *)
StepNone(ev) ==
    /\ ev.decision = "allow"
    /\ Recordable(ev)
    /\ ~Applies(ev)
    /\ trace' = Append(trace, ev)
    /\ refused' = TRUE
    /\ UNCHANGED <<tenant, activePrincipal, resourceFrame, capabilityFrame, delegations>>

(* A deny event is the identity on the state. *)
StepDeny(ev) ==
    /\ ev.decision = "deny"
    /\ Recordable(ev)
    /\ trace' = Append(trace, ev)
    /\ UNCHANGED <<tenant, activePrincipal, resourceFrame, capabilityFrame, refused, delegations>>

(* Faults: only tenants are compared; only capabilities are compared. *)
HandoffSafeTenantOnly(h) == h.fromPrincipal.tenant = h.toPrincipal.tenant
HandoffSafeSubsetOnly(h) == h.delegatedCapabilities \subseteq h.fromPrincipal.capabilities

HandoffSafe(h) ==
    /\ h.delegatedCapabilities \subseteq h.fromPrincipal.capabilities
    /\ h.fromPrincipal.tenant = h.toPrincipal.tenant

MergedCapabilities(h) == h.delegatedCapabilities \cup h.toPrincipal.capabilities

(* A safe handoff makes the target active, in the state's tenant and with  *)
(* the delegated capabilities added to its own.                            *)
ApplyHandoff(h) ==
    /\ trace # <<>>
    /\ Len(delegations) < MaxHandoffs
    /\ HandoffSafe(h)
    /\ activePrincipal' = [h.toPrincipal EXCEPT !.tenant = tenant,
                                                !.capabilities = MergedCapabilities(h)]
    /\ capabilityFrame' = MergedCapabilities(h)
    /\ delegations' = Append(delegations, h)
    /\ UNCHANGED <<tenant, resourceFrame, trace, refused>>

Next ==
    \/ \E ev \in Event : StepAllow(ev) \/ StepNone(ev) \/ StepDeny(ev)
    \/ \E h \in Handoffs : ApplyHandoff(h)

Spec == Init /\ [][Next]_vars

-----------------------------------------------------------------------------
(* Properties. *)

(* Shapes of the state (State, Trace of Transition.lean and Trace.lean). *)
TypeOK ==
    /\ tenant \in Tenants
    /\ activePrincipal \in Principal
    /\ resourceFrame \in SUBSET Resources
    /\ capabilityFrame \in SUBSET Capabilities
    /\ trace \in Seq(Event)
    /\ refused \in BOOLEAN
    /\ delegations \in Seq(Handoffs)

(* FrameValid of Transition.lean: the active principal is of the state's   *)
(* tenant, every resource in the frame belongs to that tenant, and the     *)
(* capability frame holds nothing the active principal does not hold.      *)
(* Over steps, skipped events and handoffs in any order.                   *)
FrameValid ==
    /\ tenant = activePrincipal.tenant
    /\ \A r \in resourceFrame : ResourceTenant[r] = tenant
    /\ capabilityFrame \subseteq activePrincipal.capabilities

(* Refusing a trace at its first allow event without a step is the same as *)
(* judging the whole trace at once: the fold refuses exactly the traces    *)
(* that are not TraceSafe or that hold an allow event of another tenant    *)
(* than the first event's, whatever handoffs happened in between.          *)
RefusedExactly ==
    ~refused <=> /\ TraceSafe(trace)
                 /\ \A i \in 1..Len(trace) :
                        trace[i].decision = "allow" =>
                            trace[i].principal.tenant = trace[1].principal.tenant

(* The allow events that moved the state. *)
AppliedEvents ==
    {i \in 1..Len(trace) : /\ trace[i].decision = "allow"
                           /\ EventSafe(trace[i])
                           /\ trace[i].principal.tenant = trace[1].principal.tenant}

(* The resource frame is the union of the footprints of the events that    *)
(* took effect: nothing is lost by a deny, a skipped event or a handoff,   *)
(* and no resource appears that no applied event declared.                 *)
FootprintExact ==
    resourceFrame = UNION {Footprint(trace[i].action) : i \in AppliedEvents}

(* Those whose records the run has used so far. *)
Opener == IF trace = <<>> THEN activePrincipal ELSE trace[1].principal
Delegates(I) == {delegations[i].fromPrincipal : i \in I} \cup {delegations[i].toPrincipal : i \in I}
Foreign == {i \in 1..Len(delegations) : delegations[i].fromPrincipal.tenant # tenant}
Participants ==
    {Opener} \cup {trace[i].principal : i \in AppliedEvents} \cup Delegates(1..Len(delegations))

(* Authority has a source: each capability in the frame is held by a       *)
(* participant (handoff_applies_does_not_expand_authority of State.lean,   *)
(* over a whole run), and the participant is of the state's tenant unless  *)
(* a handoff between two principals of another tenant was applied, which   *)
(* HandoffApplies re-homes into the state's tenant.                        *)
AuthorityHasSource ==
    \A c \in capabilityFrame : \E p \in Participants :
        HasCapability(p, c) /\ (p.tenant = tenant \/ p \in Delegates(Foreign))

(* Two handoffs chain, and the second stays in the envelope of the first. *)
NarrowingChain(ds) ==
    \A i \in 1..(Len(ds) - 1) :
        /\ ds[i].toPrincipal = ds[i + 1].fromPrincipal
        /\ ds[i + 1].delegatedCapabilities \subseteq ds[i].delegatedCapabilities

(* A chain of handoffs of any length that narrows at every hop delegates   *)
(* only what its first source held (handoff_composition_global of          *)
(* Compositional.lean, which stops at three hops), and all its principals  *)
(* are of one tenant.                                                      *)
ChainBounded ==
    NarrowingChain(delegations) =>
        \A i \in 1..Len(delegations) :
            /\ delegations[i].delegatedCapabilities
                   \subseteq delegations[1].fromPrincipal.capabilities
            /\ delegations[i].toPrincipal.tenant = delegations[1].fromPrincipal.tenant

(* No step moves the state to another tenant, and none forgets a resource. *)
TenantIsFixed == [][tenant' = tenant /\ resourceFrame \subseteq resourceFrame']_vars

=============================================================================
