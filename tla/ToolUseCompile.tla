--------------------------- MODULE ToolUseCompile ---------------------------
(***************************************************************************)
(* compile_tool_use_trace_to_pfcore_trace of                               *)
(* python/pcs_core/pf_core_runtime.py: the tool calls of an agent, one     *)
(* after the other, then the handoffs it made, become the events of one    *)
(* trace; the first call or handoff that cannot be compiled refuses the    *)
(* whole.  What the result is worth is judged by TraceFile (validation)    *)
(* and PFDeciders (the Lean deciders).                                     *)
(***************************************************************************)
EXTENDS TraceFile

CONSTANTS
    ToolMap,            \* [tool names of the catalog -> <<capability, effect>>]
    UnmappedTools,      \* tool names the catalog does not know
    Uris,               \* resource URIs
    ResourceAt,         \* [Uris \X Tenants -> Resources]
    AgentUri,           \* [PrincipalIds -> Uris]: the URI of a handoff's target
    AgentId,            \* agent_id of the source
    AgentCapabilities,  \* what the role `agent` expands to
    ToolCalls,          \* calls found in a source
    Handoffs,           \* handoffs found in a source
    MaxCalls,           \* bound: tool calls of the source
    MaxHandoffs         \* bound: handoffs of the source

Statuses == {"authorized", "rejected", "unknown", "policy_missing"}

ToolCall == [id: EventIds, tool: DOMAIN ToolMap \cup UnmappedTools, uri: Uris,
             tenant: Tenants, status: Statuses]

(* The compiler looks at the first of the delegated capabilities. *)
ToolUseHandoff ==
    [id: EventIds, fromPrincipal: Principals, toPrincipal: Principals,
     delegatedCapabilities: SUBSET Capabilities,
     first: Capabilities, firstEffect: Effects]

ASSUME ToolUseAssumption ==
    /\ Principals = Principal /\ Actions = Action
    /\ ToolMap \in [DOMAIN ToolMap -> Capabilities \X Effects]
    /\ ResourceAt \in [Uris \X Tenants -> Resources]
    /\ \A u \in Uris, t \in Tenants : ResourceTenant[ResourceAt[<<u, t>>]] = t
    /\ AgentUri \in [PrincipalIds -> Uris]
    /\ AgentId \in PrincipalIds
    /\ AgentCapabilities \subseteq Capabilities
    /\ ToolCalls \subseteq ToolCall
    /\ Handoffs \subseteq ToolUseHandoff
    /\ \A h \in Handoffs : h.first \in h.delegatedCapabilities
    /\ MaxCalls \in Nat \ {0} /\ MaxHandoffs \in Nat

VARIABLES
    calls,     \* tool_calls of the source
    handoffs,  \* handoffs of the source
    contents,  \* events compiled so far
    outcome

vars == <<calls, handoffs, contents, outcome>>

Init ==
    /\ \E n \in 1..MaxCalls : calls \in [1..n -> ToolCalls]
    /\ \E n \in 0..MaxHandoffs : handoffs \in [1..n -> Handoffs]
    /\ contents = <<>>
    /\ outcome = "running"

Refuse == outcome' = "refused" /\ UNCHANGED <<calls, handoffs, contents>>

Record(id, sequence, principal, action, decision) ==
    /\ contents' = Append(contents,
          [id |-> id, sequence |-> sequence, principal |-> principal,
           action |-> action, pattern |-> Scope[action.capability], decision |-> decision])
    /\ UNCHANGED <<calls, handoffs, outcome>>

Touching(capability, effect, uri, tenant) ==
    [capability |-> capability, capabilityEffect |-> effect, effects |-> {effect},
     reads |-> {ResourceAt[<<uri, tenant>>]}, writes |-> {}]

-----------------------------------------------------------------------------
(* Tool calls. *)

(* The tenant of the first call is the tenant of all. *)
Tenant == calls[1].tenant

(* Fault: the name of the role is not expanded. *)
AgentUnexpanded == [id |-> AgentId, tenant |-> Tenant, capabilities |-> {AgentId}]

Agent == [id |-> AgentId, tenant |-> Tenant, capabilities |-> AgentCapabilities]

ToolAction(c) == Touching(ToolMap[c.tool][1], ToolMap[c.tool][2], c.uri, Tenant)

Compilable(c) == c.tool \in DOMAIN ToolMap /\ WellFormed(ToolAction(c))

(* Fault: what the policy authorized is allowed, whatever the role holds. *)
AuthorizedDecision(c) == IF c.status = "authorized" THEN "allow" ELSE "deny"

(* AUTHORIZATION_TO_DECISION, and the authority of the agent's role. *)
CallDecision(c) ==
    IF c.status = "authorized" /\ HasCapability(Agent, ToolMap[c.tool][1])
                               /\ ActionWithinTenant(Agent, ToolAction(c))
    THEN "allow" ELSE "deny"

CallsLeft == outcome = "running" /\ Len(contents) < Len(calls)

NextCall == calls[Len(contents) + 1]

CompileCall ==
    /\ CallsLeft
    /\ Compilable(NextCall)
    /\ Record(NextCall.id, Len(contents), Agent, ToolAction(NextCall), CallDecision(NextCall))

RefuseCall == CallsLeft /\ ~Compilable(NextCall) /\ Refuse

-----------------------------------------------------------------------------
(* Handoffs. *)

Offset == Len(contents) - Len(calls)

HandoffsLeft == outcome = "running" /\ Offset >= 0 /\ Offset < Len(handoffs)

NextHandoff == handoffs[Offset + 1]

(* The source's authority is compared by capability id; tenants are not. *)
HandoffAuthority(h) == h.delegatedCapabilities \subseteq h.fromPrincipal.capabilities

HandoffAction(h) ==
    Touching(h.first, h.firstEffect, AgentUri[h.toPrincipal.id], h.fromPrincipal.tenant)

(* Fault: the handoffs are counted from one. *)
HandoffNumberFromOne == Len(contents) + Offset + 1

(* The number of events grows with every handoff, and the offset is added to it. *)
HandoffNumber == Len(contents) + Offset

CompileHandoff ==
    /\ HandoffsLeft
    /\ HandoffAuthority(NextHandoff)
    /\ WellFormed(HandoffAction(NextHandoff))
    /\ Record(NextHandoff.id, HandoffNumber, NextHandoff.fromPrincipal,
              HandoffAction(NextHandoff), "allow")

RefuseHandoff ==
    /\ HandoffsLeft
    /\ ~(HandoffAuthority(NextHandoff) /\ WellFormed(HandoffAction(NextHandoff)))
    /\ Refuse

-----------------------------------------------------------------------------
(* The ids of denied calls must be among the ids of denied events. *)
DenialsKept ==
    \A i \in 1..Len(calls) :
        calls[i].status # "authorized" =>
            \E j \in 1..Len(contents) : contents[j].decision = "deny" /\ contents[j].id = calls[i].id

Done == outcome = "running" /\ Offset = Len(handoffs)

Finish ==
    /\ Done
    /\ outcome' = IF DenialsKept THEN "compiled" ELSE "refused"
    /\ UNCHANGED <<calls, handoffs, contents>>

Next == CompileCall \/ RefuseCall \/ CompileHandoff \/ RefuseHandoff \/ Finish

Spec == Init /\ [][Next]_vars

-----------------------------------------------------------------------------
(* Properties. *)

(* Shapes of the source and of the events. *)
TypeOK ==
    /\ calls \in Seq(ToolCalls) /\ calls # <<>>
    /\ handoffs \in Seq(Handoffs)
    /\ contents \in Seq(Content)
    /\ Len(contents) <= Len(calls) + Len(handoffs)
    /\ outcome \in {"running", "compiled", "refused"}

(* Whatever calls and handoffs an agent made, the compiled trace is         *)
(* TraceSafe, every denied call is a denied event in its place, and no      *)
(* handoff gave what its source did not hold.                               *)
CompiledIsSafe ==
    outcome = "compiled" =>
        /\ TraceSafe(contents)
        /\ \A i \in 1..Len(calls) :
              /\ contents[i].id = calls[i].id
              /\ calls[i].status # "authorized" => contents[i].decision = "deny"
        /\ \A i \in 1..Len(handoffs) : HandoffAuthority(handoffs[i])

(* Validation accepts what was compiled exactly when there is at most one   *)
(* handoff: from the second on, the sequence numbers have gaps.             *)
AcceptedExactly ==
    outcome = "compiled" => (Accepted(SealedFile(contents)) <=> Len(handoffs) <= 1)

(* python/tests/test_pf_core_stage3.py validates what the compiler returns, *)
(* and docs/pf-core/current-gap-audit.md lists "Handoff preservation in     *)
(* trace compiler" as done: what the compiler returns is a valid trace.     *)
CompiledIsAccepted == outcome = "compiled" => Accepted(SealedFile(contents))

=============================================================================
