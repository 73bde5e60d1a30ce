----------------------------- MODULE Contracts -----------------------------
(***************************************************************************)
(* PFCoreContract.v0: what a contract asks of an event, which of it Python *)
(* checks before code generation and which of it Lean is given to prove.   *)
(* Translated from python/pcs_core/pf_core_contract.py and the contract    *)
(* part of pf_core_lean_codegen.py.                                        *)
(*                                                                         *)
(* A contract is a set of requirements [kind, value, layer]: the fields of *)
(* pre, post and invariant that are set.  The layer of a field is "lean",  *)
(* "runtime" or "out_of_scope".  An event is [sequence, refs, principal,   *)
(* cap, effects, tenants, evidence, decision]; the principal has a tenant, *)
(* roles and capabilities, roles already expanded; `tenants` are those of  *)
(* the resources the action reads and writes.                              *)
(***************************************************************************)
EXTENDS Sequences, FiniteSets

RequirementKinds == {"tenant", "capability", "effect", "role", "policy", "evidence",
                     "decision", "event_safe", "trace_safe"}
Layers == {"lean", "runtime", "out_of_scope"}

EventsIn(trace) == {trace.events[i] : i \in DOMAIN trace.events}

TenantMatches(event) == event.tenants \subseteq {event.principal.tenant}

EventIsSafe(event) ==
    event.decision = "allow" => event.cap \in event.principal.caps /\ TenantMatches(event)

Meets(event, r) ==
    CASE r.kind = "tenant"     -> TenantMatches(event)
      [] r.kind = "capability" -> r.value \in event.principal.caps
      [] r.kind = "effect"     -> r.value \in event.effects
      [] r.kind = "role"       -> r.value \in event.principal.roles
      [] r.kind = "policy"     -> r.value \in event.refs
      [] r.kind = "evidence"   -> r.value \in event.evidence
      [] r.kind = "decision"   -> r.value = event.decision
      [] r.kind = "event_safe" -> EventIsSafe(event)
      [] OTHER                 -> TRUE          \* the trace's: nothing asked of an event

\* Fault: only what Lean will be asked is looked at.
FaultContractIssues(event, contract) ==
    {r \in contract : r.layer = "lean" /\ ~Meets(event, r)}

\* validate_event_against_contract: everything that is in scope.
ContractIssues(event, contract) ==
    {r \in contract : r.layer # "out_of_scope" /\ ~Meets(event, r)}

(* validate_contracts_before_codegen: `contracts` are those the evidence     *)
(* resolved to.  With none at all nothing is checked, references or not;     *)
(* with some, every reference must be one of them.                           *)
TraceContractIssues(trace, contracts) ==
    LET known == {contracts[i].id : i \in DOMAIN contracts}
        body(id) == (CHOOSE k \in {contracts[i] : i \in DOMAIN contracts} : k.id = id).body
    IN  IF known = {} THEN {}
        ELSE UNION {{<<e.sequence, id>> : id \in {x \in e.refs :
                        x \notin known \/ ContractIssues(e, body(x)) # {}}} : e \in EventsIn(trace)}

\* What the generated specification of a contract holds of it.
LeanKinds == {"capability", "effect", "tenant", "role", "decision", "event_safe", "trace_safe"}
LeanPart(contract) == {r \in contract : r.layer = "lean" /\ r.kind \in LeanKinds}
=============================================================================
