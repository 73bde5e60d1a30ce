------------------------- MODULE MCObservationBatch -------------------------
(* A small instance of ObservationBatch: two runtimes, one of which writes   *)
(* another trace, and one attempt of each kind the compiler tells apart; a   *)
(* handoff and two contracts beside the trace.                               *)
EXTENDS ObservationBatch, ResourcePattern

CONSTANTS a1, b1, o1

MCTenants == {"tA", "tB"}
MCCapabilities == {"read"}
MCEffects == {"fileRead", "fileWrite", "unlisted"}
MCKnownEffects == {"fileRead", "fileWrite"}
MCCatalog == {<<"read", "fileRead">>}
MCResources == {a1, b1, o1}
MCResourceTenant == [r \in MCResources |-> IF r = b1 THEN "tB" ELSE "tA"]

(* URIs by their characters: `d' is the directory that the pattern names.    *)
Uri == [r \in MCResources |-> CASE r = a1 -> <<"d", "x">> [] r = b1 -> <<"d", "x", "y">>
                                [] r = o1 -> <<"x", "d">>]
PatternOf == [c \in MCCapabilities |-> <<"d", "*">>]
MCScope == [c \in MCCapabilities |-> {r \in MCResources : ResourceMatches(PatternOf[c], Uri[r])}]

Words(chars, n) == UNION {[1..k -> chars] : k \in 0..n}
ASSUME FuelSuffices ==
    \A p \in Words({"*", "d", "x"}, 3), u \in Words({"d", "x"}, 3) : GlobMatch(p, u) <=> IsMatch(p, u)

MCPrincipalIds == {"ann", "bob"}
Ann == [id |-> "ann", tenant |-> "tA", capabilities |-> {"read"}]
AnnByRole == [Ann EXCEPT !.capabilities = {}]
Bob == [Ann EXCEPT !.id = "bob", !.tenant = "tB"]
Eve == [Bob EXCEPT !.capabilities = {}]
MCPrincipals == {Ann, AnnByRole, Bob, Eve}
MCExpanded == [p \in MCPrincipals |-> IF p = AnnByRole THEN Ann ELSE p]
MCRoles == [p \in MCPrincipalIds |-> IF p = "ann" THEN {"reader"} ELSE {}]

Read(r) == [capability |-> "read", capabilityEffect |-> "fileRead",
            effects |-> {"fileRead"}, reads |-> {r}, writes |-> {}]
ReadAsWrite == [Read(a1) EXCEPT !.effects = {"fileWrite"}]
ReadUnlisted == [Read(a1) EXCEPT !.effects = {"fileRead", "unlisted"}]
MCActions == {Read(a1), Read(b1), Read(o1), ReadAsWrite, ReadUnlisted}

MCEventIds == {"e1", "e2"}
MCHandoffIds == {"h1", "e1.", "t1."}
MCTraceIds == {"t1", "e1."}
MCContracts == {"c1", "c2", "c2."}
MCLeanIdent ==
    [x \in MCEventIds \cup MCHandoffIds \cup MCTraceIds \cup MCContracts |->
        CASE x = "e1." -> "e1" [] x = "t1." -> "t1" [] x = "c2." -> "c2" [] OTHER -> x]

Tried(t, e, p, a, d) ==
    [trace |-> t, id |-> e, principal |-> p, action |-> a, pattern |-> Footprint(a), decision |-> d]

(* In order: in tenant; out of it; with an effect of another capability; by  *)
(* one of the other tenant; by one who may not; denied under the same id;    *)
(* malformed; of the other trace.                                            *)
MCAttempts ==
    {Tried("t1", "e1", AnnByRole, Read(a1), "allow"), Tried("t1", "e2", Ann, Read(b1), "allow"),
     Tried("t1", "e2", Ann, ReadAsWrite, "allow"), Tried("t1", "e2", Bob, Read(b1), "allow"),
     Tried("t1", "e2", Eve, Read(b1), "allow"), Tried("t1", "e1", Ann, Read(a1), "deny"),
     Tried("t1", "e2", Ann, ReadUnlisted, "deny"), Tried("e1.", "e1", Ann, Read(a1), "allow")}

(* Events e1 name a contract on capability, role and decision, events e2 one *)
(* on effects and safety; a handoff within the tenant, one out of it.        *)
(* Some handoffs, a trace and a contract have the identifier of another id.  *)
MCContractRefs == [e \in MCEventIds |-> IF e = "e1" THEN {"c1"} ELSE {"c2", "c2."}]
Asks(kind, value) == [kind |-> kind, value |-> value, layer |-> "lean"]
C1 == {Asks("capability", "read"), Asks("role", "reader")}
C2 == {Asks("effect", "fileRead"), Asks("event_safe", "yes"), Asks("trace_safe", "yes"),
       [kind |-> "tenant", value |-> "yes", layer |-> "runtime"]}
Delegation(to) == [fromPrincipal |-> Ann, toPrincipal |-> to, delegatedCapabilities |-> {"read"}]
H(id, to) == [id |-> id, handoff |-> Delegation(to)]
Both == [c \in {"c1", "c2"} |-> IF c = "c1" THEN C1 ELSE C2]
MCSupports ==
    {[handoffs |-> {}, contracts |-> [c \in {} |-> {}], frame |-> {"fileRead"}],
     [handoffs |-> {H("h1", Ann)}, contracts |-> Both, frame |-> {"fileRead", "fileWrite"}],
     [handoffs |-> {H("h1", Bob)}, contracts |-> [c \in {"c2"} |-> C2], frame |-> {}],
     [handoffs |-> {H("e1.", Ann)}, contracts |-> [c \in {} |-> {}], frame |-> {}],
     [handoffs |-> {H("t1.", Ann)}, contracts |-> [c \in {} |-> {}], frame |-> {}],
     [handoffs |-> {}, contracts |-> [c \in {"c2", "c2."} |-> C2], frame |-> {}]}

=============================================================================
