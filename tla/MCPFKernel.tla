----------------------------- MODULE MCPFKernel -----------------------------
(* A small instance of PFKernel: two tenants, two catalog capabilities and  *)
(* one effect outside the catalog.                                          *)
EXTENDS PFKernel

CONSTANTS a1, a2, b1

MCTenants == {"tA", "tB"}
MCCapabilities == {"read", "write", "send"}
MCEffects == {"fileRead", "fileWrite", "unlisted"}
MCKnownEffects == {"fileRead", "fileWrite"}
MCCatalog == {<<"read", "fileRead">>, <<"write", "fileWrite">>}
MCResources == {a1, a2, b1}
MCResourceTenant == [r \in MCResources |-> IF r = b1 THEN "tB" ELSE "tA"]
MCPrincipalIds == {"ann", "bob", "eve"}

Ann == [id |-> "ann", tenant |-> "tA", capabilities |-> {"read", "write"}]
Bob == [id |-> "bob", tenant |-> "tA", capabilities |-> {"read"}]
Eve == [id |-> "eve", tenant |-> "tB", capabilities |-> {"read", "send"}]

MCPrincipals == {Ann, Bob, Eve}

Read(r) == [capability |-> "read", capabilityEffect |-> "fileRead",
            effects |-> {"fileRead"}, reads |-> {r}, writes |-> {}]
Write(r, s) == [capability |-> "write", capabilityEffect |-> "fileWrite",
                effects |-> {"fileWrite", "fileRead"}, reads |-> {r}, writes |-> {s}]

(* The second action carries an effect the catalog does not know, the third *)
(* embeds an effect of another capability.                                  *)
MCActions ==
    {Read(a1), Read(b1), Write(a1, a2),
     [Read(a1) EXCEPT !.effects = {"fileRead", "unlisted"}],
     [Read(a1) EXCEPT !.capabilityEffect = "fileWrite", !.effects = {"fileWrite"}]}

Give(p, q, cs) == [fromPrincipal |-> p, toPrincipal |-> q, delegatedCapabilities |-> cs]

(* Safe: a narrowing chain Ann -> Bob -> Ann, a hop inside the other tenant. *)
(* Unsafe: Bob gives what he does not hold, Ann gives across tenants.        *)
MCHandoffs ==
    {Give(Ann, Bob, {"read", "write"}), Give(Bob, Ann, {"read"}), Give(Eve, Eve, {"read"}),
     Give(Bob, Bob, {"write"}), Give(Ann, Eve, {"write"})}

=============================================================================
