-------------------------- MODULE MCToolUseCompile --------------------------
(* A small instance of ToolUseCompile: one call and one handoff of each kind *)
(* the compiler tells apart.                                                 *)
EXTENDS ToolUseCompile

MCTenants == {"tA", "tB"}
MCCapabilities == {"read", "send", "handoff"}
MCEffects == {"fileRead", "emailSend", "delegate"}
MCCatalog == {<<"read", "fileRead">>, <<"send", "emailSend">>, <<"handoff", "delegate">>}
MCUris == {"data", "etc", "agent"}
MCResources == MCUris \X MCTenants
MCResourceTenant == [r \in MCResources |-> r[2]]
MCResourceAt == [p \in MCUris \X MCTenants |-> p]
MCScope == [c \in MCCapabilities |->
    CASE c = "read" -> {"data"} \X MCTenants
      [] c = "send" -> MCResources
      [] c = "handoff" -> {"agent"} \X MCTenants]
MCPrincipalIds == {"ann", "bob"}
MCAgentUri == [p \in MCPrincipalIds |-> "agent"]
MCAgentCapabilities == {"read", "handoff"}

MCPrincipals == Principal
MCActions == Action
MCEventIds == {"e1", "e2", "h1"}

MCToolMap == [t \in {"fs.read", "email.send"} |->
    IF t = "fs.read" THEN <<"read", "fileRead">> ELSE <<"send", "emailSend">>]
MCUnmappedTools == {"shell"}

Call(id, tool, uri, tenant, status) ==
    [id |-> id, tool |-> tool, uri |-> uri, tenant |-> tenant, status |-> status]

(* Fine; beyond the role; rejected under a reused id; of another tenant;     *)
(* outside the pattern; of an unknown tool.                                  *)
MCToolCalls ==
    {Call("e1", "fs.read", "data", "tA", "authorized"),
     Call("e2", "email.send", "data", "tA", "authorized"),
     Call("e1", "fs.read", "data", "tA", "rejected"),
     Call("e2", "fs.read", "data", "tB", "authorized"),
     Call("e2", "fs.read", "etc", "tA", "policy_missing"),
     Call("e2", "shell", "data", "tA", "unknown")}

Ann == [id |-> "ann", tenant |-> "tA", capabilities |-> {"read", "handoff"}]
Bob == [id |-> "bob", tenant |-> "tB", capabilities |-> {"send"}]

Give(from, to, caps, first, effect) ==
    [id |-> "h1", fromPrincipal |-> from, toPrincipal |-> to,
     delegatedCapabilities |-> caps, first |-> first, firstEffect |-> effect]

(* Across tenants, the handoff capability first; another capability first,   *)
(* whose pattern no agent URI matches; more than the source holds; one whose *)
(* pattern matches anything.                                                 *)
MCHandoffs ==
    {Give(Ann, Bob, {"read", "handoff"}, "handoff", "delegate"),
     Give(Ann, Bob, {"read", "handoff"}, "read", "fileRead"),
     Give(Bob, Ann, {"send", "handoff"}, "handoff", "delegate"),
     Give(Bob, Ann, {"send"}, "send", "emailSend")}

=============================================================================
