------------------------ MODULE ToolUseCompileProofs ------------------------
(***************************************************************************)
(* Machine-checked properties of the tool-use compiler, for any catalog,   *)
(* tools, sources and bounds.                                              *)
(***************************************************************************)
EXTENDS ToolUseCompile, SequenceTheorems, TLAPS

(* A compiled call stands in its place and is no more than its status. *)
CallsStand ==
    \A i \in 1..Len(contents) : i <= Len(calls) =>
        /\ contents[i].id = calls[i].id
        /\ calls[i].status # "authorized" => contents[i].decision = "deny"

(* A compiled handoff had its authority. *)
HandoffsStand ==
    \A i \in 1..Len(handoffs) : i <= Offset => HandoffAuthority(handoffs[i])

(* CompiledIsSafe says something of the end only; on the way to it, what   *)
(* has been compiled so far is as safe, and the end comes after the last.  *)
IInv ==
    /\ TypeOK
    /\ TraceSafe(contents)
    /\ CallsStand
    /\ HandoffsStand
    /\ outcome = "compiled" => Offset = Len(handoffs)

-----------------------------------------------------------------------------
(* Appending to a sequence keeps what is there and adds one element. *)
LEMMA AppendFacts ==
    ASSUME NEW S, NEW s \in Seq(S), NEW e \in S
    PROVE  /\ Append(s, e) \in Seq(S)
           /\ Len(Append(s, e)) = Len(s) + 1
           /\ \A i \in 1..Len(s) : Append(s, e)[i] = s[i]
           /\ Append(s, e)[Len(s) + 1] = e
  OBVIOUS

LEMMA InitIInv == Init => IInv
  <1> SUFFICES ASSUME Init PROVE IInv
    OBVIOUS
  <1>1. PICK n \in 1..MaxCalls : calls \in [1..n -> ToolCalls]
    BY DEF Init
  <1>2. PICK m \in 0..MaxHandoffs : handoffs \in [1..m -> Handoffs]
    BY DEF Init
  <1>3. calls \in Seq(ToolCalls) /\ Len(calls) = n /\ calls # <<>>
    BY <1>1, ToolUseAssumption
  <1>4. handoffs \in Seq(Handoffs) /\ Len(handoffs) = m
    BY <1>2, ToolUseAssumption
  <1>5. contents = <<>> /\ Len(contents) = 0 /\ contents \in Seq(Content) /\ outcome = "running"
    BY DEF Init
  <1>6. TypeOK
    BY <1>3, <1>4, <1>5 DEF TypeOK
  <1>7. TraceSafe(contents) /\ CallsStand /\ HandoffsStand
    BY <1>3, <1>5 DEF TraceSafe, CallsStand, HandoffsStand, Offset
  <1> QED BY <1>5, <1>6, <1>7 DEF IInv

-----------------------------------------------------------------------------
(* The shapes of what is recorded. *)

LEMMA TouchingShape ==
    ASSUME NEW c \in Capabilities, NEW e \in Effects, NEW u \in Uris, NEW t \in Tenants
    PROVE  /\ Touching(c, e, u, t) \in Action
           /\ \A r \in Footprint(Touching(c, e, u, t)) : ResourceTenant[r] = t
  <1>1. <<u, t>> \in Uris \X Tenants
    OBVIOUS
  <1>2. ResourceAt[<<u, t>>] \in Resources /\ ResourceTenant[ResourceAt[<<u, t>>]] = t
    BY <1>1, ToolUseAssumption
  <1> QED BY <1>2 DEF Touching, Action, Footprint

(* A well-formed action on one resource that its principal may take is allowed. *)
LEMMA TouchingAllowed ==
    ASSUME NEW c \in Capabilities, NEW e \in Effects, NEW u \in Uris, NEW t \in Tenants,
           NEW p \in Principal, p.tenant = t, c \in p.capabilities,
           WellFormed(Touching(c, e, u, t))
    PROVE  ActionAllowed(p, Touching(c, e, u, t))
  <1> DEFINE a == Touching(c, e, u, t)
  <1>1. a.capability = c /\ a.capabilityEffect = e /\ a.effects = {e}
    BY DEF Touching
  <1>2. HasCapability(p, a.capability) /\ CapabilityMatchesEffects(a)
    BY <1>1 DEF HasCapability, CapabilityMatchesEffects
  <1>3. ActionWithinTenant(p, a)
    BY TouchingShape DEF ActionWithinTenant
  <1>4. /\ KnownCapabilityEffect(a.capability, a.capabilityEffect)
        /\ ActionEffectsKnown(a)
        /\ KnownCapability(a.capability)
    BY <1>1 DEF WellFormed, InCatalog, KnownCapabilityEffect, KnownCapability
  <1> QED BY <1>2, <1>3, <1>4 DEF ActionAllowed

LEMMA NextCallShape ==
    ASSUME TypeOK, CallsLeft
    PROVE  /\ Len(contents) + 1 \in 1..Len(calls)
           /\ NextCall \in ToolCall
           /\ NextCall \in ToolCalls
           /\ Tenant \in Tenants
           /\ Agent \in Principal
  <1>1. /\ Len(contents) + 1 \in 1..Len(calls)
        /\ 1 \in 1..Len(calls)
    BY DEF TypeOK, CallsLeft
  <1>2. calls[1] \in ToolCalls /\ NextCall \in ToolCalls
    BY <1>1 DEF TypeOK, NextCall
  <1>3. Tenant \in Tenants
    BY <1>2, ToolUseAssumption DEF ToolCall, Tenant
  <1> QED BY <1>1, <1>2, <1>3, ToolUseAssumption DEF Agent, Principal

LEMMA NextHandoffShape ==
    ASSUME TypeOK, HandoffsLeft
    PROVE  /\ Offset + 1 \in 1..Len(handoffs)
           /\ NextHandoff \in ToolUseHandoff
           /\ NextHandoff \in Handoffs
           /\ NextHandoff.first \in NextHandoff.delegatedCapabilities
           /\ HandoffNumber \in Nat
           /\ Len(contents) >= Len(calls)
  <1>1. /\ Offset + 1 \in 1..Len(handoffs)
        /\ HandoffNumber \in Nat
        /\ Len(contents) >= Len(calls)
    BY DEF TypeOK, HandoffsLeft, Offset, HandoffNumber
  <1>2. NextHandoff \in Handoffs
    BY <1>1 DEF TypeOK, NextHandoff
  <1> QED BY <1>1, <1>2, ToolUseAssumption

-----------------------------------------------------------------------------
(* The steps. *)

LEMMA CompileCallIInv == IInv /\ CompileCall => IInv'
  <1> SUFFICES ASSUME IInv, CompileCall PROVE IInv'
    OBVIOUS
  <1> DEFINE c == NextCall
             e == [id |-> c.id, sequence |-> Len(contents), principal |-> Agent,
                   action |-> ToolAction(c), pattern |-> Scope[ToolAction(c).capability],
                   decision |-> CallDecision(c)]
  <1>1. /\ contents' = Append(contents, e)
        /\ UNCHANGED <<calls, handoffs, outcome>>
        /\ Compilable(c) /\ CallsLeft /\ outcome = "running"
    BY DEF CompileCall, Record, CallsLeft
  <1>2. TypeOK
    BY DEF IInv
  <1>3. /\ Len(contents) + 1 \in 1..Len(calls)
        /\ c \in ToolCall /\ Tenant \in Tenants /\ Agent \in Principal
    BY <1>1, <1>2, NextCallShape
  <1>4. ToolMap[c.tool] \in Capabilities \X Effects
    BY <1>1, ToolUseAssumption DEF Compilable
  <1>5. ToolMap[c.tool][1] \in Capabilities /\ ToolMap[c.tool][2] \in Effects /\ c.uri \in Uris
    BY <1>3, <1>4 DEF ToolCall
  <1>6. e \in Content
    <2>1. ToolAction(c) \in Action
      BY <1>3, <1>5, TouchingShape DEF ToolAction
    <2>2. CallDecision(c) \in {"allow", "deny"}
      BY DEF CallDecision
    <2>3. Len(contents) \in Nat
      BY <1>2 DEF TypeOK
    <2>4. c.id \in EventIds
      BY <1>3 DEF ToolCall
    <2>5. Scope[ToolAction(c).capability] \in SUBSET Resources
      BY <2>1, ScopeAssumption DEF Action
    <2> QED BY <1>3, <2>1, <2>2, <2>3, <2>4, <2>5, ToolUseAssumption DEF Content, Numbers
  <1>7. /\ contents \in Seq(Content)
        /\ contents' \in Seq(Content)
        /\ Len(contents') = Len(contents) + 1
        /\ \A i \in 1..Len(contents) : contents'[i] = contents[i]
        /\ contents'[Len(contents) + 1] = e
    BY <1>1, <1>2, <1>6, AppendFacts DEF TypeOK
  <1>8. EventSafe(e)
    <2> SUFFICES ASSUME e.decision = "allow" PROVE ActionAllowed(Agent, ToolAction(c))
      BY DEF EventSafe
    <2>1. HasCapability(Agent, ToolMap[c.tool][1])
      BY DEF CallDecision
    <2>2. ToolMap[c.tool][1] \in Agent.capabilities /\ Agent.tenant = Tenant
      BY <2>1 DEF HasCapability, Agent
    <2>3. WellFormed(Touching(ToolMap[c.tool][1], ToolMap[c.tool][2], c.uri, Tenant))
      BY <1>1 DEF Compilable, ToolAction
    <2> QED BY <1>3, <1>5, <2>2, <2>3, TouchingAllowed DEF ToolAction
  <1>9. TypeOK'
    BY <1>1, <1>2, <1>3, <1>7 DEF TypeOK
  <1>10. TraceSafe(contents)'
    <2> SUFFICES ASSUME NEW i \in 1..(Len(contents) + 1) PROVE EventSafe(contents'[i])
      BY <1>7 DEF TraceSafe
    <2>1. CASE i \in 1..Len(contents)
      BY <1>7, <2>1 DEF IInv, TraceSafe
    <2>2. CASE i = Len(contents) + 1
      BY <1>7, <1>8, <2>2
    <2> QED BY <1>7, <2>1, <2>2
  <1>11. CallsStand'
    <2> SUFFICES ASSUME NEW i \in 1..(Len(contents) + 1), i <= Len(calls)
                 PROVE  /\ contents'[i].id = calls[i].id
                        /\ calls[i].status # "authorized" => contents'[i].decision = "deny"
      BY <1>1, <1>7 DEF CallsStand
    <2>1. CASE i \in 1..Len(contents)
      BY <1>7, <2>1 DEF IInv, CallsStand
    <2>2. CASE i = Len(contents) + 1
      BY <1>7, <2>2 DEF NextCall, CallDecision
    <2> QED BY <1>7, <2>1, <2>2
  <1>12. HandoffsStand'
    BY <1>1, <1>2, <1>3, <1>7 DEF HandoffsStand, Offset, TypeOK
  <1> QED BY <1>1, <1>9, <1>10, <1>11, <1>12 DEF IInv

LEMMA CompileHandoffIInv == IInv /\ CompileHandoff => IInv'
  <1> SUFFICES ASSUME IInv, CompileHandoff PROVE IInv'
    OBVIOUS
  <1> DEFINE h == NextHandoff
             e == [id |-> h.id, sequence |-> HandoffNumber, principal |-> h.fromPrincipal,
                   action |-> HandoffAction(h), pattern |-> Scope[HandoffAction(h).capability],
                   decision |-> "allow"]
  <1>1. /\ contents' = Append(contents, e)
        /\ UNCHANGED <<calls, handoffs, outcome>>
        /\ HandoffAuthority(h) /\ WellFormed(HandoffAction(h))
        /\ HandoffsLeft /\ outcome = "running"
    BY DEF CompileHandoff, Record, HandoffsLeft
  <1>2. TypeOK
    BY DEF IInv
  <1>3. /\ Offset + 1 \in 1..Len(handoffs)
        /\ h \in ToolUseHandoff
        /\ h.first \in h.delegatedCapabilities
        /\ HandoffNumber \in Nat
        /\ Len(contents) >= Len(calls)
    BY <1>1, <1>2, NextHandoffShape
  <1>4. /\ h.first \in Capabilities /\ h.firstEffect \in Effects
        /\ h.id \in EventIds
        /\ h.fromPrincipal \in Principal /\ h.toPrincipal \in Principal
    BY <1>3, ToolUseAssumption DEF ToolUseHandoff
  <1>5. h.fromPrincipal.tenant \in Tenants /\ AgentUri[h.toPrincipal.id] \in Uris
    BY <1>4, ToolUseAssumption DEF Principal
  <1>6. e \in Content
    <2>1. HandoffAction(h) \in Action
      BY <1>4, <1>5, TouchingShape DEF HandoffAction
    <2>2. Scope[HandoffAction(h).capability] \in SUBSET Resources
      BY <2>1, ScopeAssumption DEF Action
    <2> QED BY <1>3, <1>4, <2>1, <2>2, ToolUseAssumption DEF Content, Numbers
  <1>7. /\ contents \in Seq(Content)
        /\ contents' \in Seq(Content)
        /\ Len(contents') = Len(contents) + 1
        /\ \A i \in 1..Len(contents) : contents'[i] = contents[i]
        /\ contents'[Len(contents) + 1] = e
    BY <1>1, <1>2, <1>6, AppendFacts DEF TypeOK
  <1>8. EventSafe(e)
    <2>1. h.first \in h.fromPrincipal.capabilities
      BY <1>1, <1>3 DEF HandoffAuthority
    <2>2. WellFormed(Touching(h.first, h.firstEffect, AgentUri[h.toPrincipal.id],
                              h.fromPrincipal.tenant))
      BY <1>1 DEF HandoffAction
    <2>3. ActionAllowed(h.fromPrincipal, HandoffAction(h))
      BY <1>4, <1>5, <2>1, <2>2, TouchingAllowed DEF HandoffAction
    <2> QED BY <2>3 DEF EventSafe
  <1>9. TypeOK'
    BY <1>1, <1>2, <1>3, <1>7 DEF TypeOK, Offset
  <1>10. TraceSafe(contents)'
    <2> SUFFICES ASSUME NEW i \in 1..(Len(contents) + 1) PROVE EventSafe(contents'[i])
      BY <1>7 DEF TraceSafe
    <2>1. CASE i \in 1..Len(contents)
      BY <1>7, <2>1 DEF IInv, TraceSafe
    <2>2. CASE i = Len(contents) + 1
      BY <1>7, <1>8, <2>2
    <2> QED BY <1>7, <2>1, <2>2
  <1>11. CallsStand'
    <2> SUFFICES ASSUME NEW i \in 1..(Len(contents) + 1), i <= Len(calls)
                 PROVE  /\ contents'[i].id = calls[i].id
                        /\ calls[i].status # "authorized" => contents'[i].decision = "deny"
      BY <1>1, <1>7 DEF CallsStand
    <2>1. i \in 1..Len(contents)
      BY <1>2, <1>3 DEF TypeOK
    <2> QED BY <1>7, <2>1 DEF IInv, CallsStand
  <1>12. HandoffsStand'
    <2> SUFFICES ASSUME NEW i \in 1..Len(handoffs), i <= Offset + 1
                 PROVE  HandoffAuthority(handoffs[i])
      BY <1>1, <1>2, <1>7 DEF HandoffsStand, Offset, TypeOK
    <2>1. CASE i <= Offset
      BY <2>1 DEF IInv, HandoffsStand
    <2>2. CASE i = Offset + 1
      BY <1>1, <2>2 DEF NextHandoff
    <2> QED BY <1>2, <2>1, <2>2 DEF TypeOK, Offset
  <1> QED BY <1>1, <1>9, <1>10, <1>11, <1>12 DEF IInv

LEMMA InvariantKept == IInv /\ [Next]_vars => IInv'
  <1> SUFFICES ASSUME IInv, [Next]_vars PROVE IInv'
    OBVIOUS
  <1>1. CASE CompileCall
    BY <1>1, CompileCallIInv
  <1>2. CASE CompileHandoff
    BY <1>2, CompileHandoffIInv
  <1> USE DEF IInv, TypeOK, TraceSafe, CallsStand, HandoffsStand, Offset, Refuse
  <1>3. CASE RefuseCall
    BY <1>3 DEF RefuseCall
  <1>4. CASE RefuseHandoff
    BY <1>4 DEF RefuseHandoff
  <1>5. CASE Finish
    BY <1>5 DEF Finish, Done
  <1>6. CASE UNCHANGED vars
    BY <1>6 DEF vars
  <1> QED BY <1>1, <1>2, <1>3, <1>4, <1>5, <1>6 DEF Next

LEMMA Inductive == Spec => []IInv
  BY InitIInv, InvariantKept, PTL DEF Spec

-----------------------------------------------------------------------------
(* Sources, events and outcomes keep their shapes. *)
THEOREM TypeCorrect == Spec => []TypeOK
  <1>1. IInv => TypeOK
    BY DEF IInv
  <1> QED BY <1>1, Inductive, PTL

(* Whatever an agent called and handed on, a compiled trace is TraceSafe,   *)
(* keeps every denial in its place and hands on no more than was held.      *)
THEOREM CompiledSafe == Spec => []CompiledIsSafe
  <1>1. IInv => CompiledIsSafe
    <2> SUFFICES ASSUME IInv, outcome = "compiled" PROVE
          /\ TraceSafe(contents)
          /\ \A i \in 1..Len(calls) :
                /\ contents[i].id = calls[i].id
                /\ calls[i].status # "authorized" => contents[i].decision = "deny"
          /\ \A i \in 1..Len(handoffs) : HandoffAuthority(handoffs[i])
      BY DEF CompiledIsSafe
    <2>1. Len(contents) = Len(calls) + Len(handoffs) /\ Offset = Len(handoffs)
      BY DEF IInv, TypeOK, Offset
    <2>2. \A i \in 1..Len(calls) : i \in 1..Len(contents) /\ i <= Len(calls)
      BY <2>1 DEF IInv, TypeOK
    <2>3. \A i \in 1..Len(handoffs) : i <= Offset
      BY <2>1 DEF IInv, TypeOK
    <2> QED BY <2>2, <2>3 DEF IInv, CallsStand, HandoffsStand
  <1> QED BY <1>1, Inductive, PTL

-----------------------------------------------------------------------------
(* What validation makes of the compiled trace. *)

(* Validation finds nothing wrong with the action of this event. *)
ActionValid(c) == InCatalog(c.action) /\ CapabilityMatchesEffects(c.action) /\ InPattern(c)

(* Calls are numbered from zero; a handoff counts twice from the second on. *)
NumberAt(i) == IF i <= Len(calls) + 1 THEN i - 1 ELSE 2 * i - Len(calls) - 2

EventsInv ==
    \A i \in 1..Len(contents) :
        ActionValid(contents[i]) /\ contents[i].sequence = NumberAt(i)

(* An event on one resource in the catalog's pattern is valid. *)
LEMMA TouchingValid ==
    ASSUME NEW c, NEW cap, NEW e, NEW u, NEW t,
           c.action = Touching(cap, e, u, t), c.pattern = Scope[c.action.capability],
           WellFormed(Touching(cap, e, u, t))
    PROVE  ActionValid(c)
  <1>1. InCatalog(c.action) /\ Footprint(c.action) \subseteq Scope[c.action.capability]
    BY DEF WellFormed
  <1>2. CapabilityMatchesEffects(c.action)
    BY DEF Touching, CapabilityMatchesEffects
  <1> QED BY <1>1, <1>2 DEF ActionValid, InPattern

(* A recorded event keeps EventsInv if it is valid and has its number. *)
LEMMA RecordedKept ==
    ASSUME TypeOK, EventsInv, NEW e, contents' = Append(contents, e), UNCHANGED calls,
           ActionValid(e), e.sequence = NumberAt(Len(contents) + 1)
    PROVE  EventsInv'
  <1>1. /\ Len(contents) \in Nat /\ Len(contents') = Len(contents) + 1
        /\ contents'[Len(contents) + 1] = e
        /\ \A i \in 1..Len(contents) : contents'[i] = contents[i]
    BY DEF TypeOK
  <1>2. SUFFICES ASSUME NEW i \in 1..(Len(contents) + 1)
                 PROVE  ActionValid(contents'[i]) /\ contents'[i].sequence = NumberAt(i)
    BY <1>1 DEF EventsInv, NumberAt, ActionValid, InCatalog, InPattern, CapabilityMatchesEffects,
                KnownCapabilityEffect, ActionEffectsKnown, Footprint
  <1>3. CASE i \in 1..Len(contents)
    BY <1>1, <1>3 DEF EventsInv
  <1>4. CASE i = Len(contents) + 1
    BY <1>1, <1>4
  <1> QED BY <1>1, <1>3, <1>4

LEMMA EventsHold == Spec => []EventsInv
  <1>1. Init => EventsInv
    BY DEF Init, EventsInv
  <1>2. IInv /\ EventsInv /\ [Next]_vars => EventsInv'
    <2> SUFFICES ASSUME IInv, EventsInv, [Next]_vars PROVE EventsInv'
      OBVIOUS
    <2>1. TypeOK
      BY DEF IInv
    <2>2. CASE CompileCall
      <3> DEFINE c == NextCall
                 e == [id |-> c.id, sequence |-> Len(contents), principal |-> Agent,
                       action |-> ToolAction(c), pattern |-> Scope[ToolAction(c).capability],
                       decision |-> CallDecision(c)]
      <3>1. contents' = Append(contents, e) /\ UNCHANGED calls /\ Compilable(c) /\ CallsLeft
        BY <2>2 DEF CompileCall, Record
      <3>2. ActionValid(e)
        <4>1. /\ e.action = Touching(ToolMap[c.tool][1], ToolMap[c.tool][2], c.uri, Tenant)
              /\ e.pattern = Scope[e.action.capability]
          BY DEF ToolAction
        <4>2. WellFormed(Touching(ToolMap[c.tool][1], ToolMap[c.tool][2], c.uri, Tenant))
          BY <3>1 DEF Compilable, ToolAction
        <4> HIDE DEF e
        <4> QED BY <4>1, <4>2, TouchingValid
      <3>3. e.sequence = NumberAt(Len(contents) + 1)
        BY <2>1, <3>1 DEF NumberAt, CallsLeft, TypeOK
      <3> HIDE DEF e
      <3> QED BY <2>1, <3>1, <3>2, <3>3, RecordedKept
    <2>3. CASE CompileHandoff
      <3> DEFINE h == NextHandoff
                 e == [id |-> h.id, sequence |-> HandoffNumber, principal |-> h.fromPrincipal,
                       action |-> HandoffAction(h), pattern |-> Scope[HandoffAction(h).capability],
                       decision |-> "allow"]
      <3>1. /\ contents' = Append(contents, e) /\ UNCHANGED calls
            /\ WellFormed(HandoffAction(h)) /\ HandoffsLeft
        BY <2>3 DEF CompileHandoff, Record
      <3>2. ActionValid(e)
        <4>1. /\ e.action = Touching(h.first, h.firstEffect, AgentUri[h.toPrincipal.id],
                                     h.fromPrincipal.tenant)
              /\ e.pattern = Scope[e.action.capability]
          BY DEF HandoffAction
        <4>2. WellFormed(Touching(h.first, h.firstEffect, AgentUri[h.toPrincipal.id],
                                  h.fromPrincipal.tenant))
          BY <3>1 DEF HandoffAction
        <4> HIDE DEF e
        <4> QED BY <4>1, <4>2, TouchingValid
      <3>3. e.sequence = NumberAt(Len(contents) + 1)
        <4>1. e.sequence = HandoffNumber
          OBVIOUS
        <4>2. Len(contents) \in Nat /\ Len(calls) \in Nat /\ Len(contents) >= Len(calls)
          BY <2>1, <3>1, NextHandoffShape DEF TypeOK
        <4> HIDE DEF e
        <4> QED BY <4>1, <4>2 DEF NumberAt, HandoffNumber, Offset
      <3> HIDE DEF e
      <3> QED BY <2>1, <3>1, <3>2, <3>3, RecordedKept
    <2>4. CASE RefuseCall \/ RefuseHandoff \/ Finish \/ UNCHANGED vars
      BY <2>4 DEF RefuseCall, RefuseHandoff, Refuse, Finish, vars, EventsInv, NumberAt, ActionValid,
                  InCatalog, InPattern, CapabilityMatchesEffects, KnownCapabilityEffect,
                  ActionEffectsKnown, Footprint
    <2> QED BY <2>2, <2>3, <2>4 DEF Next
  <1> QED BY <1>1, <1>2, Inductive, PTL DEF Spec

(* Sealing makes a chain that validation follows, whatever it seals. *)
LEMMA SealedHashesValid ==
    ASSUME NEW cs \in Seq(Content)
    PROVE  /\ HashesValid(SealedFile(cs))
           /\ SealedFile(cs).events \in Seq(SealedEvent) /\ Len(SealedFile(cs).events) = Len(cs)
           /\ \A i \in 1..Len(cs) : SealedFile(cs).events[i].content = cs[i]
  <1> DEFINE sealed(i) == Seal(cs[i], SubSeq(cs, 1, i - 1))
             es == SealAll(cs)
  <1>1. Len(cs) \in Nat /\ \A i \in 1..Len(cs) : cs[i] \in Content
    OBVIOUS
  <1>2. ASSUME NEW i \in 1..Len(cs)
        PROVE  /\ SubSeq(cs, 1, i - 1) \in Seq(Content)
               /\ Append(SubSeq(cs, 1, i - 1), cs[i]) = SubSeq(cs, 1, i)
               /\ Append(SubSeq(cs, 1, i - 1), cs[i]) \in Seq(Content)
    <2>1. 1 \in Int /\ i \in Nat /\ i - 1 \in Int /\ \A j \in 1..(i - 1) : cs[j] \in Content
      BY <1>1
    <2>2. SubSeq(cs, 1, i - 1) \in Seq(Content)
      BY <2>1, SubSeqProperties
    <2>3. SubSeq(cs, 1, i) = SubSeq(cs, 1, i - 1) \o <<cs[i]>>
      BY <1>1, <2>1, SubSeqRecursiveSecond
    <2>4. /\ Append(SubSeq(cs, 1, i - 1), cs[i]) = SubSeq(cs, 1, i - 1) \o <<cs[i]>>
          /\ Append(SubSeq(cs, 1, i - 1), cs[i]) \in Seq(Content)
      BY <1>1, <2>2, AppendIsConcat, AppendProperties
    <2> QED BY <2>2, <2>3, <2>4
  <1>3. \A i \in 1..Len(cs) : sealed(i) \in SealedEvent
    BY <1>1, <1>2 DEF Seal, SealedEvent, Hash
  <1>4. es = [i \in 1..Len(cs) |-> sealed(i)]
    BY DEF SealAll
  <1>5. es \in Seq(SealedEvent) /\ Len(es) = Len(cs)
    <2> HIDE DEF sealed, es
    <2> QED BY <1>1, <1>3, <1>4
  <1>6. \A i \in 1..Len(cs) :
           es[i] = [content |-> cs[i], previous |-> SubSeq(cs, 1, i - 1),
                    hash |-> SubSeq(cs, 1, i), signature |-> SubSeq(cs, 1, i)]
    BY <1>2, <1>4 DEF Seal
  <1> HIDE DEF es
  <1>7. ASSUME NEW i \in 1..Len(cs)
        PROVE  /\ es[i].content = cs[i] /\ es[i].previous = SubSeq(cs, 1, i - 1)
               /\ es[i].hash = SubSeq(cs, 1, i)
    <2>1. es[i] = [content |-> cs[i], previous |-> SubSeq(cs, 1, i - 1),
                   hash |-> SubSeq(cs, 1, i), signature |-> SubSeq(cs, 1, i)]
      BY <1>6
    <2> QED BY <2>1
  <1>8. ASSUME NEW i \in 1..Len(cs)
        PROVE  /\ es[i].previous = IF i = 1 THEN Genesis ELSE es[i - 1].hash
               /\ es[i].hash = EventHash(es[i])
    <2>1. es[i].hash = EventHash(es[i])
      BY <1>2, <1>7 DEF EventHash
    <2>2. CASE i = 1
      <3>1. SubSeq(cs, 1, 0) = <<>>
        BY SubSeqEmpty
      <3>2. SubSeq(cs, 1, i - 1) = <<>>
        BY <2>2, <3>1
      <3> QED BY <1>7, <2>1, <2>2, <3>2 DEF Genesis
    <2>3. CASE i # 1
      <3>1. i - 1 \in 1..Len(cs)
        BY <1>1, <2>3
      <3> QED BY <1>7, <2>1, <2>3, <3>1
    <2> QED BY <2>2, <2>3
  <1>9. SealedFile(cs).events = es /\ SealedFile(cs).traceHash = es
    BY DEF SealedFile, es
  <1> QED BY <1>5, <1>7, <1>8, <1>9 DEF HashesValid

(* Validation accepts a compiled trace exactly when its source has at most   *)
(* one handoff: hashes and actions are always in order, and the numbers jump *)
(* between the first handoff and the second.                                 *)
THEOREM AlwaysAcceptedExactly == Spec => []AcceptedExactly
  <1>1. ASSUME IInv, EventsInv PROVE AcceptedExactly
    <2> SUFFICES ASSUME outcome = "compiled"
                 PROVE  Accepted(SealedFile(contents)) <=> Len(handoffs) <= 1
      BY DEF AcceptedExactly
    <2> DEFINE f == SealedFile(contents)
    <2>1. /\ contents \in Seq(Content) /\ Len(contents) \in Nat
          /\ Len(calls) \in Nat /\ Len(calls) >= 1 /\ Len(handoffs) \in Nat
          /\ Len(contents) = Len(calls) + Len(handoffs)
      <3>1. TypeOK /\ Offset = Len(handoffs)
        BY <1>1 DEF IInv
      <3> QED BY <3>1 DEF TypeOK, Offset
    <2>2. /\ HashesValid(f) /\ Len(f.events) = Len(contents)
          /\ \A i \in 1..Len(contents) : f.events[i].content = contents[i]
      BY <2>1, SealedHashesValid
    <2> HIDE DEF f
    <2>3. ActionsValid(f)
      BY <1>1, <2>2 DEF ActionsValid, EventsInv, ActionValid
    <2>4. SequenceOrder(f) <=> \A i \in 1..(Len(contents) - 1) : NumberAt(i + 1) = NumberAt(i) + 1
      <3>1. \A i \in 1..(Len(contents) - 1) : i \in 1..Len(contents) /\ i + 1 \in 1..Len(contents)
        BY <2>1
      <3>2. \A i \in 1..Len(contents) : f.events[i].content.sequence = NumberAt(i)
        BY <1>1, <2>2 DEF EventsInv
      <3> QED BY <2>2, <3>1, <3>2 DEF SequenceOrder
    <2>5. CASE Len(handoffs) <= 1
      <3>1. \A i \in 1..(Len(contents) - 1) : NumberAt(i + 1) = NumberAt(i) + 1
        BY <2>1, <2>5 DEF NumberAt
      <3> QED BY <2>2, <2>3, <2>4, <2>5, <3>1 DEF Accepted, f
    <2>6. CASE Len(handoffs) > 1
      <3>1. /\ Len(calls) + 1 \in 1..(Len(contents) - 1)
            /\ NumberAt(Len(calls) + 2) # NumberAt(Len(calls) + 1) + 1
        BY <2>1, <2>6 DEF NumberAt
      <3>2. Len(calls) + 1 + 1 = Len(calls) + 2
        BY <2>1
      <3>3. ~SequenceOrder(f)
        BY <2>4, <3>1, <3>2
      <3> QED BY <2>1, <2>6, <3>3 DEF Accepted, f
    <2> QED BY <2>1, <2>5, <2>6
  <1> QED BY <1>1, EventsHold, Inductive, PTL
=============================================================================
