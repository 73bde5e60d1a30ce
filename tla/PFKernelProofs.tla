--------------------------- MODULE PFKernelProofs ---------------------------
(***************************************************************************)
(* Machine-checked properties of the PF-Core kernel, for any tenants,      *)
(* catalog, records and bounds.                                            *)
(***************************************************************************)
EXTENDS PFKernel, TLAPS

(* What the steps need to know of the past: the state is still the one the *)
(* first event gave, or it has moved inside the tenant of that event.      *)
Opening ==
    /\ trace # <<>> => trace[1].principal.tenant = tenant
    /\ trace = <<>> => /\ resourceFrame = {}
                       /\ ~refused
                       /\ delegations = <<>>
                       /\ capabilityFrame = activePrincipal.capabilities

(* FrameValid is not inductive alone: a handoff needs the shapes of the    *)
(* records, and the first event the state it opened.                       *)
IInv == TypeOK /\ FrameValid /\ Opening

-----------------------------------------------------------------------------
(* Appending to a sequence keeps what is there and adds one element. *)
LEMMA AppendFacts ==
    ASSUME NEW S, NEW s \in Seq(S), NEW e \in S
    PROVE  /\ Append(s, e) \in Seq(S)
           /\ Append(s, e) # <<>>
           /\ Len(Append(s, e)) = Len(s) + 1
           /\ \A i \in 1..Len(s) : Append(s, e)[i] = s[i]
           /\ Append(s, e)[Len(s) + 1] = e
           /\ s # <<>> => 1 \in 1..Len(s)
           /\ s = <<>> => Len(s) = 0
  OBVIOUS

(* A recorded event is one of Event, and its records have their shapes. *)
LEMMA EventShape ==
    ASSUME NEW ev \in Event
    PROVE  /\ ev.principal \in Principal
           /\ ev.action \in Action
           /\ ev.decision \in {"allow", "deny"}
           /\ Footprint(ev.action) \subseteq Resources
  BY DeciderAssumption DEF Event, Principal, Action, Footprint

LEMMA HandoffShape ==
    ASSUME NEW h \in Handoffs
    PROVE  /\ h.fromPrincipal \in Principal
           /\ h.toPrincipal \in Principal
           /\ h.delegatedCapabilities \subseteq Capabilities
           /\ MergedCapabilities(h) \subseteq Capabilities
  BY KernelAssumption DEF Handoff, Principal, MergedCapabilities

LEMMA InitIInv == Init => IInv
  <1> SUFFICES ASSUME NEW p \in Principals, InitialState(p),
                      trace = <<>>, refused = FALSE, delegations = <<>>
               PROVE  IInv
    BY DEF Init
  <1>1. p \in Principal
    BY DeciderAssumption
  <1>2. TypeOK
    <2>1. trace \in Seq(Event) /\ delegations \in Seq(Handoffs)
      OBVIOUS
    <2>2. /\ tenant \in Tenants
          /\ activePrincipal \in Principal
          /\ resourceFrame \in SUBSET Resources
          /\ capabilityFrame \in SUBSET Capabilities
      BY <1>1 DEF InitialState, Principal
    <2> QED BY <2>1, <2>2 DEF TypeOK
  <1>3. FrameValid
    BY <1>1 DEF InitialState, FrameValid
  <1>4. Opening
    BY DEF InitialState, Opening
  <1> QED BY <1>2, <1>3, <1>4 DEF IInv

(* Recording the first event fixes the tenant, later ones do not change it. *)
LEMMA OpeningKept ==
    ASSUME IInv, NEW ev \in Event, Recordable(ev), trace' = Append(trace, ev),
           tenant' = tenant
    PROVE  trace' # <<>> /\ trace'[1].principal.tenant = tenant'
  <1>1. CASE trace = <<>>
    BY <1>1, AppendFacts DEF Recordable, IInv, FrameValid, TypeOK
  <1>2. CASE trace # <<>>
    <2>1. trace[1].principal.tenant = tenant
      BY <1>2 DEF IInv, Opening
    <2>2. trace \in Seq(Event)
      BY DEF IInv, TypeOK
    <2>3. 1 \in 1..Len(trace) /\ trace'[1] = trace[1] /\ trace' # <<>>
      BY <1>2, <2>2, AppendFacts
    <2> QED BY <2>1, <2>3
  <1> QED BY <1>1, <1>2

LEMMA StepAllowIInv ==
    ASSUME IInv, NEW ev \in Event, StepAllow(ev)
    PROVE  IInv'
  <1> USE DEF StepAllow, Applies
  <1>1. tenant' = tenant /\ ev.principal.tenant = tenant
    OBVIOUS
  <1>2. trace \in Seq(Event) /\ trace' \in Seq(Event)
    BY AppendFacts DEF IInv, TypeOK
  <1>3. TypeOK'
    BY <1>1, <1>2, EventShape DEF IInv, TypeOK, ExpandResourceFrame, Principal
  <1>4. FrameValid'
    BY <1>1, EventShape DEF IInv, FrameValid, ExpandResourceFrame, ActionAllowed, ActionWithinTenant
  <1>5. Opening'
    BY <1>1, OpeningKept DEF Opening
  <1> QED BY <1>3, <1>4, <1>5 DEF IInv

LEMMA StepNoneIInv ==
    ASSUME IInv, NEW ev \in Event, StepNone(ev)
    PROVE  IInv'
  <1> USE DEF StepNone
  <1>1. TypeOK'
    BY AppendFacts DEF IInv, TypeOK
  <1>2. FrameValid'
    BY DEF IInv, FrameValid
  <1>3. Opening'
    BY OpeningKept DEF Opening
  <1> QED BY <1>1, <1>2, <1>3 DEF IInv

LEMMA StepDenyIInv ==
    ASSUME IInv, NEW ev \in Event, StepDeny(ev)
    PROVE  IInv'
  <1> USE DEF StepDeny
  <1>1. TypeOK'
    BY AppendFacts DEF IInv, TypeOK
  <1>2. FrameValid'
    BY DEF IInv, FrameValid
  <1>3. Opening'
    BY OpeningKept DEF Opening
  <1> QED BY <1>1, <1>2, <1>3 DEF IInv

LEMMA HandoffIInv ==
    ASSUME IInv, NEW h \in Handoffs, ApplyHandoff(h)
    PROVE  IInv'
  <1> USE DEF ApplyHandoff
  <1>1. TypeOK'
    BY HandoffShape, AppendFacts DEF IInv, TypeOK, Principal
  <1>2. FrameValid'
    BY HandoffShape DEF IInv, FrameValid, Principal
  <1>3. Opening'
    BY DEF IInv, Opening
  <1> QED BY <1>1, <1>2, <1>3 DEF IInv

LEMMA NextIInv == IInv /\ [Next]_vars => IInv'
  <1> SUFFICES ASSUME IInv, [Next]_vars PROVE IInv'
    OBVIOUS
  <1>1. CASE UNCHANGED vars
    BY <1>1 DEF vars, IInv, TypeOK, FrameValid, Opening
  <1>2. ASSUME NEW ev \in Event, StepAllow(ev) PROVE IInv'
    BY <1>2, StepAllowIInv
  <1>3. ASSUME NEW ev \in Event, StepNone(ev) PROVE IInv'
    BY <1>3, StepNoneIInv
  <1>4. ASSUME NEW ev \in Event, StepDeny(ev) PROVE IInv'
    BY <1>4, StepDenyIInv
  <1>5. ASSUME NEW h \in Handoffs, ApplyHandoff(h) PROVE IInv'
    BY <1>5, HandoffIInv
  <1> QED BY <1>1, <1>2, <1>3, <1>4, <1>5 DEF Next

LEMMA Inductive == Spec => []IInv
  BY InitIInv, NextIInv, PTL DEF Spec

(* Every reachable state has the shapes of Transition.lean's State. *)
THEOREM TypeCorrect == Spec => []TypeOK
  <1>1. IInv => TypeOK
    BY DEF IInv
  <1> QED BY <1>1, Inductive, PTL

(* Events and handoffs, in any number and order, leave the frame valid. *)
THEOREM FrameStaysValid == Spec => []FrameValid
  <1>1. IInv => FrameValid
    BY DEF IInv
  <1> QED BY <1>1, Inductive, PTL

-----------------------------------------------------------------------------
(* The fold against the trace judged as a whole. *)

(* An event that may stand in an unrefused trace of tenant t. *)
Good(ev, t) ==
    ev.decision = "allow" => ActionAllowed(ev.principal, ev.action) /\ ev.principal.tenant = t

(* RefusedExactly with the state's tenant in place of the first event's. *)
LEMMA RefusedExactlyByTenant ==
    ASSUME IInv
    PROVE  RefusedExactly <=> (~refused <=> \A i \in 1..Len(trace) : Good(trace[i], tenant))
  <1>1. trace \in Seq(Event)
    BY DEF IInv, TypeOK
  <1>2. CASE trace = <<>>
    BY <1>2 DEF RefusedExactly, TraceSafe
  <1>3. CASE trace # <<>>
    <2>1. trace[1].principal.tenant = tenant
      BY <1>3 DEF IInv, Opening
    <2> QED BY <2>1 DEF RefusedExactly, TraceSafe, EventSafe, Good
  <1> QED BY <1>2, <1>3

(* The events of an extended trace are the old ones and the new one. *)
LEMMA GoodAppend ==
    ASSUME IInv, NEW ev \in Event, trace' = Append(trace, ev)
    PROVE  (\A i \in 1..Len(trace') : Good(trace'[i], tenant)) <=>
               (\A i \in 1..Len(trace) : Good(trace[i], tenant)) /\ Good(ev, tenant)
  <1>1. /\ trace \in Seq(Event)
        /\ Len(trace) \in Nat
        /\ Len(trace') = Len(trace) + 1
        /\ \A i \in 1..Len(trace) : trace'[i] = trace[i]
        /\ trace'[Len(trace) + 1] = ev
    BY AppendFacts DEF IInv, TypeOK
  <1>2. 1..Len(trace') = 1..Len(trace) \cup {Len(trace) + 1}
    BY <1>1
  <1> QED BY <1>1, <1>2

LEMMA RefusedExactlyKept == IInv /\ RefusedExactly /\ [Next]_vars => RefusedExactly'
  <1> SUFFICES ASSUME IInv, RefusedExactly, [Next]_vars PROVE RefusedExactly'
    OBVIOUS
  <1> DEFINE AllGood == \A i \in 1..Len(trace) : Good(trace[i], tenant)
  <1>1. ~refused <=> AllGood
    BY RefusedExactlyByTenant
  <1>2. SUFFICES ~refused' <=> AllGood'
    <2>1. IInv'
      BY NextIInv
    <2>2. (RefusedExactly <=> (~refused <=> AllGood))'
      BY <2>1, RefusedExactlyByTenant, PTL
    <2> QED BY <2>2
  <1>3. CASE UNCHANGED vars
    BY <1>1, <1>3 DEF vars
  <1>4. ASSUME NEW ev \in Event, StepAllow(ev) PROVE ~refused' <=> AllGood'
    <2>1. tenant' = tenant /\ refused' = refused /\ Good(ev, tenant)
      BY <1>4 DEF StepAllow, Applies, Good
    <2>2. AllGood' <=> AllGood /\ Good(ev, tenant)
      BY <1>4, <2>1, GoodAppend DEF StepAllow
    <2> QED BY <1>1, <2>1, <2>2
  <1>5. ASSUME NEW ev \in Event, StepNone(ev) PROVE ~refused' <=> AllGood'
    <2>1. tenant' = tenant /\ refused' /\ ~Good(ev, tenant)
      BY <1>5 DEF StepNone, Applies, Good
    <2>2. AllGood' <=> AllGood /\ Good(ev, tenant)
      BY <1>5, <2>1, GoodAppend DEF StepNone
    <2> QED BY <2>1, <2>2
  <1>6. ASSUME NEW ev \in Event, StepDeny(ev) PROVE ~refused' <=> AllGood'
    <2>1. tenant' = tenant /\ refused' = refused /\ Good(ev, tenant)
      BY <1>6 DEF StepDeny, Good
    <2>2. AllGood' <=> AllGood /\ Good(ev, tenant)
      BY <1>6, <2>1, GoodAppend DEF StepDeny
    <2> QED BY <1>1, <2>1, <2>2
  <1>7. ASSUME NEW h \in Handoffs, ApplyHandoff(h) PROVE ~refused' <=> AllGood'
    BY <1>1, <1>7 DEF ApplyHandoff
  <1> QED BY <1>3, <1>4, <1>5, <1>6, <1>7 DEF Next

(* The fold refuses a trace exactly when the trace, read as a whole, is    *)
(* unsafe or leaves its first tenant.                                      *)
THEOREM FoldRefusesExactly == Spec => []RefusedExactly
  <1>1. Init => RefusedExactly
    BY DEF Init, RefusedExactly, TraceSafe
  <1> QED BY <1>1, Inductive, RefusedExactlyKept, PTL DEF Spec

-----------------------------------------------------------------------------
(* No step changes the tenant or forgets a resource. *)
THEOREM TenantStaysFixed == Spec => TenantIsFixed
  <1>1. [Next]_vars => [tenant' = tenant /\ resourceFrame \subseteq resourceFrame']_vars
    <2> SUFFICES ASSUME Next
                 PROVE  tenant' = tenant /\ resourceFrame \subseteq resourceFrame'
      OBVIOUS
    <2> QED BY DEF Next, StepAllow, StepNone, StepDeny, ApplyHandoff, Applies, ExpandResourceFrame
  <1> QED BY <1>1, PTL DEF Spec, TenantIsFixed

-----------------------------------------------------------------------------
(* What took effect. *)

(* An event that has a step in tenant t. *)
Taken(ev, t) ==
    ev.decision = "allow" /\ ActionAllowed(ev.principal, ev.action) /\ ev.principal.tenant = t

(* Positions of the events that took effect, by the state's tenant. *)
LEMMA AppliedByTenant ==
    ASSUME IInv
    PROVE  AppliedEvents = {i \in 1..Len(trace) : Taken(trace[i], tenant)}
  <1>1. trace \in Seq(Event)
    BY DEF IInv, TypeOK
  <1>2. CASE trace = <<>>
    BY <1>2 DEF AppliedEvents
  <1>3. CASE trace # <<>>
    <2>1. trace[1].principal.tenant = tenant
      BY <1>3 DEF IInv, Opening
    <2> QED BY <2>1 DEF AppliedEvents, EventSafe, Taken
  <1> QED BY <1>2, <1>3

(* Recording an event in the same tenant adds its position when it has a   *)
(* step, and changes no earlier event.                                     *)
LEMMA AppliedAppend ==
    ASSUME IInv, IInv', NEW ev \in Event, trace' = Append(trace, ev), tenant' = tenant
    PROVE  /\ AppliedEvents \subseteq 1..Len(trace)
           /\ \A i \in AppliedEvents : trace'[i] = trace[i]
           /\ trace'[Len(trace) + 1] = ev
           /\ Taken(ev, tenant) => AppliedEvents' = AppliedEvents \cup {Len(trace) + 1}
           /\ ~Taken(ev, tenant) => AppliedEvents' = AppliedEvents
  <1>1. /\ trace \in Seq(Event)
        /\ Len(trace) \in Nat
        /\ Len(trace') = Len(trace) + 1
        /\ \A i \in 1..Len(trace) : trace'[i] = trace[i]
        /\ trace'[Len(trace) + 1] = ev
    BY AppendFacts DEF IInv, TypeOK
  <1>2. AppliedEvents = {i \in 1..Len(trace) : Taken(trace[i], tenant)}
    BY AppliedByTenant
  <1>3. (AppliedEvents = {i \in 1..Len(trace) : Taken(trace[i], tenant)})'
    BY AppliedByTenant, PTL
  <1>4. 1..Len(trace') = (1..Len(trace)) \cup {Len(trace) + 1}
    BY <1>1
  <1>5. AppliedEvents' = {i \in 1..Len(trace) \cup {Len(trace) + 1} : Taken(trace'[i], tenant)}
    BY <1>3, <1>4
  <1>6. \A i : i \in AppliedEvents' <=>
            i \in AppliedEvents \/ (i = Len(trace) + 1 /\ Taken(ev, tenant))
    BY <1>1, <1>2, <1>5
  <1> QED BY <1>1, <1>2, <1>6

LEMMA FootprintExactKept == IInv /\ FootprintExact /\ [Next]_vars => FootprintExact'
  <1> SUFFICES ASSUME IInv, FootprintExact, [Next]_vars PROVE FootprintExact'
    OBVIOUS
  <1>1. IInv'
    BY NextIInv
  <1>2. CASE UNCHANGED vars
    BY <1>2 DEF vars, FootprintExact, AppliedEvents
  <1>3. ASSUME NEW ev \in Event, StepAllow(ev) PROVE FootprintExact'
    <2>1. /\ trace' = Append(trace, ev)
          /\ tenant' = tenant
          /\ Taken(ev, tenant)
          /\ resourceFrame' = resourceFrame \cup Footprint(ev.action)
      BY <1>3 DEF StepAllow, Applies, Taken, ExpandResourceFrame
    <2>2. /\ AppliedEvents' = AppliedEvents \cup {Len(trace) + 1}
          /\ \A i \in AppliedEvents : trace'[i] = trace[i]
          /\ trace'[Len(trace) + 1] = ev
      BY <1>1, <2>1, AppliedAppend
    <2>3. UNION {Footprint(trace'[i].action) : i \in AppliedEvents'}
              = (UNION {Footprint(trace[i].action) : i \in AppliedEvents}) \cup Footprint(ev.action)
      BY <2>2
    <2> QED BY <2>1, <2>3 DEF FootprintExact
  <1>4. ASSUME NEW ev \in Event, StepNone(ev) \/ StepDeny(ev) PROVE FootprintExact'
    <2>1. /\ trace' = Append(trace, ev)
          /\ tenant' = tenant
          /\ ~Taken(ev, tenant)
          /\ resourceFrame' = resourceFrame
      BY <1>4 DEF StepNone, StepDeny, Applies, Taken
    <2>2. /\ AppliedEvents' = AppliedEvents
          /\ \A i \in AppliedEvents : trace'[i] = trace[i]
      BY <1>1, <2>1, AppliedAppend
    <2>3. UNION {Footprint(trace'[i].action) : i \in AppliedEvents'}
              = UNION {Footprint(trace[i].action) : i \in AppliedEvents}
      BY <2>2
    <2> QED BY <2>1, <2>3 DEF FootprintExact
  <1>5. ASSUME NEW h \in Handoffs, ApplyHandoff(h) PROVE FootprintExact'
    BY <1>5 DEF ApplyHandoff, FootprintExact, AppliedEvents
  <1> QED BY <1>2, <1>3, <1>4, <1>5 DEF Next

(* The resource frame is exactly what the events that took effect declared. *)
THEOREM FrameIsTheFootprint == Spec => []FootprintExact
  <1>1. Init => FootprintExact
    BY DEF Init, InitialState, FootprintExact, AppliedEvents
  <1> QED BY <1>1, Inductive, FootprintExactKept, PTL DEF Spec

-----------------------------------------------------------------------------
(* Where authority comes from. *)

(* The record that opened the run stays the same one. *)
LEMMA OpenerKept ==
    ASSUME IInv, NEW ev \in Event, Recordable(ev), trace' = Append(trace, ev)
    PROVE  Opener' = Opener
  <1>1. trace \in Seq(Event)
    BY DEF IInv, TypeOK
  <1>2. CASE trace = <<>>
    BY <1>1, <1>2, AppendFacts DEF Opener, Recordable
  <1>3. CASE trace # <<>>
    BY <1>1, <1>3, AppendFacts DEF Opener
  <1> QED BY <1>2, <1>3

LEMMA AuthorityKept == IInv /\ AuthorityHasSource /\ [Next]_vars => AuthorityHasSource'
  <1> SUFFICES ASSUME IInv, AuthorityHasSource, [Next]_vars PROVE AuthorityHasSource'
    OBVIOUS
  <1>1. IInv'
    BY NextIInv
  <1>2. CASE UNCHANGED vars
    BY <1>2 DEF vars, AuthorityHasSource, Participants, Opener, AppliedEvents, Delegates, Foreign
  <1>3. ASSUME NEW ev \in Event, StepAllow(ev) PROVE AuthorityHasSource'
    <2>1. /\ trace' = Append(trace, ev) /\ tenant' = tenant /\ Taken(ev, tenant)
          /\ capabilityFrame' = ev.principal.capabilities
          /\ ev.principal.tenant = tenant'
      BY <1>3 DEF StepAllow, Applies, Taken
    <2>2. Len(trace) + 1 \in AppliedEvents' /\ trace'[Len(trace) + 1] = ev
      BY <1>1, <2>1, AppliedAppend
    <2>3. ev.principal \in Participants'
      BY <2>2 DEF Participants
    <2> QED BY <2>1, <2>3 DEF AuthorityHasSource, HasCapability
  <1>4. ASSUME NEW ev \in Event, StepNone(ev) \/ StepDeny(ev) PROVE AuthorityHasSource'
    <2>1. /\ Recordable(ev) /\ trace' = Append(trace, ev) /\ tenant' = tenant
          /\ ~Taken(ev, tenant)
          /\ UNCHANGED <<capabilityFrame, delegations>>
      BY <1>4 DEF StepNone, StepDeny, Applies, Taken
    <2>2. AppliedEvents' = AppliedEvents /\ \A i \in AppliedEvents : trace'[i] = trace[i]
      BY <1>1, <2>1, AppliedAppend
    <2>3. Participants' = Participants /\ Delegates(Foreign)' = Delegates(Foreign)
      BY <2>1, <2>2, OpenerKept DEF Participants, Delegates, Foreign
    <2> QED BY <2>1, <2>3 DEF AuthorityHasSource
  <1>5. ASSUME NEW h \in Handoffs, ApplyHandoff(h) PROVE AuthorityHasSource'
    <2> DEFINE n == Len(delegations) + 1
    <2>1. /\ delegations' = Append(delegations, h) /\ tenant' = tenant
          /\ capabilityFrame' = h.delegatedCapabilities \cup h.toPrincipal.capabilities
          /\ h.delegatedCapabilities \subseteq h.fromPrincipal.capabilities
          /\ h.fromPrincipal.tenant = h.toPrincipal.tenant
      BY <1>5 DEF ApplyHandoff, HandoffSafe, MergedCapabilities
    <2>2. n \in 1..Len(delegations') /\ delegations'[n] = h
      BY <2>1, AppendFacts DEF IInv, TypeOK
    <2>3. h.fromPrincipal \in Participants' /\ h.toPrincipal \in Participants'
      BY <2>2 DEF Participants, Delegates
    <2>4. h.fromPrincipal.tenant # tenant' =>
              {h.fromPrincipal, h.toPrincipal} \subseteq Delegates(Foreign)'
      BY <2>2 DEF Delegates, Foreign
    <2> QED BY <2>1, <2>3, <2>4 DEF AuthorityHasSource, HasCapability
  <1> QED BY <1>2, <1>3, <1>4, <1>5 DEF Next

(* Every capability in the frame has a source among the run's records. *)
THEOREM AuthorityIsTraceable == Spec => []AuthorityHasSource
  <1>1. Init => AuthorityHasSource
    BY DEF Init, InitialState, AuthorityHasSource, HasCapability, Participants, Opener
  <1> QED BY <1>1, Inductive, AuthorityKept, PTL DEF Spec

LEMMA ChainKept == IInv /\ ChainBounded /\ [Next]_vars => ChainBounded'
  <1> SUFFICES ASSUME IInv, ChainBounded, [Next]_vars PROVE ChainBounded'
    OBVIOUS
  <1>1. CASE UNCHANGED delegations
    BY <1>1 DEF ChainBounded, NarrowingChain
  <1>2. ASSUME NEW h \in Handoffs, ApplyHandoff(h), NarrowingChain(delegations')
        PROVE  \A i \in 1..Len(delegations') :
                  /\ delegations'[i].delegatedCapabilities
                         \subseteq delegations'[1].fromPrincipal.capabilities
                  /\ delegations'[i].toPrincipal.tenant = delegations'[1].fromPrincipal.tenant
    <2> DEFINE n == Len(delegations)
    <2>1. /\ n \in Nat /\ Len(delegations') = n + 1
          /\ \A i \in 1..n : delegations'[i] = delegations[i]
          /\ delegations'[n + 1] = h
      BY <1>2, AppendFacts DEF ApplyHandoff, IInv, TypeOK
    <2>2. HandoffSafe(h)
      BY <1>2 DEF ApplyHandoff
    <2>3. CASE n = 0
      BY <2>1, <2>2, <2>3 DEF HandoffSafe
    <2>4. CASE n # 0
      <3>1. n \in 1..n /\ 1 \in 1..n /\ n \in 1..(Len(delegations') - 1)
        BY <2>1, <2>4
      <3>2. NarrowingChain(delegations)
        <4> SUFFICES ASSUME NEW i \in 1..(n - 1)
                     PROVE  /\ delegations[i].toPrincipal = delegations[i + 1].fromPrincipal
                            /\ delegations[i + 1].delegatedCapabilities
                                   \subseteq delegations[i].delegatedCapabilities
          BY DEF NarrowingChain
        <4>1. i \in 1..n /\ i + 1 \in 1..n /\ i \in 1..(Len(delegations') - 1)
          BY <2>1
        <4> QED BY <1>2, <2>1, <4>1 DEF NarrowingChain
      <3>3. \A i \in 1..n :
                /\ delegations[i].delegatedCapabilities
                       \subseteq delegations[1].fromPrincipal.capabilities
                /\ delegations[i].toPrincipal.tenant = delegations[1].fromPrincipal.tenant
        BY <3>2 DEF ChainBounded
      <3>4. /\ delegations[n].toPrincipal = h.fromPrincipal
            /\ h.delegatedCapabilities \subseteq delegations[n].delegatedCapabilities
        BY <1>2, <2>1, <3>1 DEF NarrowingChain
      <3>5. /\ h.delegatedCapabilities \subseteq delegations[1].fromPrincipal.capabilities
            /\ h.toPrincipal.tenant = delegations[1].fromPrincipal.tenant
        BY <2>2, <3>1, <3>3, <3>4 DEF HandoffSafe
      <3> QED BY <2>1, <3>1, <3>3, <3>5
    <2> QED BY <2>3, <2>4
  <1>3. CASE \E h \in Handoffs : ApplyHandoff(h)
    BY <1>2, <1>3 DEF ChainBounded
  <1>4. [Next]_vars => UNCHANGED delegations \/ \E h \in Handoffs : ApplyHandoff(h)
    BY DEF Next, vars, StepAllow, StepNone, StepDeny
  <1> QED BY <1>1, <1>3, <1>4

(* Delegation chains of any length stay inside the first source's authority. *)
THEOREM ChainsStayBounded == Spec => []ChainBounded
  <1>1. Init => ChainBounded
    BY DEF Init, ChainBounded
  <1> QED BY <1>1, Inductive, ChainKept, PTL DEF Spec

-----------------------------------------------------------------------------
(* Two facts about recorded traces, whatever the state. *)

(* A safe trace is safe across tenants (traceSafe_implies_trace_cross_-    *)
(* tenant_safe of NonInterference.lean).                                   *)
THEOREM SafeIsCrossTenantSafe ==
    ASSUME NEW tr \in Seq(Event), TraceSafe(tr)
    PROVE  TraceCrossTenantSafe(tr)
  <1> SUFFICES ASSUME NEW i \in 1..Len(tr), tr[i].decision # "deny"
               PROVE  ActionWithinTenant(tr[i].principal, tr[i].action)
    BY DEF TraceCrossTenantSafe
  <1>1. tr[i] \in Event
    OBVIOUS
  <1>2. tr[i].decision = "allow"
    BY <1>1, EventShape
  <1> QED BY <1>2 DEF TraceSafe, EventSafe, ActionAllowed

(* The projection-isolation decider answers TRUE on every trace, safe or   *)
(* not: an event visible to a tenant is by definition one of that tenant,  *)
(* so the NonInterferenceD obligations of a certificate discharge          *)
(* themselves and carry no information about the trace.                    *)
THEOREM ProjectionIsolationAlwaysHolds ==
    ASSUME NEW tr, NEW low, NEW high
    PROVE  NonInterferenceD(tr, low, high)
  BY DEF NonInterferenceD, LowEvent

=============================================================================
