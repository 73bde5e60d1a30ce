----------------------- MODULE ObservationBatchProofs -----------------------
(***************************************************************************)
(* Machine-checked properties of the observation compiler, of the trace    *)
(* file it writes and of the Lean module generated for that file, for any  *)
(* runtimes, observations, deliveries and edits.                           *)
(***************************************************************************)
EXTENDS ObservationBatch, StableOrderProofs

-----------------------------------------------------------------------------
(* A trace of which Python's deciders have nothing to say.                   *)
NothingFound(cs) ==
    /\ cs \in Seq(Content)
    /\ \A i \in 1..Len(cs) : EventSafeD(cs[i]) /\ InPattern(cs[i])

LEMMA ContentFields ==
    ASSUME NEW cs \in Seq(Content), NEW i \in 1..Len(cs)
    PROVE  /\ Len(cs) \in Nat /\ cs[i] \in Content
           /\ cs[i].principal \in Principals /\ cs[i].principal \in Principal
           /\ cs[i].action \in Action /\ cs[i].decision \in {"allow", "deny"}
  <1>1. cs[i] \in Content /\ Len(cs) \in Nat
    OBVIOUS
  <1> QED BY <1>1, DeciderAssumption DEF Content

(* What Lean is given of an event is what the event says, less its number    *)
(* and its pattern.                                                          *)
LEMMA LeanTraceFields ==
    ASSUME NEW cs \in Seq(Content)
    PROVE  /\ Len(LeanTrace(cs)) = Len(cs)
           /\ \A i \in 1..Len(cs) :
                 /\ LeanTrace(cs)[i].id = cs[i].id
                 /\ LeanTrace(cs)[i].principal = cs[i].principal
                 /\ LeanTrace(cs)[i].action = cs[i].action
                 /\ LeanTrace(cs)[i].decision = cs[i].decision
  <1>1. LeanTrace(cs) = [i \in 1..Len(cs) |-> LeanEvent(cs[i])] /\ Len(cs) \in Nat
    BY DEF LeanTrace
  <1>2. Len(LeanTrace(cs)) = Len(cs)
    BY <1>1
  <1>3. ASSUME NEW i \in 1..Len(cs)
        PROVE  LeanTrace(cs)[i] = [id |-> cs[i].id, principal |-> cs[i].principal,
                                   action |-> cs[i].action, decision |-> cs[i].decision]
    BY <1>1 DEF LeanEvent
  <1>4. ASSUME NEW i \in 1..Len(cs)
        PROVE  /\ LeanTrace(cs)[i].id = cs[i].id
               /\ LeanTrace(cs)[i].principal = cs[i].principal
               /\ LeanTrace(cs)[i].action = cs[i].action
               /\ LeanTrace(cs)[i].decision = cs[i].decision
    <2>1. LeanTrace(cs)[i] = [id |-> cs[i].id, principal |-> cs[i].principal,
                              action |-> cs[i].action, decision |-> cs[i].decision]
      BY <1>3
    <2> QED BY <2>1
  <1> QED BY <1>2, <1>4

(* Python's event safety is Lean's: an effect of the catalog is a known one. *)
LEMMA SafeInLean ==
    ASSUME NEW cs, NothingFound(cs)
    PROVE  /\ \A i \in 1..Len(cs) : EventSafe(cs[i]) /\ EventSafe(LeanTrace(cs)[i])
           /\ TraceSafe(cs) /\ TraceSafe(LeanTrace(cs))
  <1>1. ASSUME NEW i \in 1..Len(cs) PROVE EventSafe(cs[i])
    <2> SUFFICES ASSUME cs[i].decision = "allow"
                 PROVE  ActionAllowed(cs[i].principal, cs[i].action)
      BY DEF EventSafe
    <2>1. ActionAdmissibleD(cs[i].principal, cs[i].action)
      BY DEF NothingFound, EventSafeD
    <2>2. cs[i].action.capabilityEffect \in Effects
      <3>1. cs[i].action \in Action
        BY ContentFields DEF NothingFound
      <3> QED BY <3>1 DEF Action
    <2> QED BY <2>1, <2>2 DEF ActionAdmissibleD, InCatalog, ActionAllowed, KnownCapability,
                              KnownCapabilityEffect
  <1>2. ASSUME NEW i \in 1..Len(cs) PROVE EventSafe(LeanTrace(cs)[i])
    BY <1>1, LeanTraceFields DEF EventSafe, NothingFound
  <1>3. Len(LeanTrace(cs)) = Len(cs)
    BY LeanTraceFields DEF NothingFound
  <1> QED BY <1>1, <1>2, <1>3 DEF TraceSafe

-----------------------------------------------------------------------------
(* The theorems of every module.                                             *)
LEMMA EventTheoremsHold ==
    ASSUME NEW cs, NothingFound(cs)
    PROVE  All(EventTheorems(LeanTrace(cs))) /\ All(TraceTheorems(LeanTrace(cs)))
  <1>1. Len(LeanTrace(cs)) = Len(cs)
    BY LeanTraceFields DEF NothingFound
  <1> QED BY <1>1, SafeInLean DEF EventTheorems, TraceTheorems, All, T

LEMMA HandoffTheoremsHold ==
    ASSUME NEW s
    PROVE  All(HandoffTheorems(s)) <=> \A h \in s.handoffs : HandoffSafe(h.handoff)
  <1>1. ASSUME All(HandoffTheorems(s)), NEW h \in s.handoffs PROVE HandoffSafe(h.handoff)
    <2>1. T(<<"concrete_handoff_safe", LeanIdent[h.id]>>, HandoffSafe(h.handoff))
              \in HandoffTheorems(s)
      BY DEF HandoffTheorems
    <2> QED BY <1>1, <2>1 DEF All, T
  <1>2. ASSUME \A h \in s.handoffs : HandoffSafe(h.handoff), NEW t \in HandoffTheorems(s)
        PROVE  t.holds
    BY <1>2 DEF HandoffTheorems, T
  <1> QED BY <1>1, <1>2 DEF All

(* A contract is asked the same of an event as recorded and as given to Lean. *)
LEMMA SatisfiesInLean ==
    ASSUME NEW cs \in Seq(Content), NEW i \in 1..Len(cs), NEW contract, NEW kinds
    PROVE  Satisfies(LeanTrace(cs)[i], contract, kinds) <=> Satisfies(cs[i], contract, kinds)
  <1> DEFINE c == cs[i]
             l == LeanTrace(cs)[i]
  <1>1. l.id = c.id /\ l.principal = c.principal /\ l.action = c.action /\ l.decision = c.decision
    BY LeanTraceFields
  <1> HIDE DEF c, l
  <1>2. AsEvent(l, l.principal.capabilities) = AsEvent(c, c.principal.capabilities)
    BY <1>1 DEF AsEvent
  <1>3. EventSafe(l) <=> EventSafe(c)
    BY <1>1 DEF EventSafe
  <1>4. \A r : LeanMeets(l, r) <=> LeanMeets(c, r)
    BY <1>2, <1>3 DEF LeanMeets
  <1>5. Satisfies(l, contract, kinds) <=> Satisfies(c, contract, kinds)
    BY <1>4 DEF Satisfies
  <1> QED BY <1>5 DEF c, l

LEMMA ContractTheoremsHold ==
    ASSUME NEW cs, NothingFound(cs), NEW s
    PROVE  All(ContractTheorems(LeanTrace(cs), s))
              <=> \A n \in Named(cs, s) : TraceSatisfies(cs, s.contracts[n[2]])
  <1> DEFINE tr == LeanTrace(cs)
  <1>1. cs \in Seq(Content) /\ Len(tr) = Len(cs) /\ TraceSafe(cs) /\ TraceSafe(tr)
    BY LeanTraceFields, SafeInLean DEF NothingFound
  <1>2. Named(tr, s) = Named(cs, s)
    BY <1>1, LeanTraceFields DEF Named
  <1>3. \A contract : TraceSatisfies(tr, contract) <=> TraceSatisfies(cs, contract)
    BY <1>1, SatisfiesInLean DEF TraceSatisfies
  <1>4. ASSUME All(ContractTheorems(tr, s)), NEW n \in Named(cs, s)
        PROVE  TraceSatisfies(cs, s.contracts[n[2]])
    <2>1. T(<<"concrete_trace_satisfies", n[2]>>, TraceSatisfies(tr, s.contracts[n[2]]))
              \in ContractTheorems(tr, s)
      BY <1>2 DEF ContractTheorems
    <2>2. TraceSatisfies(tr, s.contracts[n[2]])
      BY <1>4, <2>1 DEF All, T
    <2> QED BY <2>2, <1>3
  <1>5. ASSUME \A n \in Named(cs, s) : TraceSatisfies(cs, s.contracts[n[2]]),
               NEW t \in ContractTheorems(tr, s)
        PROVE  t.holds
    <2>1. CASE \E n \in Named(tr, s) :
                  t = T(<<"concrete_trace_satisfies", n[2]>>, TraceSatisfies(tr, s.contracts[n[2]]))
      BY <2>1, <1>2, <1>3, <1>5 DEF T
    <2>2. CASE \E n \in Named(tr, s) : \E q \in Questions(s.contracts[n[2]]) :
                  t = T(<<q[1], n[2], Ident(tr[n[1]])>>,
                        Satisfies(tr[n[1]], s.contracts[n[2]], q[2]))
      <3>0. PICK n \in Named(tr, s) : \E q \in Questions(s.contracts[n[2]]) :
                  t = T(<<q[1], n[2], Ident(tr[n[1]])>>,
                        Satisfies(tr[n[1]], s.contracts[n[2]], q[2]))
        BY <2>2
      <3>1. PICK q \in Questions(s.contracts[n[2]]) :
                  t = T(<<q[1], n[2], Ident(tr[n[1]])>>,
                        Satisfies(tr[n[1]], s.contracts[n[2]], q[2]))
        BY <3>0
      <3>2. n[1] \in 1..Len(tr)
        BY DEF Named
      <3>3. Satisfies(tr[n[1]], s.contracts[n[2]], PreKinds \cup PostKinds)
        BY <1>2, <1>3, <1>5, <3>2 DEF TraceSatisfies
      <3>4. q[2] \subseteq PreKinds \cup PostKinds
        BY DEF Questions
      <3>5. Satisfies(tr[n[1]], s.contracts[n[2]], q[2])
        BY <3>3, <3>4 DEF Satisfies
      <3> QED BY <3>1, <3>5 DEF T
    <2> QED BY <2>1, <2>2 DEF ContractTheorems
  <1> HIDE DEF tr
  <1>6. All(ContractTheorems(tr, s)) <=> \A n \in Named(cs, s) : TraceSatisfies(cs, s.contracts[n[2]])
    BY <1>4, <1>5 DEF All
  <1> QED BY <1>6 DEF tr

-----------------------------------------------------------------------------
(* The states of a trace: there is a function that follows PostState, so     *)
(* that States is one.                                                       *)
Follows(f, m, tr) ==
    /\ DOMAIN f = 0..m
    /\ f[0] = InitialState(tr[1].principal)
    /\ \A i \in 1..m : f[i] = PostState(f[i - 1], tr[i])

LEMMA StatesFollow ==
    ASSUME NEW tr, Len(tr) \in Nat
    PROVE  Follows(States(tr), Len(tr), tr)
  <1> DEFINE n == Len(tr)
             start == InitialState(tr[1].principal)
             Reached == {m \in 1..(n + 1) : \E f : Follows(f, m - 1, tr)}
  <1>1. 1 \in Reached
    <2> DEFINE f == [i \in 0..0 |-> start]
    <2>1. DOMAIN f = 0..0 /\ f[0] = start
      OBVIOUS
    <2> HIDE DEF f, start
    <2>2. Follows(f, 0, tr)
      BY <2>1 DEF Follows, start
    <2>3. Follows(f, 1 - 1, tr)
      BY <2>2
    <2> QED BY <2>3
  <1>2. ASSUME NEW m \in 1..((n + 1) - 1), m \in Reached PROVE m + 1 \in Reached
    <2>1. PICK f : Follows(f, m - 1, tr)
      BY <1>2
    <2> DEFINE next == PostState(f[m - 1], tr[m])
               g == [i \in 0..m |-> IF i = m THEN next ELSE f[i]]
    <2>2. m \in Nat /\ m # 0 /\ m + 1 \in 1..(n + 1) /\ (m + 1) - 1 = m
      BY <1>2
    <2>3. /\ DOMAIN g = 0..m
          /\ g[m] = next /\ \A i \in 0..(m - 1) : g[i] = f[i]
      <3> HIDE DEF next
      <3> QED BY <2>2
    <2> HIDE DEF g
    <2>4. ASSUME NEW i \in 1..m PROVE g[i] = PostState(g[i - 1], tr[i])
      <3>1. CASE i = m
        <4>1. g[m - 1] = f[m - 1]
          BY <2>2, <2>3
        <4> QED BY <3>1, <4>1, <2>3
      <3>2. CASE i # m
        <4>1. i \in 1..(m - 1) /\ i - 1 \in 0..(m - 1) /\ i \in 0..(m - 1)
          BY <3>2, <2>2
        <4>2. g[i] = f[i] /\ g[i - 1] = f[i - 1] /\ f[i] = PostState(f[i - 1], tr[i])
          BY <4>1, <2>1, <2>3 DEF Follows
        <4> QED BY <4>2
      <3> QED BY <3>1, <3>2
    <2>5. g[0] = start
      <3>1. 0 \in 0..(m - 1)
        BY <2>2
      <3> QED BY <3>1, <2>1, <2>3 DEF Follows
    <2>6. Follows(g, m, tr)
      BY <2>3, <2>4, <2>5 DEF Follows
    <2> QED BY <2>2, <2>6
  <1>3. n + 1 \in Reached
    <2> HIDE DEF Reached
    <2>1. n + 1 \in Nat /\ n + 1 \in 1..(n + 1)
      OBVIOUS
    <2> QED BY <1>1, <1>2, <2>1, IntervalInduction
  <1>4. PICK f : Follows(f, n, tr)
    <2>1. \E f : Follows(f, (n + 1) - 1, tr)
      BY <1>3
    <2>2. (n + 1) - 1 = n
      OBVIOUS
    <2> QED BY <2>1, <2>2
  <1> DEFINE step(g) == [i \in 0..n |-> IF i = 0 THEN start ELSE PostState(g[i - 1], tr[i])]
  <1>5. f = step(f)
    <2>1. ASSUME NEW i \in 0..n
          PROVE  f[i] = IF i = 0 THEN start ELSE PostState(f[i - 1], tr[i])
      <3>1. CASE i = 0
        BY <3>1, <1>4 DEF Follows
      <3>2. CASE i # 0
        <4>1. i \in 1..n
          BY <3>2
        <4> QED BY <4>1, <3>2, <1>4 DEF Follows
      <3> QED BY <3>1, <3>2
    <2>2. f = [i \in 0..n |-> f[i]]
      BY <1>4 DEF Follows
    <2> HIDE DEF start
    <2> QED BY <2>1, <2>2
  <1>6. States(tr) = CHOOSE g : g = step(g)
    BY DEF States
  <1>7. States(tr) = step(States(tr))
    <2> HIDE DEF step
    <2> QED BY <1>5, <1>6
  <1>8. DOMAIN States(tr) = 0..n
    BY <1>7
  <1>9. States(tr)[0] = start
    <2>1. 0 \in 0..n
      OBVIOUS
    <2> HIDE DEF start
    <2> QED BY <1>7, <2>1
  <1>10. ASSUME NEW i \in 1..n PROVE States(tr)[i] = PostState(States(tr)[i - 1], tr[i])
    <2>1. i \in 0..n /\ i # 0
      OBVIOUS
    <2> HIDE DEF start
    <2> QED BY <1>7, <2>1
  <1> QED BY <1>8, <1>9, <1>10 DEF Follows

LEMMA StatesInLean ==
    ASSUME NEW cs \in Seq(Content), cs # <<>>
    PROVE  \A i \in 0..Len(cs) : States(LeanTrace(cs))[i] = States(cs)[i]
  <1> DEFINE n == Len(cs)
             tr == LeanTrace(cs)
             Same == {m \in 1..(n + 1) : States(tr)[m - 1] = States(cs)[m - 1]}
  <1>1. n \in Nat /\ 1 \in 1..n /\ Len(tr) = n
    BY EmptySeq, LeanTraceFields
  <1>2. /\ \A i \in 1..n : tr[i].principal = cs[i].principal /\ tr[i].action = cs[i].action
                           /\ tr[i].decision = cs[i].decision
    BY LeanTraceFields
  <1> HIDE DEF n, tr
  <1>3. Follows(States(cs), n, cs) /\ Follows(States(tr), n, tr)
    BY <1>1, StatesFollow DEF n
  <1>4. 1 \in Same
    <2>1. States(tr)[0] = States(cs)[0]
      BY <1>1, <1>2, <1>3 DEF Follows
    <2>2. States(tr)[1 - 1] = States(cs)[1 - 1]
      BY <2>1
    <2> QED BY <1>1, <2>2
  <1>5. ASSUME NEW m \in 1..((n + 1) - 1), m \in Same PROVE m + 1 \in Same
    <2>1. m \in 1..n /\ m + 1 \in 1..(n + 1) /\ (m + 1) - 1 = m
      BY <1>1
    <2>2. States(tr)[m - 1] = States(cs)[m - 1]
      BY <1>5
    <2>3. \A s : PostState(s, tr[m]) = PostState(s, cs[m])
      BY <2>1, <1>2 DEF PostState
    <2>4. States(tr)[m] = States(cs)[m]
      BY <2>1, <2>2, <2>3, <1>3 DEF Follows
    <2> QED BY <2>1, <2>4
  <1>6. 1..(n + 1) \subseteq Same
    <2> HIDE DEF Same
    <2> QED BY <1>1, <1>4, <1>5, IntervalInduction, SMTT(30)
  <1>7. ASSUME NEW i \in 0..n PROVE States(tr)[i] = States(cs)[i]
    <2>1. i + 1 \in Same /\ (i + 1) - 1 = i
      BY <1>1, <1>6
    <2> QED BY <2>1
  <1> QED BY <1>7 DEF n, tr

(* What Python's fold of a trace accepts keeps the state's frame valid.      *)
LEMMA SimulationKeepsFrames ==
    ASSUME NEW cs, NothingFound(cs), Simulates(cs)
    PROVE  \A i \in 0..Len(cs) : FrameValid(States(cs)[i])
  <1> DEFINE n == Len(cs)
             Kept == {m \in 1..(n + 1) : FrameValid(States(cs)[m - 1])}
  <1>1. n \in Nat /\ Follows(States(cs), n, cs)
    BY StatesFollow DEF NothingFound
  <1> HIDE DEF n
  <1>2. 1 \in Kept
    <2>1. FrameValid(States(cs)[0])
      BY <1>1 DEF Follows, InitialState, FrameValid
    <2>2. FrameValid(States(cs)[1 - 1])
      BY <2>1
    <2> QED BY <2>2, <1>1
  <1>3. ASSUME NEW m \in 1..((n + 1) - 1), m \in Kept PROVE m + 1 \in Kept
    <2> DEFINE s == States(cs)[m - 1]
               c == cs[m]
    <2>1. m \in 1..n /\ m + 1 \in 1..(n + 1) /\ (m + 1) - 1 = m
      BY <1>1
    <2>2. FrameValid(s)
      BY <1>3
    <2>3. c.decision \in {"allow", "deny"}
      BY <2>1, ContentFields DEF NothingFound, n
    <2>4. c.decision = "allow" =>
             s.tenant = c.principal.tenant /\ ActionWithinTenant(c.principal, c.action)
      BY <2>1 DEF Simulates, ActionAdmissibleD, n
    <2>5. States(cs)[m] = PostState(s, c)
      BY <2>1, <1>1 DEF Follows
    <2> HIDE DEF s, c
    <2>6. FrameValid(PostState(s, c))
      BY <2>2, <2>3, <2>4 DEF PostState, FrameValid, ActionWithinTenant
    <2> QED BY <2>1, <2>5, <2>6
  <1>4. 1..(n + 1) \subseteq Kept
    <2> HIDE DEF Kept
    <2> QED BY <1>1, <1>2, <1>3, IntervalInduction
  <1>5. ASSUME NEW i \in 0..n PROVE FrameValid(States(cs)[i])
    <2>1. i + 1 \in Kept /\ (i + 1) - 1 = i
      BY <1>1, <1>4
    <2> QED BY <2>1
  <1> QED BY <1>5 DEF n

(* Each event's step, as Lean has it, and the frames around it.              *)
LEMMA StepsInLean ==
    ASSUME NEW cs, NothingFound(cs), Simulates(cs)
    PROVE  /\ FrameValid(States(LeanTrace(cs))[0])
           /\ \A i \in 1..Len(cs) :
                 /\ StepApplies(States(LeanTrace(cs))[i - 1], LeanTrace(cs)[i])
                 /\ FrameValid(States(LeanTrace(cs))[i])
                 /\ States(LeanTrace(cs))[i]
                        = PostState(States(LeanTrace(cs))[i - 1], LeanTrace(cs)[i])
  <1> DEFINE n == Len(cs)
             tr == LeanTrace(cs)
  <1>1. cs \in Seq(Content) /\ cs # <<>> /\ n \in Nat /\ Len(tr) = n
    BY LeanTraceFields DEF NothingFound, Simulates
  <1>2. \A i \in 0..n : States(tr)[i] = States(cs)[i] /\ FrameValid(States(tr)[i])
    BY <1>1, StatesInLean, SimulationKeepsFrames
  <1>3. Follows(States(tr), n, tr)
    BY <1>1, StatesFollow
  <1>4. ASSUME NEW i \in 1..n PROVE StepApplies(States(tr)[i - 1], tr[i])
    <2>1. tr[i].principal = cs[i].principal /\ tr[i].action = cs[i].action
          /\ tr[i].decision = cs[i].decision
      BY <1>1, LeanTraceFields
    <2>2. EventSafe(tr[i])
      BY SafeInLean
    <2>3. cs[i].decision = "allow" => States(cs)[i - 1].tenant = cs[i].principal.tenant
      BY DEF Simulates
    <2>4. States(tr)[i - 1] = States(cs)[i - 1]
      BY <1>1, <1>2
    <2> QED BY <2>1, <2>2, <2>3, <2>4 DEF StepApplies, EventSafe
  <1>5. 0 \in 0..n /\ \A i \in 1..n : i \in 0..n
    BY <1>1
  <1> HIDE DEF tr, n
  <1>6. \A i \in 1..n : States(tr)[i] = PostState(States(tr)[i - 1], tr[i])
    BY <1>3 DEF Follows
  <1> QED BY <1>2, <1>4, <1>5, <1>6 DEF tr, n

LEMMA TransitionTheoremsHold ==
    ASSUME NEW cs, NothingFound(cs), Simulates(cs)
    PROVE  All(TransitionTheorems(LeanTrace(cs)))
  <1> DEFINE tr == LeanTrace(cs)
  <1>1. Len(tr) = Len(cs)
    BY LeanTraceFields DEF NothingFound
  <1> SUFFICES ASSUME NEW t \in TransitionTheorems(tr) PROVE t.holds
    BY DEF All
  <1>2. CASE t = T(<<"frame_valid_initial">>, FrameValid(States(tr)[0]))
    BY <1>2, StepsInLean DEF T
  <1>3. CASE \E i \in 1..Len(tr) : \E kind \in TransitionKinds(tr[i]) :
                t = T(<<kind, Ident(tr[i])>>, Transition(kind, States(tr)[i - 1], tr[i]))
    <2>1. PICK i \in 1..Len(tr) : \E kind \in TransitionKinds(tr[i]) :
                t = T(<<kind, Ident(tr[i])>>, Transition(kind, States(tr)[i - 1], tr[i]))
      BY <1>3
    <2>2. PICK kind \in TransitionKinds(tr[i]) :
                t = T(<<kind, Ident(tr[i])>>, Transition(kind, States(tr)[i - 1], tr[i]))
      BY <2>1
    <2> DEFINE s == States(tr)[i - 1]
               c == tr[i]
    <2>3. StepApplies(s, c) /\ FrameValid(PostState(s, c))
      <3>1. i \in 1..Len(cs)
        BY <1>1
      <3>2. FrameValid(States(tr)[i]) /\ States(tr)[i] = PostState(s, c) /\ StepApplies(s, c)
        BY <3>1, StepsInLean
      <3> QED BY <3>2
    <2>4. kind \in TransitionKinds(c)
      OBVIOUS
    <2> HIDE DEF s, c
    <2>5. Transition(kind, s, c)
      <3>1. CASE kind = "step_state_applies"
        BY <2>3, <3>1 DEF Transition
      <3>2. CASE kind = "frame_valid_after"
        BY <2>3, <3>2 DEF Transition
      <3>3. CASE c.decision = "deny" /\ kind = "deny_identity"
        BY <3>3 DEF Transition, PostState
      <3>4. CASE c.decision # "deny" /\ kind \in Updates
        BY <3>4 DEF Transition, PostState, Updates
      <3> QED BY <2>4, <3>1, <3>2, <3>3, <3>4 DEF TransitionKinds
    <2> QED BY <2>2, <2>5 DEF T, s, c
  <1> QED BY <1>2, <1>3 DEF TransitionTheorems

LEMMA CompositionTheoremsHold ==
    ASSUME NEW cs, NothingFound(cs), Simulates(cs)
    PROVE  All(CompositionTheorems(LeanTrace(cs)))
  <1> DEFINE tr == LeanTrace(cs)
             n == Len(tr)
  <1>1. Len(tr) = Len(cs) /\ n \in Nat
    BY LeanTraceFields DEF NothingFound
  <1>2. ASSUME NEW i \in 1..n PROVE TraceSafe(SubSeq(tr, 1, i))
    <2> DEFINE S == {tr[j] : j \in 1..n}
    <2>1. i \in Int /\ 1 \in Int /\ \A j \in 1..i : tr[j] \in S /\ j \in 1..n
      BY <1>1
    <2> HIDE DEF S, tr, n
    <2>2. /\ Len(SubSeq(tr, 1, i)) = IF 1 <= i THEN i - 1 + 1 ELSE 0
          /\ \A j \in 1..(i - 1 + 1) : SubSeq(tr, 1, i)[j] = tr[1 + j - 1]
      BY <2>1, SubSeqProperties
    <2>3. Len(SubSeq(tr, 1, i)) = i /\ \A j \in 1..i : SubSeq(tr, 1, i)[j] = tr[j]
      BY <2>1, <2>2, <1>1
    <2>4. \A j \in 1..n : EventSafe(tr[j])
      BY <1>1, SafeInLean DEF tr, n
    <2> QED BY <2>1, <2>3, <2>4 DEF TraceSafe
  <1>3. \A i \in 1..n : StepApplies(States(tr)[i - 1], tr[i]) /\ FrameValid(States(tr)[i])
    BY <1>1, StepsInLean
  <1>4. FrameValid(States(tr)[0])
    BY StepsInLean
  <1> HIDE DEF tr, n
  <1>5. All(CompositionTheorems(tr))
    BY <1>2, <1>3, <1>4 DEF CompositionTheorems, All, T, n
  <1> QED BY <1>5 DEF tr

-----------------------------------------------------------------------------
(* The theorems a mode adds.                                                 *)
LEMMA ScopeTheoremsHold ==
    ASSUME NEW cs, NothingFound(cs)
    PROVE  All(ScopeTheorems(LeanTrace(cs)))
              <=> \A i \in Allowed(cs) : WithinCatalogPattern(cs[i])
  <1> DEFINE tr == LeanTrace(cs)
  <1>1. Len(tr) = Len(cs) /\ TraceSafe(tr)
    BY LeanTraceFields, SafeInLean DEF NothingFound
  <1>2. \A i \in 1..Len(cs) : tr[i].action = cs[i].action /\ tr[i].decision = cs[i].decision
    BY LeanTraceFields DEF NothingFound
  <1> HIDE DEF tr
  <1>3. Allowed(tr) = Allowed(cs) /\ Allowed(cs) \subseteq 1..Len(cs)
    BY <1>1, <1>2 DEF Allowed
  <1>4. \A i \in Allowed(cs) : WithinCatalogPattern(tr[i]) <=> WithinCatalogPattern(cs[i])
    BY <1>2, <1>3 DEF WithinCatalogPattern
  <1>5. TraceSafeR(tr) <=> \A i \in Allowed(cs) : WithinCatalogPattern(cs[i])
    BY <1>1, <1>3, <1>4 DEF TraceSafeR
  <1>6. ASSUME All(ScopeTheorems(tr)) PROVE TraceSafeR(tr)
    <2>1. T(<<"concrete_trace_safe_r">>, TraceSafeR(tr)) \in ScopeTheorems(tr)
      BY DEF ScopeTheorems, ScopedNames
    <2> QED BY <1>6, <2>1 DEF All, T
  <1>7. ASSUME TraceSafeR(tr), NEW t \in ScopeTheorems(tr) PROVE t.holds
    <2>1. CASE \E name \in ScopedNames : t = T(name, TraceSafeR(tr))
      BY <1>7, <2>1 DEF T
    <2>2. CASE \E i \in Allowed(tr) :
                  t = T(<<"concrete_action_resource_scope", Ident(tr[i])>>,
                        WithinCatalogPattern(tr[i]))
      BY <1>7, <2>2 DEF T, TraceSafeR
    <2> QED BY <1>7, <2>1, <2>2 DEF ScopeTheorems
  <1>8. All(ScopeTheorems(tr)) <=> \A i \in Allowed(cs) : WithinCatalogPattern(cs[i])
    BY <1>5, <1>6, <1>7 DEF All
  <1> QED BY <1>8 DEF tr

LEMMA EffectFrameTheoremsHold ==
    ASSUME NEW cs, NothingFound(cs), NEW s,
           \A i \in 1..Len(cs) : cs[i].action.effects \subseteq s.frame
    PROVE  All(EffectFrameTheorems(LeanTrace(cs), s))
  <1>1. Len(LeanTrace(cs)) = Len(cs)
    BY LeanTraceFields DEF NothingFound
  <1>2. \A i \in 1..Len(cs) : LeanTrace(cs)[i].action = cs[i].action
    BY LeanTraceFields DEF NothingFound
  <1>3. ASSUME NEW t \in EffectFrameTheorems(LeanTrace(cs), s) PROVE t.holds
    <2>1. PICK i \in 1..Len(cs) :
             t = T(<<"concrete_action_effects_in_frame", Ident(LeanTrace(cs)[i])>>,
                   LeanTrace(cs)[i].action.effects \subseteq s.frame)
      BY <1>1, <1>3 DEF EffectFrameTheorems
    <2> QED BY <2>1, <1>2 DEF T
  <1> QED BY <1>3 DEF All

LEMMA ModeTheoremsHold ==
    ASSUME NEW cs, NothingFound(cs), NEW s, NEW mode \in Modes, Prerequisites(mode, cs, s),
           All(HandoffTheorems(s)), All(ContractTheorems(LeanTrace(cs), s))
    PROVE  All(ModeTheorems(mode, LeanTrace(cs), s))
              <=> (mode = Scoped => \A i \in Allowed(cs) : WithinCatalogPattern(cs[i]))
  <1> USE DEF Base, Scoped, Framed, EffectFramed, HandedOff, Composed, Contracted
  <1>1. CASE mode = Base
    BY <1>1 DEF ModeTheorems, All
  <1>2. CASE mode = Scoped
    BY <1>2, ScopeTheoremsHold DEF ModeTheorems
  <1>3. CASE mode = Framed
    BY <1>3, TransitionTheoremsHold DEF ModeTheorems, Prerequisites
  <1>4. CASE mode = EffectFramed
    BY <1>4, EffectFrameTheoremsHold DEF ModeTheorems, Prerequisites
  <1>5. CASE mode = HandedOff
    BY <1>5 DEF ModeTheorems
  <1>6. CASE mode = Composed
    <2>1. All(CompositionTheorems(LeanTrace(cs)))
      BY <1>6, CompositionTheoremsHold DEF Prerequisites
    <2> QED BY <1>6, <2>1 DEF ModeTheorems, All
  <1>7. CASE mode = Contracted
    BY <1>7 DEF ModeTheorems
  <1> QED BY <1>1, <1>2, <1>3, <1>4, <1>5, <1>6, <1>7 DEF Modes

LEMMA GeneratedTheoremsHold ==
    ASSUME NEW cs, NothingFound(cs), NEW s, NEW mode
    PROVE  All(GeneratedTheorems(mode, cs, s))
              <=> /\ All(HandoffTheorems(s)) /\ All(ContractTheorems(LeanTrace(cs), s))
                  /\ All(ModeTheorems(mode, LeanTrace(cs), s))
  <1> DEFINE tr == LeanTrace(cs)
             proper == ModeTheorems(mode, tr, s)
             aggregate == {T(name, All(proper)) : name \in Aggregate(mode)}
  <1>1. All(EventTheorems(tr)) /\ All(TraceTheorems(tr)) /\ TraceSafe(tr)
    BY EventTheoremsHold, SafeInLean
  <1>2. GeneratedTheorems(mode, cs, s) =
            EventTheorems(tr) \cup TraceTheorems(tr) \cup HandoffTheorems(s)
            \cup ContractTheorems(tr, s) \cup proper \cup aggregate \cup {Witness(tr, proper)}
    BY DEF GeneratedTheorems
  <1> HIDE DEF tr, proper
  <1>3. All(proper) => All(aggregate) /\ Witness(tr, proper).holds
    <2> SUFFICES ASSUME All(proper) PROVE All(aggregate) /\ Witness(tr, proper).holds
      OBVIOUS
    <2>1. ASSUME NEW t \in aggregate PROVE t.holds
      BY <2>1 DEF T
    <2>2. Witness(tr, proper).holds
      BY <1>1 DEF Witness, T
    <2> QED BY <2>1, <2>2 DEF All
  <1> HIDE DEF aggregate
  <1>4. All(GeneratedTheorems(mode, cs, s))
            <=> All(HandoffTheorems(s)) /\ All(ContractTheorems(tr, s)) /\ All(proper)
    BY <1>1, <1>2, <1>3 DEF All
  <1> QED BY <1>4 DEF tr, proper

(* Every name that the mode must hold is generated.                          *)
LEMMA RequiredAreGenerated ==
    ASSUME NEW cs, NothingFound(cs), NEW s, NEW mode
    PROVE  RequiredTheorems(mode, cs) \subseteq Names(GeneratedTheorems(mode, cs, s))
  <1> USE DEF Base, Scoped, Framed, EffectFramed, HandedOff, Composed, Contracted
  <1> DEFINE tr == LeanTrace(cs)
             proper == ModeTheorems(mode, tr, s)
             G == GeneratedTheorems(mode, cs, s)
  <1>1. Len(tr) = Len(cs)
    BY LeanTraceFields DEF NothingFound
  <1>2. ASSUME NEW i \in 1..Len(cs)
        PROVE  Ident(tr[i]) = Ident(cs[i]) /\ tr[i].decision = cs[i].decision
    BY LeanTraceFields DEF NothingFound, Ident
  <1>3. \A t : t \in G => t.name \in Names(G)
    BY DEF Names
  <1>4. /\ TraceTheorems(tr) \subseteq G /\ proper \subseteq G /\ Witness(tr, proper) \in G
        /\ {T(name, All(proper)) : name \in Aggregate(mode)} \subseteq G
    BY DEF GeneratedTheorems
  <1> HIDE DEF G
  <1>5. ASSUME NEW name \in BaseNames PROVE name \in Names(G)
    <2>1. T(name, TraceSafe(tr)) \in TraceTheorems(tr)
      BY DEF TraceTheorems
    <2> QED BY <2>1, <1>3, <1>4 DEF T
  <1>6. ASSUME NEW name \in Aggregate(mode) PROVE name \in Names(G)
    <2>1. T(name, All(proper)) \in G
      BY <1>4
    <2> QED BY <2>1, <1>3 DEF T
  <1>7. <<"concrete_certificate_mode_witness">> \in Names(G)
    <2>1. Witness(tr, proper).name = <<"concrete_certificate_mode_witness">>
      BY DEF Witness, T
    <2> QED BY <2>1, <1>3, <1>4
  <1>8. ASSUME mode = Scoped
        PROVE  /\ ScopedNames \subseteq Names(G)
               /\ \A i \in Allowed(cs) :
                     <<"concrete_action_resource_scope", Ident(cs[i])>> \in Names(G)
    <2>1. proper = ScopeTheorems(tr)
      BY <1>8 DEF ModeTheorems
    <2>2. ASSUME NEW name \in ScopedNames PROVE name \in Names(G)
      <3>1. T(name, TraceSafeR(tr)) \in proper
        BY <2>1 DEF ScopeTheorems
      <3> QED BY <3>1, <1>3, <1>4 DEF T
    <2>3. ASSUME NEW i \in Allowed(cs)
          PROVE  <<"concrete_action_resource_scope", Ident(cs[i])>> \in Names(G)
      <3>1. i \in 1..Len(cs) /\ i \in Allowed(tr)
        BY <1>1, <1>2 DEF Allowed
      <3>2. T(<<"concrete_action_resource_scope", Ident(tr[i])>>, WithinCatalogPattern(tr[i]))
                \in proper
        BY <2>1, <3>1 DEF ScopeTheorems
      <3>3. <<"concrete_action_resource_scope", Ident(tr[i])>> \in Names(G)
        BY <3>2, <1>3, <1>4 DEF T
      <3> QED BY <3>1, <3>3, <1>2
    <2> QED BY <2>2, <2>3
  <1>9. ASSUME mode = Composed PROVE <<"compositional_frame_valid_initial">> \in Names(G)
    <2>1. CompositionTheorems(tr) \subseteq proper
      BY <1>9 DEF ModeTheorems
    <2>2. T(<<"compositional_frame_valid_initial">>, FrameValid(States(tr)[0]))
              \in CompositionTheorems(tr)
      BY DEF CompositionTheorems
    <2> QED BY <2>1, <2>2, <1>3, <1>4 DEF T
  <1>10. ASSUME mode = Framed
         PROVE  /\ <<"frame_valid_initial">> \in Names(G)
                /\ \A i \in 1..Len(cs) : \A kind \in TransitionKinds(cs[i]) :
                      <<kind, Ident(cs[i])>> \in Names(G)
    <2>1. proper = TransitionTheorems(tr)
      BY <1>10 DEF ModeTheorems
    <2>2. T(<<"frame_valid_initial">>, FrameValid(States(tr)[0])) \in proper
      BY <2>1 DEF TransitionTheorems
    <2>3. <<"frame_valid_initial">> \in Names(G)
      BY <2>2, <1>3, <1>4 DEF T
    <2>4. ASSUME NEW i \in 1..Len(cs), NEW kind \in TransitionKinds(cs[i])
          PROVE  <<kind, Ident(cs[i])>> \in Names(G)
      <3>1. kind \in TransitionKinds(tr[i]) /\ i \in 1..Len(tr)
        BY <1>1, <1>2 DEF TransitionKinds
      <3> DEFINE of(j) == {T(<<k, Ident(tr[j])>>, Transition(k, States(tr)[j - 1], tr[j])) :
                              k \in TransitionKinds(tr[j])}
      <3>4. UNION {of(j) : j \in 1..Len(tr)} \subseteq proper
        BY <2>1 DEF TransitionTheorems
      <3>5. T(<<kind, Ident(tr[i])>>, Transition(kind, States(tr)[i - 1], tr[i])) \in of(i)
        BY <3>1
      <3> HIDE DEF of
      <3>2. T(<<kind, Ident(tr[i])>>, Transition(kind, States(tr)[i - 1], tr[i])) \in proper
        BY <3>1, <3>4, <3>5
      <3>3. <<kind, Ident(tr[i])>> \in Names(G)
        BY <3>2, <1>3, <1>4 DEF T
      <3> QED BY <3>3, <1>2
    <2> QED BY <2>3, <2>4
  <1> HIDE DEF tr, proper
  <1>11. RequiredTheorems(mode, cs) \subseteq Names(G)
    BY <1>5, <1>6, <1>7, <1>8, <1>9, <1>10 DEF RequiredTheorems
  <1> QED BY <1>11 DEF G

(* Of a trace in which Python finds nothing, in a mode whose prerequisites   *)
(* it finds met, every name the mode needs is generated, and Lean accepts    *)
(* the module unless two names became one, a pattern in the file is not the  *)
(* catalog's (in the scoped mode), a handoff is unsafe, or a contract is not *)
(* met by every event; nothing else can go wrong between Python and Lean.    *)
THEOREM NothingFoundIsProvable ==
    ASSUME NEW t, NEW cs, NothingFound(cs), NEW s, NEW mode \in Modes, Prerequisites(mode, cs, s)
    PROVE  /\ RequiredTheorems(mode, cs) \subseteq Names(GeneratedTheorems(mode, cs, s))
           /\ LeanAccepts(t, cs, s, GeneratedTheorems(mode, cs, s))
                 <=> /\ DistinctNames(t, cs, s)
                     /\ mode = Scoped => \A i \in Allowed(cs) : WithinCatalogPattern(cs[i])
                     /\ \A h \in s.handoffs : HandoffSafe(h.handoff)
                     /\ \A n \in Named(cs, s) : TraceSatisfies(cs, s.contracts[n[2]])
  <1>1. All(HandoffTheorems(s)) <=> \A h \in s.handoffs : HandoffSafe(h.handoff)
    BY HandoffTheoremsHold
  <1>2. All(ContractTheorems(LeanTrace(cs), s))
           <=> \A n \in Named(cs, s) : TraceSatisfies(cs, s.contracts[n[2]])
    BY ContractTheoremsHold
  <1>3. All(GeneratedTheorems(mode, cs, s))
           <=> /\ All(HandoffTheorems(s)) /\ All(ContractTheorems(LeanTrace(cs), s))
               /\ All(ModeTheorems(mode, LeanTrace(cs), s))
    BY GeneratedTheoremsHold
  <1>4. All(HandoffTheorems(s)) /\ All(ContractTheorems(LeanTrace(cs), s)) =>
           (All(ModeTheorems(mode, LeanTrace(cs), s))
              <=> (mode = Scoped => \A i \in Allowed(cs) : WithinCatalogPattern(cs[i])))
    BY ModeTheoremsHold
  <1> QED BY <1>1, <1>2, <1>3, <1>4, RequiredAreGenerated DEF LeanAccepts

-----------------------------------------------------------------------------
(* The obligations that Python fills in pass on a trace without issues.      *)
LEMMA ObligationsPass ==
    ASSUME NEW cs, NothingFound(cs), NEW o \in DeciderObligations(cs)
    PROVE  o.passed
  <1> USE DEF Obligation
  <1>1. /\ \A i \in 1..Len(cs) : EventSafeD(cs[i]) /\ EventSafeRD(cs[i]) /\ InPattern(cs[i])
        /\ \A i \in 1..Len(cs) : cs[i].decision \in {"allow", "deny"}
    BY ContentFields DEF NothingFound, EventSafeRD
  <1>2. TenantIsolationD(cs) /\ TraceCrossTenantSafe(cs)
    BY <1>1 DEF TenantIsolationD, TraceCrossTenantSafe, EventSafeD, ActionAdmissibleD
  <1>3. \A low, high \in TenantsOf(cs) : NonInterferenceD(cs, low, high)
    BY DEF NonInterferenceD, LowEvent
  <1>4. CASE o \in {Obligation("TraceSafeDeciderSound", <<>>, \A i \in 1..Len(cs) : EventSafeD(cs[i])),
                    Obligation("TraceSafeRDeciderSound", <<>>, \A i \in 1..Len(cs) : EventSafeRD(cs[i])),
                    Obligation("TenantIsolationD", <<>>, TenantIsolationD(cs)),
                    Obligation("TraceCrossTenantSafeD", <<>>, TraceCrossTenantSafe(cs))}
    BY <1>1, <1>2, <1>4
  <1>5. CASE \E low, high \in TenantsOf(cs) :
                o = Obligation("NonInterferenceD", <<low, high>>, NonInterferenceD(cs, low, high))
    BY <1>3, <1>5
  <1>6. CASE \E i \in 1..Len(cs) : o = Obligation("EventSafeDeciderSound", <<i>>, EventSafeD(cs[i]))
    BY <1>1, <1>6
  <1>7. CASE \E i \in 1..Len(cs) :
                o = Obligation("ActionResourcesWithinCapabilityPattern", <<i>>, InPattern(cs[i]))
    BY <1>1, <1>7
  <1> QED BY <1>4, <1>5, <1>6, <1>7 DEF DeciderObligations

-----------------------------------------------------------------------------
(* Sorting: the sorted batch has the observations of the batch and no other. *)
LEMMA SortedIsPermutation ==
    ASSUME NEW b \in Seq(Observation)
    PROVE  /\ Sorted(b) \in Seq(Observation) /\ Len(Sorted(b)) = Len(b)
           /\ \A k \in 1..Len(b) : \E j \in 1..Len(b) : Sorted(b)[k] = b[j]
           /\ \A j \in 1..Len(b) : \E k \in 1..Len(b) : Sorted(b)[k] = b[j]
  <1> DEFINE keys == [i \in 1..Len(b) |-> b[i].content.sequence]
  <1>1. \A i \in 1..Len(b) : keys[i] \in Int
    <2>1. \A i \in 1..Len(b) : b[i] \in Observation
      OBVIOUS
    <2> QED BY <2>1 DEF Observation, Content, Numbers
  <1>2. Sorted(b) = Arranged(b, keys, 1..Len(b))
    BY DEF Sorted
  <1> HIDE DEF keys
  <1> DEFINE s == Arranged(b, keys, 1..Len(b))
  <1>3. /\ s \in Seq(Observation) /\ Len(s) = Len(b)
        /\ \A k \in 1..Len(b) : \E j \in 1..Len(b) : s[k] = b[j]
        /\ \A j \in 1..Len(b) : \E k \in 1..Len(b) : s[k] = b[j]
    BY <1>1, SortedKeepsAll
  <1>4. s = Sorted(b)
    BY <1>2
  <1> HIDE DEF s
  <1> QED BY <1>3, <1>4

-----------------------------------------------------------------------------
(* Sealing: what is sealed up to an event is what was sealed before it and   *)
(* the event's content.                                                      *)
LEMMA PrefixAppend ==
    ASSUME NEW cs \in Seq(Content), NEW i \in 1..Len(cs)
    PROVE  /\ SubSeq(cs, 1, i - 1) \in Seq(Content)
           /\ SubSeq(cs, 1, i) \in Seq(Content)
           /\ Append(SubSeq(cs, 1, i - 1), cs[i]) = SubSeq(cs, 1, i)
  <1>1. /\ Len(cs) \in Nat /\ i \in Nat /\ 1 \in 1..Len(cs) /\ cs[i] \in Content
        /\ \A j \in 1..Len(cs) : cs[j] \in Content
    OBVIOUS
  <1>2. SubSeq(cs, 1, i - 1) \in Seq(Content) /\ SubSeq(cs, 1, i) \in Seq(Content)
    <2>1. 1 \in Int /\ i \in Int /\ i - 1 \in Int
      BY <1>1
    <2>2. \A j \in 1..(i - 1) : cs[j] \in Content
      BY <1>1
    <2>3. \A j \in 1..i : cs[j] \in Content
      BY <1>1
    <2> QED BY <2>1, <2>2, <2>3, SubSeqProperties
  <1>3. SubSeq(cs, 1, i) = SubSeq(cs, 1, i - 1) \o <<cs[i]>>
    BY <1>1, SubSeqRecursiveSecond
  <1>4. Append(SubSeq(cs, 1, i - 1), cs[i]) = SubSeq(cs, 1, i - 1) \o <<cs[i]>>
    BY <1>1, <1>2, AppendIsConcat
  <1> QED BY <1>2, <1>3, <1>4

LEMMA SealOf ==
    ASSUME NEW c \in Content, NEW previous \in Seq(Content)
    PROVE  Seal(c, previous) \in SealedEvent
  <1>1. Append(previous, c) \in Seq(Content)
    BY AppendProperties
  <1> QED BY <1>1 DEF Seal, SealedEvent, Hash

LEMMA SealAllEvents ==
    ASSUME NEW cs \in Seq(Content)
    PROVE  /\ SealAll(cs) \in Seq(SealedEvent) /\ Len(SealAll(cs)) = Len(cs)
           /\ SealedFile(cs) \in File
           /\ \A i \in 1..Len(cs) :
                 SealAll(cs)[i] = [content |-> cs[i], previous |-> SubSeq(cs, 1, i - 1),
                                   hash |-> SubSeq(cs, 1, i), signature |-> SubSeq(cs, 1, i)]
  <1>1. ASSUME NEW i \in 1..Len(cs)
        PROVE  /\ Seal(cs[i], SubSeq(cs, 1, i - 1)) \in SealedEvent
               /\ Seal(cs[i], SubSeq(cs, 1, i - 1))
                      = [content |-> cs[i], previous |-> SubSeq(cs, 1, i - 1),
                         hash |-> SubSeq(cs, 1, i), signature |-> SubSeq(cs, 1, i)]
    <2>1. cs[i] \in Content
      OBVIOUS
    <2>2. Seal(cs[i], SubSeq(cs, 1, i - 1)) \in SealedEvent
      BY <2>1, PrefixAppend, SealOf
    <2> QED BY <2>2, PrefixAppend DEF Seal
  <1>2. SealAll(cs) = [i \in 1..Len(cs) |-> Seal(cs[i], SubSeq(cs, 1, i - 1))]
    BY DEF SealAll
  <1>3. SealAll(cs) \in Seq(SealedEvent) /\ Len(SealAll(cs)) = Len(cs)
    <2> DEFINE sealed(i) == Seal(cs[i], SubSeq(cs, 1, i - 1))
    <2>1. \A i \in 1..Len(cs) : sealed(i) \in SealedEvent
      BY <1>1
    <2>2. SealAll(cs) = [i \in 1..Len(cs) |-> sealed(i)] /\ Len(cs) \in Nat
      BY <1>2
    <2> HIDE DEF sealed
    <2> QED BY <2>1, <2>2
  <1>4. SealedFile(cs) \in File
    BY <1>3 DEF SealedFile, File
  <1> QED BY <1>1, <1>2, <1>3, <1>4

LEMMA ContentsOfFile ==
    ASSUME NEW f \in File
    PROVE  /\ Contents(f) \in Seq(Content) /\ Len(Contents(f)) = Len(f.events)
           /\ \A i \in 1..Len(f.events) : Contents(f)[i] = f.events[i].content
           /\ \A i \in 1..Len(f.events) : f.events[i] \in SealedEvent
  <1>1. f.events \in Seq(SealedEvent) /\ Len(f.events) \in Nat
    BY DEF File
  <1>2. \A i \in 1..Len(f.events) : f.events[i] \in SealedEvent /\ f.events[i].content \in Content
    <2>1. \A i \in 1..Len(f.events) : f.events[i] \in SealedEvent
      BY <1>1
    <2> QED BY <2>1 DEF SealedEvent
  <1> QED BY <1>1, <1>2 DEF Contents

(* A file whose chain is valid holds in each hash the contents up to there.  *)
LEMMA ChainHoldsContents ==
    ASSUME NEW f \in File, HashesValid(f)
    PROVE  \A i \in 1..Len(f.events) :
              /\ f.events[i].hash = SubSeq(Contents(f), 1, i)
              /\ f.events[i].previous = SubSeq(Contents(f), 1, i - 1)
  <1> DEFINE n == Len(f.events)
             cs == Contents(f)
             Held == {i \in 1..n : f.events[i].hash = SubSeq(cs, 1, i)
                                   /\ f.events[i].previous = SubSeq(cs, 1, i - 1)}
  <1>1. n \in Nat /\ cs \in Seq(Content) /\ Len(cs) = n
    BY ContentsOfFile DEF File
  <1>2. \A i \in 1..n :
           /\ f.events[i].previous = IF i = 1 THEN Genesis ELSE f.events[i - 1].hash
           /\ f.events[i].hash = Append(f.events[i].previous, cs[i])
    BY ContentsOfFile DEF HashesValid, EventHash
  <1> HIDE DEF cs, n
  <1>3. ASSUME NEW i \in 1..n, f.events[i].previous = SubSeq(cs, 1, i - 1) PROVE i \in Held
    <2>1. Append(SubSeq(cs, 1, i - 1), cs[i]) = SubSeq(cs, 1, i)
      BY <1>1, PrefixAppend
    <2> QED BY <2>1, <1>2, <1>3
  <1>4. ASSUME n > 0 PROVE 1 \in Held
    <2>1. 1 \in 1..n
      BY <1>1, <1>4
    <2>2. SubSeq(cs, 1, 0) = <<>>
      BY SubSeqEmpty
    <2>3. SubSeq(cs, 1, 1 - 1) = <<>>
      BY <2>2
    <2> QED BY <2>1, <2>3, <1>2, <1>3 DEF Genesis
  <1>5. ASSUME NEW i \in 1..(n - 1), i \in Held PROVE i + 1 \in Held
    <2>1. i + 1 \in 1..n /\ i + 1 # 1 /\ (i + 1) - 1 = i
      BY <1>1
    <2>2. f.events[i + 1].previous = SubSeq(cs, 1, i)
      BY <2>1, <1>2, <1>5
    <2> QED BY <2>1, <2>2, <1>3
  <1>6. 1..n \subseteq Held
    <2> HIDE DEF Held
    <2>1. CASE n = 0
      BY <2>1
    <2>2. CASE n > 0
      BY <2>2, <1>1, <1>4, <1>5, IntervalInduction
    <2> QED BY <2>1, <2>2, <1>1
  <1> QED BY <1>6 DEF n, cs

(* Validation, which follows the stored hashes, and replay, which computes   *)
(* them anew, find the same files in order, apart from signatures.           *)
LEMMA ReplayIsValidation ==
    ASSUME NEW f \in File
    PROVE  ReplayMatches(f) <=>
              /\ HashesValid(f)
              /\ \A i \in 1..Len(f.events) : f.events[i].signature = f.events[i].hash
  <1> DEFINE cs == Contents(f)
  <1>1. /\ cs \in Seq(Content) /\ Len(cs) = Len(f.events) /\ Len(cs) \in Nat
        /\ f.events \in Seq(SealedEvent)
        /\ \A i \in 1..Len(cs) : cs[i] = f.events[i].content /\ f.events[i] \in SealedEvent
    BY ContentsOfFile DEF File
  <1>2. /\ SealAll(cs) \in Seq(SealedEvent) /\ Len(SealAll(cs)) = Len(cs)
        /\ \A i \in 1..Len(cs) :
              SealAll(cs)[i] = [content |-> cs[i], previous |-> SubSeq(cs, 1, i - 1),
                                hash |-> SubSeq(cs, 1, i), signature |-> SubSeq(cs, 1, i)]
    BY <1>1, SealAllEvents
  <1> HIDE DEF cs
  <1>3. ASSUME ReplayMatches(f)
        PROVE  /\ HashesValid(f)
               /\ \A i \in 1..Len(f.events) : f.events[i].signature = f.events[i].hash
    <2>1. f.events = SealAll(cs) /\ f.traceHash = f.events
      BY <1>3 DEF ReplayMatches, cs
    <2>2. \A i \in 1..Len(f.events) :
             /\ f.events[i].content = cs[i] /\ f.events[i].previous = SubSeq(cs, 1, i - 1)
             /\ f.events[i].hash = SubSeq(cs, 1, i) /\ f.events[i].signature = SubSeq(cs, 1, i)
      <3>1. \A i \in 1..Len(cs) :
               f.events[i] = [content |-> cs[i], previous |-> SubSeq(cs, 1, i - 1),
                              hash |-> SubSeq(cs, 1, i), signature |-> SubSeq(cs, 1, i)]
        BY <2>1, <1>2
      <3>2. Len(f.events) = Len(cs)
        BY <1>1
      <3> SUFFICES ASSUME NEW i \in 1..Len(cs)
                   PROVE  /\ f.events[i].content = cs[i]
                          /\ f.events[i].previous = SubSeq(cs, 1, i - 1)
                          /\ f.events[i].hash = SubSeq(cs, 1, i)
                          /\ f.events[i].signature = SubSeq(cs, 1, i)
        BY <3>2
      <3>3. f.events[i] = [content |-> cs[i], previous |-> SubSeq(cs, 1, i - 1),
                           hash |-> SubSeq(cs, 1, i), signature |-> SubSeq(cs, 1, i)]
        BY <3>1
      <3> QED BY <3>3
    <2>3. ASSUME NEW i \in 1..Len(f.events)
          PROVE  /\ f.events[i].previous = IF i = 1 THEN Genesis ELSE f.events[i - 1].hash
                 /\ f.events[i].hash = EventHash(f.events[i])
      <3>1. f.events[i].hash = EventHash(f.events[i])
        <4>1. i \in 1..Len(cs)
          BY <1>1
        <4>2. Append(SubSeq(cs, 1, i - 1), cs[i]) = SubSeq(cs, 1, i)
          BY <4>1, <1>1, PrefixAppend
        <4> QED BY <4>2, <2>2 DEF EventHash
      <3>2. CASE i = 1
        <4>1. SubSeq(cs, 1, 0) = <<>>
          BY SubSeqEmpty
        <4>2. SubSeq(cs, 1, 1 - 1) = <<>>
          BY <4>1
        <4> QED BY <3>1, <3>2, <4>2, <2>2 DEF Genesis
      <3>3. CASE i # 1
        <4>1. i - 1 \in 1..Len(f.events)
          BY <3>3, <1>1
        <4> QED BY <4>1, <3>1, <3>3, <2>2
      <3> QED BY <3>2, <3>3
    <2> QED BY <2>1, <2>2, <2>3 DEF HashesValid
  <1>4. ASSUME HashesValid(f),
               \A i \in 1..Len(f.events) : f.events[i].signature = f.events[i].hash
        PROVE  ReplayMatches(f)
    <2>1. ASSUME NEW i \in 1..Len(cs) PROVE f.events[i] = SealAll(cs)[i]
      <3>1. /\ f.events[i].hash = SubSeq(cs, 1, i)
            /\ f.events[i].previous = SubSeq(cs, 1, i - 1)
            /\ f.events[i].signature = SubSeq(cs, 1, i) /\ f.events[i].content = cs[i]
        BY <1>4, <1>1, ChainHoldsContents DEF cs
      <3>2. f.events[i] = [content |-> f.events[i].content, previous |-> f.events[i].previous,
                           hash |-> f.events[i].hash, signature |-> f.events[i].signature]
        <4>1. f.events[i] \in SealedEvent
          BY <1>1
        <4> QED BY <4>1 DEF SealedEvent
      <3> QED BY <3>1, <3>2, <1>2
    <2>2. f.events = SealAll(cs)
      BY <2>1, <1>1, <1>2, SeqEqual
    <2>3. f.traceHash = f.events
      BY <1>4 DEF HashesValid
    <2> QED BY <2>2, <2>3 DEF ReplayMatches, cs
  <1> QED BY <1>3, <1>4

-----------------------------------------------------------------------------
(* The compiler.                                                             *)
LEMMA DecidedIsContent ==
    ASSUME NEW c \in Content, WellFormed(c.action)
    PROVE  /\ Decided(c) \in Content
           /\ Decided(c).id = c.id /\ Decided(c).sequence = c.sequence
           /\ Decided(c).action = c.action
           /\ Decided(c).principal = Expanded[c.principal]
           /\ Decided(c).pattern = Scope[c.action.capability]
           /\ Decided(c).decision = IF c.decision = "allow" /\ MayNot(c) THEN "deny" ELSE c.decision
  <1> DEFINE d == IF c.decision = "allow" /\ MayNot(c) THEN "deny" ELSE c.decision
  <1>1. c = [id |-> c.id, sequence |-> c.sequence, principal |-> c.principal,
             action |-> c.action, pattern |-> c.pattern, decision |-> c.decision]
        /\ c.id \in EventIds /\ c.sequence \in Numbers /\ c.principal \in Principals
        /\ c.action \in Actions /\ c.decision \in {"allow", "deny"}
    BY DEF Content
  <1>2. d \in {"allow", "deny"} /\ Expanded[c.principal] \in Principals
    BY <1>1, ExpandedAssumption
  <1>3. Scope[c.action.capability] \in SUBSET Resources
    BY <1>1, DeciderAssumption, ScopeAssumption DEF Action
  <1>4. Decided(c) = [id |-> c.id, sequence |-> c.sequence, principal |-> Expanded[c.principal],
                      action |-> c.action, pattern |-> Scope[c.action.capability], decision |-> d]
    <2> HIDE DEF d
    <2>1. Decided(c) = Normal(c, d)
      BY DEF Decided, d
    <2> QED BY <1>1, <2>1 DEF Normal
  <1> HIDE DEF d
  <1>5. Decided(c) \in Content
    BY <1>1, <1>2, <1>3, <1>4 DEF Content
  <1> QED BY <1>4, <1>5 DEF d

LEMMA CompiledContents ==
    ASSUME NEW b \in Seq(Observation), Valid(b)
    PROVE  /\ Compiled(b) \in Seq(Content) /\ Len(Compiled(b)) = Len(b)
           /\ \A k \in 1..Len(b) : \E j \in 1..Len(b) : Compiled(b)[k] = Decided(b[j].content)
           /\ \A j \in 1..Len(b) : \E k \in 1..Len(b) : Compiled(b)[k] = Decided(b[j].content)
  <1>1. Len(b) \in Nat /\ \A j \in 1..Len(b) : b[j].content \in Content /\ WellFormed(b[j].content.action)
    <2>1. \A j \in 1..Len(b) : b[j] \in Observation
      OBVIOUS
    <2> QED BY <2>1 DEF Observation, Valid
  <1>2. Compiled(b) = [k \in 1..Len(b) |-> Decided(Sorted(b)[k].content)]
    BY DEF Compiled
  <1>3. ASSUME NEW k \in 1..Len(b)
        PROVE  \E j \in 1..Len(b) : Compiled(b)[k] = Decided(b[j].content)
    <2>1. PICK j \in 1..Len(b) : Sorted(b)[k] = b[j]
      BY SortedIsPermutation
    <2> QED BY <2>1, <1>2
  <1>4. ASSUME NEW j \in 1..Len(b)
        PROVE  \E k \in 1..Len(b) : Compiled(b)[k] = Decided(b[j].content)
    <2>1. PICK k \in 1..Len(b) : Sorted(b)[k] = b[j]
      BY SortedIsPermutation
    <2> QED BY <2>1, <1>2
  <1>5. \A k \in 1..Len(b) : Compiled(b)[k] \in Content
    BY <1>1, <1>3, DecidedIsContent
  <1>6. Compiled(b) \in Seq(Content) /\ Len(Compiled(b)) = Len(b)
    <2> DEFINE decided(k) == Decided(Sorted(b)[k].content)
    <2>1. Compiled(b) = [k \in 1..Len(b) |-> decided(k)]
      BY <1>2
    <2> HIDE DEF decided
    <2> QED BY <2>1, <1>1, <1>5
  <1> QED BY <1>3, <1>4, <1>6

-----------------------------------------------------------------------------
(* The invariant.  A runtime numbers what it observes from 0 on; what has    *)
(* reached the caller was observed; a file exists only for a batch that      *)
(* passed the compiler's tests, and is what the compiler made of it until    *)
(* somebody changes it.                                                      *)
ObservedInv ==
    \A t \in TraceIds : \A i \in 1..Len(observed[t]) : observed[t][i].sequence = i - 1

BatchInv ==
    \A i \in 1..Len(batch) :
        \E j \in 1..Len(observed[batch[i].trace]) :
            batch[i].content = observed[batch[i].trace][j]

CompiledInv ==
    outcome = "compiled" =>
        /\ batch # <<>> /\ OneTrace(batch) /\ Valid(batch) /\ DenialsKept(batch)
        /\ file \in File
        /\ edits = 0 => file = SealedFile(Compiled(batch))

IInv == TypeOK /\ ObservedInv /\ BatchInv /\ CompiledInv

LEMMA InitIInv == Init => IInv
  <1> SUFFICES ASSUME Init PROVE IInv
    OBVIOUS
  <1>1. TypeOK
    BY BatchAssumption DEF Init, TypeOK, Outcomes
  <1>2. ObservedInv /\ BatchInv /\ CompiledInv
    BY DEF Init, ObservedInv, BatchInv, CompiledInv
  <1> QED BY <1>1, <1>2 DEF IInv

LEMMA ObserveStep ==
    ASSUME IInv, NEW a \in Attempts, Observe(a)
    PROVE  IInv'
  <1> DEFINE t == a.trace
             c == [id |-> a.id, sequence |-> Len(observed[t]), principal |-> a.principal,
                   action |-> a.action, pattern |-> a.pattern, decision |-> a.decision]
  <1>1. t \in TraceIds /\ observed[t] \in Seq(Content) /\ Len(observed[t]) \in Nat
    <2>1. a \in Attempt
      BY BatchAssumption
    <2>2. t \in TraceIds
      BY <2>1 DEF Attempt
    <2> QED BY <2>2 DEF IInv, TypeOK
  <1>2. c \in Content
    <2>1. a \in Attempt
      BY BatchAssumption
    <2> QED BY <2>1, <1>1 DEF Attempt, Content, Numbers
  <1>3. /\ observed' = [observed EXCEPT ![t] = Append(observed[t], c)]
        /\ UNCHANGED <<batch, outcome, file, edits>> /\ outcome = "none"
    BY DEF Observe
  <1>4. c.sequence = Len(observed[t])
    OBVIOUS
  <1> HIDE DEF t, c
  <1>5. /\ Append(observed[t], c) \in Seq(Content)
        /\ Len(Append(observed[t], c)) = Len(observed[t]) + 1
        /\ \A i \in 1..Len(observed[t]) : Append(observed[t], c)[i] = observed[t][i]
        /\ Append(observed[t], c)[Len(observed[t]) + 1] = c
    BY <1>1, <1>2, AppendProperties
  <1>6. TypeOK'
    BY <1>1, <1>3, <1>5 DEF IInv, TypeOK
  <1>7. ObservedInv'
    <2> SUFFICES ASSUME NEW u \in TraceIds, NEW i \in 1..Len(observed'[u])
                 PROVE  observed'[u][i].sequence = i - 1
      BY DEF ObservedInv
    <2>1. CASE u # t
      <3>1. observed'[u] = observed[u]
        BY <2>1, <1>3 DEF IInv, TypeOK
      <3> QED BY <3>1 DEF IInv, ObservedInv
    <2>2. CASE u = t
      <3>1. observed'[u] = Append(observed[t], c)
        BY <2>2, <1>1, <1>3 DEF IInv, TypeOK
      <3>2. i \in 1..Len(observed[t]) \/ i = Len(observed[t]) + 1
        BY <3>1, <1>1, <1>5
      <3> QED BY <3>1, <3>2, <1>1, <1>4, <1>5 DEF IInv, ObservedInv
    <2> QED BY <2>1, <2>2
  <1>8. BatchInv'
    <2> SUFFICES ASSUME NEW i \in 1..Len(batch)
                 PROVE  \E j \in 1..Len(observed'[batch[i].trace]) :
                            batch[i].content = observed'[batch[i].trace][j]
      BY <1>3 DEF BatchInv
    <2>1. PICK j \in 1..Len(observed[batch[i].trace]) : batch[i].content = observed[batch[i].trace][j]
      BY DEF IInv, BatchInv
    <2>2. batch[i].trace \in TraceIds
      <3>1. batch[i] \in Observation
        BY DEF IInv, TypeOK
      <3> QED BY <3>1 DEF Observation
    <2>3. CASE batch[i].trace # t
      <3>1. observed'[batch[i].trace] = observed[batch[i].trace]
        BY <2>2, <2>3, <1>3 DEF IInv, TypeOK
      <3> QED BY <2>1, <3>1
    <2>4. CASE batch[i].trace = t
      <3>1. observed'[batch[i].trace] = Append(observed[t], c)
        BY <2>4, <1>1, <1>3 DEF IInv, TypeOK
      <3>2. j \in 1..Len(observed[t]) /\ j \in 1..(Len(observed[t]) + 1)
        BY <2>1, <2>4, <1>1
      <3>3. j \in 1..Len(observed'[batch[i].trace])
        BY <3>1, <3>2, <1>5
      <3> QED BY <2>1, <2>4, <3>1, <3>2, <3>3, <1>5
    <2> QED BY <2>3, <2>4
  <1>9. CompiledInv'
    BY <1>3 DEF CompiledInv
  <1> QED BY <1>6, <1>7, <1>8, <1>9 DEF IInv

LEMMA DeliverStep ==
    ASSUME IInv, NEW p \in Made, Deliver(p[1], p[2])
    PROVE  IInv'
  <1> DEFINE o == [trace |-> p[1], content |-> observed[p[1]][p[2]]]
  <1>1. p[1] \in TraceIds /\ p[2] \in 1..Len(observed[p[1]])
    <2>1. p \in TraceIds \X (1..MaxObserved) /\ p[2] <= Len(observed[p[1]])
      BY DEF Made
    <2>2. p[1] \in TraceIds /\ p[2] \in 1..MaxObserved /\ MaxObserved \in Nat
      BY <2>1, BatchAssumption
    <2>3. Len(observed[p[1]]) \in Nat
      BY <2>2 DEF IInv, TypeOK
    <2> QED BY <2>1, <2>2, <2>3
  <1>2. observed[p[1]][p[2]] \in Content
    <2>1. observed[p[1]] \in Seq(Content)
      BY <1>1 DEF IInv, TypeOK
    <2> QED BY <2>1, <1>1
  <1>3. o \in Observation
    BY <1>1, <1>2 DEF Observation
  <1>4. /\ batch' = Append(batch, o)
        /\ UNCHANGED <<observed, outcome, file, edits>> /\ outcome = "none"
    BY DEF Deliver
  <1>5. o.trace = p[1] /\ o.content = observed[p[1]][p[2]]
    OBVIOUS
  <1> HIDE DEF o
  <1>6. /\ batch' \in Seq(Observation) /\ Len(batch') = Len(batch) + 1 /\ Len(batch) \in Nat
        /\ \A i \in 1..Len(batch) : batch'[i] = batch[i]
        /\ batch'[Len(batch) + 1] = o
    <2>1. batch \in Seq(Observation)
      BY DEF IInv, TypeOK
    <2> QED BY <2>1, <1>3, <1>4, AppendProperties
  <1>7. TypeOK' /\ ObservedInv' /\ CompiledInv'
    BY <1>4, <1>6 DEF IInv, TypeOK, ObservedInv, CompiledInv
  <1>8. BatchInv'
    <2> SUFFICES ASSUME NEW i \in 1..Len(batch')
                 PROVE  \E j \in 1..Len(observed[batch'[i].trace]) :
                            batch'[i].content = observed[batch'[i].trace][j]
      BY <1>4 DEF BatchInv
    <2>1. CASE i = Len(batch) + 1
      BY <2>1, <1>1, <1>5, <1>6
    <2>2. CASE i # Len(batch) + 1
      <3>1. i \in 1..Len(batch)
        BY <2>2, <1>6
      <3> QED BY <3>1, <1>6 DEF IInv, BatchInv
    <2> QED BY <2>1, <2>2
  <1> QED BY <1>7, <1>8 DEF IInv

LEMMA RefuseStep ==
    ASSUME IInv, RefuseMixed \/ RefuseInvalid \/ RefuseDropped
    PROVE  IInv'
  <1>1. UNCHANGED <<observed, batch, file, edits>> /\ outcome' \in {"mixed", "invalid", "dropped"}
    BY DEF RefuseMixed, RefuseInvalid, RefuseDropped, Answer
  <1> QED BY <1>1 DEF IInv, TypeOK, Outcomes, ObservedInv, BatchInv, CompiledInv

LEMMA CompileStep ==
    ASSUME IInv, Compile
    PROVE  IInv'
  <1>1. /\ UNCHANGED <<observed, batch, edits>> /\ outcome' = "compiled"
        /\ file' = SealedFile(Compiled(batch))
        /\ batch # <<>> /\ OneTrace(batch) /\ Valid(batch) /\ DenialsKept(batch)
    BY DEF Compile, Answer, Called
  <1>2. file' \in File
    <2>1. batch \in Seq(Observation)
      BY DEF IInv, TypeOK
    <2> QED BY <2>1, <1>1, CompiledContents, SealAllEvents
  <1>3. TypeOK' /\ ObservedInv' /\ BatchInv'
    BY <1>1, <1>2 DEF IInv, TypeOK, Outcomes, ObservedInv, BatchInv
  <1>4. CompiledInv'
    BY <1>1, <1>2 DEF CompiledInv
  <1> QED BY <1>3, <1>4 DEF IInv

(* Every change leaves a file of the same shape.                             *)
LEMMA WithEvents ==
    ASSUME NEW f \in File, NEW es \in Seq(SealedEvent)
    PROVE  [f EXCEPT !.events = es] \in File
  BY DEF File

LEMMA WithEvent ==
    ASSUME NEW f \in File, NEW i \in 1..Len(f.events), NEW ev \in SealedEvent
    PROVE  [f EXCEPT !.events[i] = ev] \in File
  <1>1. f.events \in Seq(SealedEvent)
    BY DEF File
  <1>2. [f.events EXCEPT ![i] = ev] \in Seq(SealedEvent)
    BY <1>1, ExceptSeq
  <1>3. [f EXCEPT !.events[i] = ev] = [f EXCEPT !.events = [f.events EXCEPT ![i] = ev]]
    OBVIOUS
  <1> QED BY <1>2, <1>3, WithEvents

LEMMA WithContent ==
    ASSUME NEW f \in File, NEW i \in 1..Len(f.events), NEW c \in Content
    PROVE  [f EXCEPT !.events[i].content = c] \in File
  <1> DEFINE ev == f.events[i]
             new == [ev EXCEPT !.content = c]
  <1>1. ev \in SealedEvent
    BY ContentsOfFile
  <1>2. new \in SealedEvent
    BY <1>1 DEF SealedEvent
  <1>3. [f EXCEPT !.events[i].content = c] = [f EXCEPT !.events[i] = new]
    OBVIOUS
  <1> QED BY <1>2, <1>3, WithEvent

LEMMA EditedIsFile ==
    ASSUME file \in File, Edit
    PROVE  /\ file' \in File
           /\ edits < MaxEdits /\ edits' = edits + 1
           /\ UNCHANGED <<observed, batch, outcome>>
  <1>1. /\ file.events \in Seq(SealedEvent) /\ file.traceHash \in Seq(SealedEvent)
        /\ Len(file.events) \in Nat
        /\ \A i \in 1..Len(file.events) : file.events[i] \in SealedEvent
    BY ContentsOfFile DEF File
  <1>2. ASSUME NEW i \in 1..Len(file.events)
        PROVE  /\ file.events[i].content \in Content
               /\ file.events[i].previous \in Hash
    BY <1>1 DEF SealedEvent
  <1>3. ASSUME NEW i \in 1..Len(file.events), ChangeDecision(i) PROVE file' \in File
    <2> DEFINE c == [file.events[i].content EXCEPT !.decision = Flip(@)]
    <2>1. c \in Content
      BY <1>2 DEF Content, Flip
    <2>2. file' = [file EXCEPT !.events[i].content = c]
      BY <1>3 DEF ChangeDecision, Rewrite
    <2> HIDE DEF c
    <2> QED BY <2>1, <2>2, WithContent
  <1>4. ASSUME NEW i \in 1..Len(file.events), NEW p \in Principals, ChangePrincipal(i, p)
        PROVE  file' \in File
    <2> DEFINE c == [file.events[i].content EXCEPT !.principal = p]
    <2>1. c \in Content
      BY <1>2 DEF Content
    <2>2. file' = [file EXCEPT !.events[i].content = c]
      BY <1>4 DEF ChangePrincipal, Rewrite
    <2> HIDE DEF c
    <2> QED BY <2>1, <2>2, WithContent
  <1>5. ASSUME NEW i \in 1..Len(file.events), NEW a \in Actions, ChangeAction(i, a)
        PROVE  file' \in File
    <2> DEFINE c == [file.events[i].content EXCEPT !.action = a]
               once == [file EXCEPT !.events[i].content = c]
               d == [c EXCEPT !.pattern = @ \cup Footprint(a)]
    <2>1. Footprint(a) \subseteq Resources
      BY DeciderAssumption DEF Action, Footprint
    <2>2. c \in Content
      BY <1>2 DEF Content
    <2>3. d \in Content
      <3> HIDE DEF c
      <3> QED BY <2>1, <2>2 DEF Content
    <2>4. once.events[i].content = c /\ Len(once.events) = Len(file.events)
      <3> HIDE DEF c
      <3> QED BY <1>1 DEF File, SealedEvent
    <2>5. once = [file EXCEPT !.events[i].content.action = a]
      OBVIOUS
    <2>6. file' = [once EXCEPT !.events[i].content.pattern = @ \cup Footprint(a)]
      BY <1>5, <2>5, ZenonT(30) DEF ChangeAction, Rewrite
    <2> HIDE DEF c
    <2>7. once \in File
      BY <2>2, WithContent
    <2> HIDE DEF once
    <2>8. file' = [once EXCEPT !.events[i].content = d]
      BY <2>4, <2>6
    <2> HIDE DEF d
    <2> QED BY <2>3, <2>4, <2>7, <2>8, WithContent
  <1>6. ASSUME NEW i \in 1..Len(file.events), DropEvent(i) PROVE file' \in File
    <2> DEFINE front == SubSeq(file.events, 1, i - 1)
               back == SubSeq(file.events, i + 1, Len(file.events))
    <2>1. front \in Seq(SealedEvent) /\ back \in Seq(SealedEvent)
      BY <1>1, SubSeqProperties
    <2>2. file' = [file EXCEPT !.events = front \o back]
      BY <1>6 DEF DropEvent, Rewrite
    <2> HIDE DEF front, back
    <2> QED BY <2>1, <2>2, WithEvents, ConcatProperties
  <1>7. ASSUME NEW i \in 1..Len(file.events), SwapEvents(i) PROVE file' \in File
    <2> DEFINE once == [file EXCEPT !.events[i] = file.events[i + 1]]
    <2>1. i + 1 \in 1..Len(file.events)
      BY <1>1, <1>7 DEF SwapEvents
    <2>2. once \in File
      BY <2>1, <1>1, WithEvent
    <2>3. Len(once.events) = Len(file.events)
      BY <1>1, <2>1
    <2>4. file' = [once EXCEPT !.events[i + 1] = file.events[i]]
      BY <1>7 DEF SwapEvents, Rewrite
    <2> HIDE DEF once
    <2> QED BY <2>1, <2>2, <2>3, <2>4, <1>1, WithEvent
  <1>8. ASSUME NEW i \in 1..Len(file.events), Unsign(i) PROVE file' \in File
    <2> DEFINE ev == [file.events[i] EXCEPT !.signature = Genesis]
    <2>1. ev \in SealedEvent
      <3>1. Genesis \in Seq(Content)
        BY EmptySeq DEF Genesis
      <3> QED BY <3>1, <1>1 DEF SealedEvent, Hash
    <2>2. file' = [file EXCEPT !.events[i] = ev]
      BY <1>8 DEF Unsign, Rewrite
    <2> HIDE DEF ev
    <2> QED BY <2>1, <2>2, WithEvent
  <1>9. ASSUME NEW i \in 1..Len(file.events), ResealEvent(i) PROVE file' \in File
    <2> DEFINE ev == Seal(file.events[i].content, file.events[i].previous)
    <2>1. ev \in SealedEvent
      BY <1>2, SealOf DEF Hash
    <2>2. file' = [file EXCEPT !.events[i] = ev]
      BY <1>9 DEF ResealEvent, Rewrite
    <2> HIDE DEF ev
    <2> QED BY <2>1, <2>2, WithEvent
  <1>10. ASSUME ResealTrace PROVE file' \in File
    BY <1>1, <1>10 DEF ResealTrace, Rewrite, File
  <1>11. ASSUME ResealAll PROVE file' \in File
    BY <1>11, ContentsOfFile, SealAllEvents, SMTT(30) DEF ResealAll, Rewrite
  <1>12. edits < MaxEdits /\ edits' = edits + 1 /\ UNCHANGED <<observed, batch, outcome>>
    BY ZenonT(30) DEF Edit, ChangeDecision, ChangePrincipal, ChangeAction, DropEvent, SwapEvents, Unsign,
           ResealEvent, ResealTrace, ResealAll, Rewrite
  <1> QED BY <1>3, <1>4, <1>5, <1>6, <1>7, <1>8, <1>9, <1>10, <1>11, <1>12 DEF Edit

LEMMA EditStep ==
    ASSUME IInv, outcome = "compiled", Edit
    PROVE  IInv'
  <1>1. file \in File /\ edits \in 0..MaxEdits /\ MaxEdits \in Nat
    BY BatchAssumption DEF IInv, CompiledInv, TypeOK
  <1>2. /\ file' \in File /\ edits' \in 0..MaxEdits /\ edits' # 0
        /\ UNCHANGED <<observed, batch, outcome>>
    BY <1>1, EditedIsFile
  <1> QED BY <1>2 DEF IInv, TypeOK, ObservedInv, BatchInv, CompiledInv

LEMMA InvariantKept ==
    ASSUME IInv, [Next]_vars
    PROVE  IInv'
  <1>1. CASE UNCHANGED vars
    BY <1>1 DEF vars, IInv, TypeOK, ObservedInv, BatchInv, CompiledInv
  <1>2. CASE Next
    BY <1>2, ObserveStep, DeliverStep, RefuseStep, CompileStep, EditStep DEF Next
  <1> QED BY <1>1, <1>2

LEMMA Inductive == Spec => []IInv
  BY InitIInv, InvariantKept, PTL DEF Spec

(* Type correctness of the runtimes' records, the batch and the file.        *)
THEOREM TypeCorrect == Spec => []TypeOK
  <1>1. IInv => TypeOK
    BY DEF IInv
  <1> QED BY <1>1, Inductive, PTL

(* Whatever is done to a trace file, validation, which follows the stored    *)
(* hashes, and replay, which computes them anew, agree on it, apart from the *)
(* event signatures that only replay compares.                               *)
THEOREM ReplayAgreesAlways == Spec => []ReplayAgrees
  <1>1. IInv => ReplayAgrees
    BY ReplayIsValidation DEF IInv, CompiledInv, ReplayAgrees
  <1> QED BY <1>1, Inductive, PTL

(* The last hash seals the trace: a file with a valid chain that ends in the *)
(* compiler's last hash says what the compiler said, event by event.         *)
THEOREM LastHashSeals == Spec => []LastHashSealsAll
  <1>1. ASSUME IInv PROVE LastHashSealsAll
    <2> DEFINE cs == Compiled(batch)
               n == Len(cs)
    <2> SUFFICES ASSUME outcome = "compiled", HashesValid(file), file.events # <<>>,
                        file.events[Len(file.events)].hash = SealAll(cs)[Len(SealAll(cs))].hash
                 PROVE  Contents(file) = cs
      BY DEF LastHashSealsAll
    <2>1. /\ batch \in Seq(Observation) /\ batch # <<>> /\ Valid(batch) /\ file \in File
      BY <1>1 DEF IInv, TypeOK, CompiledInv
    <2>2. cs \in Seq(Content) /\ n = Len(batch) /\ n \in Nat /\ n # 0
      BY <2>1, CompiledContents, EmptySeq
    <2>3. n \in 1..n
      BY <2>2
    <2> HIDE DEF cs, n
    <2>4. SealAll(cs)[n].hash = SubSeq(cs, 1, n) /\ Len(SealAll(cs)) = n /\ SubSeq(cs, 1, n) = cs
      <3>1. n = Len(cs)
        BY DEF n
      <3>2. Len(SealAll(cs)) = n
        BY <2>2, <3>1, SealAllEvents
      <3>3. SubSeq(cs, 1, n) = cs
        BY <2>2, <3>1, SubSeqFull
      <3>4. SealAll(cs)[n] = [content |-> cs[n], previous |-> SubSeq(cs, 1, n - 1),
                              hash |-> SubSeq(cs, 1, n), signature |-> SubSeq(cs, 1, n)]
        BY <2>2, <2>3, <3>1, SealAllEvents
      <3> QED BY <3>2, <3>3, <3>4
    <2>5. /\ Contents(file) \in Seq(Content) /\ Len(Contents(file)) = Len(file.events)
          /\ Len(file.events) \in 1..Len(file.events)
      BY <2>1, ContentsOfFile, EmptySeq DEF File
    <2>6. file.events[Len(file.events)].hash = SubSeq(Contents(file), 1, Len(file.events))
      BY <2>1, <2>5, ChainHoldsContents
    <2>7. SubSeq(Contents(file), 1, Len(file.events)) = Contents(file)
      BY <2>5, SubSeqFull
    <2> QED BY <2>4, <2>6, <2>7
  <1> QED BY <1>1, Inductive, PTL

-----------------------------------------------------------------------------
(* What is compiled and not changed since is the batch, decided and sealed.  *)
LEMMA UntouchedFile ==
    ASSUME IInv, Untouched
    PROVE  /\ file \in File /\ batch \in Seq(Observation) /\ batch # <<>>
           /\ OneTrace(batch) /\ Valid(batch)
           /\ file = SealedFile(Compiled(batch))
           /\ Contents(file) = Compiled(batch)
           /\ Len(file.events) = Len(batch) /\ Len(batch) \in Nat
           /\ \A k \in 1..Len(batch) : file.events[k].content = Compiled(batch)[k]
  <1>1. /\ file \in File /\ batch \in Seq(Observation) /\ batch # <<>>
        /\ OneTrace(batch) /\ Valid(batch) /\ Len(batch) \in Nat
        /\ file = SealedFile(Compiled(batch))
    BY DEF IInv, TypeOK, CompiledInv, Untouched
  <1>2. Compiled(batch) \in Seq(Content) /\ Len(Compiled(batch)) = Len(batch)
    BY <1>1, CompiledContents
  <1>3. file.events = SealAll(Compiled(batch))
    BY <1>1 DEF SealedFile
  <1>4. Len(file.events) = Len(batch)
    BY <1>2, <1>3, SealAllEvents
  <1>5. ASSUME NEW k \in 1..Len(batch) PROVE file.events[k].content = Compiled(batch)[k]
    <2> DEFINE cs == Compiled(batch)
    <2>1. cs \in Seq(Content) /\ k \in 1..Len(cs)
      BY <1>2
    <2> HIDE DEF cs
    <2>2. SealAll(cs)[k] = [content |-> cs[k], previous |-> SubSeq(cs, 1, k - 1),
                            hash |-> SubSeq(cs, 1, k), signature |-> SubSeq(cs, 1, k)]
      BY <2>1, SealAllEvents
    <2>3. file.events[k] = SealAll(cs)[k]
      BY <1>3 DEF cs
    <2>4. file.events[k].content = cs[k]
      BY <2>2, <2>3
    <2> QED BY <2>4 DEF cs
  <1>6. Contents(file) = Compiled(batch)
    <2>1. Contents(file) \in Seq(Content) /\ Len(Contents(file)) = Len(batch)
      BY <1>1, <1>4, ContentsOfFile
    <2>2. \A k \in 1..Len(batch) : Contents(file)[k] = file.events[k].content
      BY <1>1, <1>4, ContentsOfFile
    <2>3. \A k \in 1..Len(Contents(file)) : Contents(file)[k] = Compiled(batch)[k]
      BY <2>1, <2>2, <1>5
    <2> QED BY <2>1, <2>3, <1>2, SeqEqual
  <1> QED BY <1>1, <1>4, <1>5, <1>6

(* No denial is lost: the trace has one event for each observation of the    *)
(* batch, and one that was denied is there, still denied.                    *)
THEOREM DenialsAlwaysSurvive == Spec => []DenialsSurvive
  <1>1. ASSUME IInv PROVE DenialsSurvive
    <2> SUFFICES ASSUME Untouched PROVE
            /\ Len(file.events) = Len(batch)
            /\ \A i \in 1..Len(batch) :
                  batch[i].content.decision = "deny" =>
                      \E j \in 1..Len(file.events) :
                          LET c == file.events[j].content IN
                          /\ c.id = batch[i].content.id
                          /\ c.sequence = batch[i].content.sequence
                          /\ c.action = batch[i].content.action /\ c.decision = "deny"
      BY DEF DenialsSurvive
    <2>1. Len(file.events) = Len(batch)
      BY <1>1, UntouchedFile
    <2>2. ASSUME NEW i \in 1..Len(batch), batch[i].content.decision = "deny"
          PROVE  \E j \in 1..Len(file.events) :
                     /\ file.events[j].content.id = batch[i].content.id
                     /\ file.events[j].content.sequence = batch[i].content.sequence
                     /\ file.events[j].content.action = batch[i].content.action
                     /\ file.events[j].content.decision = "deny"
      <3>1. batch[i].content \in Content /\ WellFormed(batch[i].content.action)
        <4>1. batch[i] \in Observation /\ Valid(batch)
          BY <1>1, UntouchedFile
        <4> QED BY <4>1 DEF Observation, Valid
      <3>2. PICK k \in 1..Len(batch) : Compiled(batch)[k] = Decided(batch[i].content)
        BY <1>1, UntouchedFile, CompiledContents
      <3>3. file.events[k].content = Decided(batch[i].content)
        BY <3>2, <1>1, UntouchedFile
      <3>4. /\ Decided(batch[i].content).id = batch[i].content.id
            /\ Decided(batch[i].content).sequence = batch[i].content.sequence
            /\ Decided(batch[i].content).action = batch[i].content.action
            /\ Decided(batch[i].content).decision = "deny"
        BY <3>1, <2>2, DecidedIsContent
      <3> QED BY <2>1, <3>2, <3>3, <3>4
    <2> QED BY <2>1, <2>2
  <1> QED BY <1>1, Inductive, PTL

(* A whole stretch, sorted, is numbered without a gap.                       *)
LEMMA WholeRunsOn ==
    ASSUME NEW b \in Seq(Observation), Valid(b), Whole(b)
    PROVE  \A k \in 1..(Len(b) - 1) : Compiled(b)[k + 1].sequence = Compiled(b)[k].sequence + 1
  <1> DEFINE n == Len(b)
             keys == [i \in 1..n |-> b[i].content.sequence]
             numbers == {b[i].content.sequence : i \in 1..n}
             number(k) == Sorted(b)[k].content.sequence
  <1>1. n \in Nat /\ \A i \in 1..n : /\ b[i].content \in Content /\ WellFormed(b[i].content.action)
                                     /\ b[i].content.sequence \in Nat
    <2>1. \A i \in 1..n : b[i] \in Observation
      OBVIOUS
    <2>2. \A i \in 1..n : b[i].content \in Content
      BY <2>1 DEF Observation
    <2> QED BY <2>2 DEF Valid, Content, Numbers
  <1>2. \A i \in 1..n : keys[i] = b[i].content.sequence /\ keys[i] \in Int
    BY <1>1
  <1>3. Sorted(b) = Arranged(b, keys, 1..n)
    BY DEF Sorted
  <1>4. \A i, j \in 1..n : keys[i] = keys[j] => i = j
    BY <1>2 DEF Whole
  <1>5. ASSUME NEW k \in 1..n, NEW l \in 1..n, k < l PROVE number(k) < number(l)
    <2>1. PICK i \in 1..n, j \in 1..n :
              /\ i # j /\ keys[i] <= keys[j] /\ Sorted(b)[k] = b[i] /\ Sorted(b)[l] = b[j]
      <3> HIDE DEF keys
      <3> QED BY <1>2, <1>3, <1>5, SortedInOrder
    <2>2. number(k) = keys[i] /\ number(l) = keys[j]
      BY <1>2, <2>1
    <2>3. keys[i] # keys[j] /\ keys[i] \in Int /\ keys[j] \in Int
      BY <1>2, <1>4, <2>1
    <2> HIDE DEF keys, number
    <2> QED BY <2>1, <2>2, <2>3
  <1>6. PICK first \in numbers : numbers = first..(first + n - 1)
    BY DEF Whole
  <1>7. ASSUME NEW k \in 1..n PROVE number(k) \in numbers /\ number(k) \in Nat
    <2>1. PICK j \in 1..n : Sorted(b)[k] = b[j]
      BY SortedIsPermutation
    <2> QED BY <1>1, <2>1
  <1>8. ASSUME NEW x \in numbers PROVE \E k \in 1..n : number(k) = x
    <2>1. PICK j \in 1..n : x = b[j].content.sequence
      OBVIOUS
    <2>2. PICK k \in 1..n : Sorted(b)[k] = b[j]
      BY SortedIsPermutation
    <2> QED BY <2>1, <2>2
  <1>9. ASSUME NEW k \in 1..n PROVE Compiled(b)[k].sequence = number(k)
    <2>1. PICK j \in 1..n : Sorted(b)[k] = b[j]
      BY SortedIsPermutation
    <2>2. Compiled(b)[k] = Decided(b[j].content)
      BY <2>1 DEF Compiled
    <2> QED BY <1>1, <2>1, <2>2, DecidedIsContent
  <1>10. first \in Nat
    BY <1>1
  <1> HIDE DEF n, keys, numbers, number
  <1> SUFFICES ASSUME NEW k \in 1..(n - 1) PROVE number(k + 1) = number(k) + 1
    <2>1. \A k \in 1..(n - 1) : k \in 1..n /\ k + 1 \in 1..n
      BY <1>1
    <2> QED BY <1>9, <2>1 DEF n
  <1>11. k \in 1..n /\ k + 1 \in 1..n /\ k < k + 1 /\ k \in Int
    BY <1>1
  <1>12. number(k) < number(k + 1) /\ number(k) \in numbers /\ number(k + 1) \in numbers
         /\ number(k) \in Nat /\ number(k + 1) \in Nat
    BY <1>5, <1>7, <1>11
  <1>13. ASSUME number(k) + 1 < number(k + 1) PROVE FALSE
    <2>1. number(k) + 1 \in numbers
      BY <1>1, <1>6, <1>10, <1>12, <1>13
    <2>2. PICK m \in 1..n : number(m) = number(k) + 1
      BY <1>8, <2>1
    <2>3. CASE m <= k
      <3>1. m = k \/ number(m) < number(k)
        BY <1>5, <1>11, <2>2, <2>3
      <3> QED BY <1>12, <2>2, <3>1
    <2>4. CASE m > k
      <3>1. m = k + 1 \/ k + 1 < m
        BY <1>11, <2>4
      <3>2. m = k + 1 \/ number(k + 1) < number(m)
        BY <1>5, <1>11, <3>1
      <3> QED BY <1>12, <1>13, <2>2, <3>2
    <2> QED BY <1>11, <2>3, <2>4
  <1> QED BY <1>12, <1>13

(* Where no id is that of a denied attempt and of one that was not, the      *)
(* look-up by id finds a denied event for each denied observation.           *)
LEMMA OwnIdsKeepDenials ==
    ASSUME NEW b \in Seq(Observation), Valid(b), OwnIdsDenied(b)
    PROVE  DenialsKept(b)
  <1> DEFINE cs == Compiled(b)
             n == Len(b)
  <1>1. /\ n \in Nat /\ Len(cs) = n
        /\ \A k \in 1..n : \E j \in 1..n : cs[k] = Decided(b[j].content)
        /\ \A j \in 1..n : \E k \in 1..n : cs[k] = Decided(b[j].content)
    BY CompiledContents
  <1>2. \A i \in 1..n : /\ b[i].content \in Content /\ WellFormed(b[i].content.action)
    <2>1. \A i \in 1..n : b[i] \in Observation
      OBVIOUS
    <2> QED BY <2>1 DEF Observation, Valid
  <1> HIDE DEF cs
  <1> SUFFICES ASSUME NEW i \in 1..n, b[i].content.decision = "deny"
               PROVE  LastWithId(cs, b[i].content.id).decision = "deny"
    BY DEF DenialsKept, cs
  <1> DEFINE id == b[i].content.id
             places == {m \in 0..n : \E k \in 1..n : m = n - k /\ cs[k].id = id}
             IsLast(k) == cs[k].id = id /\ \A j \in (k + 1)..n : cs[j].id # id
  <1>3. places # {} /\ places \in SUBSET Nat
    <2>1. PICK k \in 1..n : cs[k] = Decided(b[i].content)
      BY <1>1
    <2>2. cs[k].id = id
      BY <1>2, <2>1, DecidedIsContent
    <2>3. n - k \in 0..n
      BY <1>1
    <2>4. n - k \in places
      BY <2>2, <2>3
    <2>5. places # {}
      BY <2>4
    <2>6. \A m \in places : m \in 0..n
      OBVIOUS
    <2>7. \A m \in 0..n : m \in Nat
      BY <1>1
    <2> HIDE DEF places, n
    <2> QED BY <2>5, <2>6, <2>7
  <1>4. \E k \in 1..n : IsLast(k)
    <2>1. PICK m \in places : \A x \in places : m <= x
      <3> HIDE DEF places
      <3> QED BY <1>3, LeastElement
    <2>2. PICK k \in 1..n : m = n - k /\ cs[k].id = id
      BY <2>1
    <2>3. ASSUME NEW j \in (k + 1)..n, cs[j].id = id PROVE FALSE
      <3>1. j \in 1..n /\ n - j \in 0..n /\ n - j < m /\ m \in Nat
        <4>1. n \in Nat /\ k \in 1..n /\ j \in (k + 1)..n /\ m = n - k
          BY <1>1, <2>2
        <4> HIDE DEF places, n
        <4> QED BY <4>1
      <3>2. n - j \in places
        BY <2>3, <3>1
      <3>3. m <= n - j
        BY <2>1, <3>2
      <3> HIDE DEF places, n
      <3> QED BY <1>1, <3>1, <3>3
    <2> QED BY <2>2, <2>3
  <1> DEFINE last == CHOOSE k \in 1..Len(cs) : cs[k].id = id /\ \A j \in (k + 1)..Len(cs) : cs[j].id # id
  <1>5. last \in 1..n /\ cs[last].id = id
    <2>1. Len(cs) = n
      BY <1>1
    <2> HIDE DEF n
    <2> QED BY <1>4, <2>1
  <1>6. LastWithId(cs, id) = cs[last]
    BY DEF LastWithId
  <1> HIDE DEF last
  <1>7. PICK j \in 1..n : cs[last] = Decided(b[j].content)
    BY <1>1, <1>5
  <1>8. b[j].content.id = id
    BY <1>2, <1>5, <1>7, DecidedIsContent
  <1>9. b[j].content.decision = "deny"
    BY <1>8 DEF OwnIdsDenied
  <1>10. Decided(b[j].content).decision = "deny"
    BY <1>2, <1>9, DecidedIsContent
  <1> QED BY <1>6, <1>7, <1>10

(* Why the compiler refused the batch it was given. *)
AnswerInv ==
    /\ outcome = "mixed"   => ~OneTrace(batch)
    /\ outcome = "invalid" => ~Valid(batch)
    /\ outcome = "dropped" => ~DenialsKept(batch)

LEMMA AnswersHold == Spec => []AnswerInv
  <1>1. Init => AnswerInv
    BY DEF Init, AnswerInv
  <1>2. ASSUME IInv, AnswerInv, [Next]_vars PROVE AnswerInv'
    <2>1. CASE UNCHANGED vars
      BY <1>2, <2>1 DEF vars, AnswerInv
    <2>2. ASSUME NEW a \in Attempts, Observe(a) PROVE AnswerInv'
      BY <2>2 DEF Observe, AnswerInv
    <2>3. ASSUME NEW p \in Made, Deliver(p[1], p[2]) PROVE AnswerInv'
      BY <2>3 DEF Deliver, AnswerInv
    <2>4. CASE RefuseMixed
      BY <2>4 DEF RefuseMixed, Answer, AnswerInv
    <2>5. CASE RefuseInvalid
      BY <2>5 DEF RefuseInvalid, Answer, AnswerInv
    <2>6. CASE RefuseDropped
      BY <2>6 DEF RefuseDropped, Answer, AnswerInv
    <2>7. CASE Compile
      BY <2>7 DEF Compile, Answer, AnswerInv
    <2>8. CASE outcome = "compiled" /\ Edit
      <3>1. file \in File /\ edits \in 0..MaxEdits /\ MaxEdits \in Nat
        BY <1>2, <2>8, BatchAssumption DEF IInv, CompiledInv, TypeOK
      <3>2. UNCHANGED <<observed, batch, outcome>>
        BY <2>8, <3>1, EditedIsFile
      <3> QED BY <2>8, <3>2 DEF AnswerInv
    <2> QED BY <1>2, <2>1, <2>2, <2>3, <2>4, <2>5, <2>6, <2>7, <2>8 DEF Next
  <1> QED BY <1>1, <1>2, Inductive, PTL DEF Spec

(* What a runtime observed over a stretch, delivered once each and in any    *)
(* order, is compiled and its trace accepted, whatever was denied in it, if  *)
(* the compiler can read the actions and no id serves for a denied attempt   *)
(* and for one that was not.                                                 *)
THEOREM WholeIsAlwaysAccepted == Spec => []WholeIsAccepted
  <1>1. ASSUME IInv, AnswerInv PROVE WholeIsAccepted
    <2> SUFFICES ASSUME outcome # "none", edits = 0,
                        Whole(batch), Readable(batch), OwnIdsDenied(batch)
                 PROVE  outcome = "compiled" /\ Accepted(file)
      BY DEF WholeIsAccepted
    <2>1. batch \in Seq(Observation) /\ outcome \in Outcomes /\ OneTrace(batch) /\ Valid(batch)
      BY <1>1 DEF IInv, TypeOK, Whole, Readable, Valid
    <2>2. outcome = "compiled"
      BY <1>1, <2>1, OwnIdsKeepDenials DEF AnswerInv, Outcomes
    <2>3. /\ file \in File /\ Len(file.events) = Len(batch)
          /\ file = SealedFile(Compiled(batch)) /\ Contents(file) = Compiled(batch)
          /\ \A k \in 1..Len(batch) : file.events[k].content = Compiled(batch)[k]
      BY <1>1, <2>2, UntouchedFile DEF Untouched
    <2>4. HashesValid(file)
      <3>1. ReplayMatches(file)
        BY <2>3 DEF ReplayMatches, SealedFile
      <3> QED BY <2>3, <3>1, ReplayIsValidation
    <2>5. SequenceOrder(file)
      <3>1. Len(batch) \in Nat
        BY <2>1
      <3>2. \A k \in 1..(Len(batch) - 1) : k \in 1..Len(batch) /\ k + 1 \in 1..Len(batch)
        BY <3>1
      <3> QED BY <2>1, <2>3, <3>2, WholeRunsOn, SMTT(30) DEF SequenceOrder
    <2>6. ASSUME NEW k \in 1..Len(batch)
          PROVE  LET c == file.events[k].content
                 IN  InCatalog(c.action) /\ CapabilityMatchesEffects(c.action) /\ InPattern(c)
      <3>1. PICK j \in 1..Len(batch) : Compiled(batch)[k] = Decided(batch[j].content)
        BY <2>1, CompiledContents
      <3>2. /\ batch[j].content \in Content /\ WellFormed(batch[j].content.action)
            /\ CapabilityMatchesEffects(batch[j].content.action)
        <4>1. batch[j] \in Observation
          BY <2>1
        <4> QED BY <4>1 DEF Observation, Readable
      <3>3. /\ file.events[k].content.action = batch[j].content.action
            /\ file.events[k].content.pattern = Scope[batch[j].content.action.capability]
        BY <2>3, <3>1, <3>2, DecidedIsContent
      <3> QED BY <3>2, <3>3 DEF WellFormed, InPattern
    <2>7. ActionsValid(file)
      BY <2>3, <2>6 DEF ActionsValid
    <2> QED BY <2>2, <2>4, <2>5, <2>7 DEF Accepted
  <1> QED BY <1>1, Inductive, AnswersHold, PTL

(* Without gaps the numbers run on from the first.                           *)
LEMMA NumbersRunOn ==
    ASSUME NEW f \in File, SequenceOrder(f)
    PROVE  \A i \in 1..Len(f.events) :
              f.events[i].content.sequence = f.events[1].content.sequence + (i - 1)
  <1> DEFINE n == Len(f.events)
             number(i) == f.events[i].content.sequence
             Run == {i \in 1..n : number(i) = number(1) + (i - 1)}
  <1>1. n \in Nat /\ \A i \in 1..n : number(i) \in Nat
    <2>1. \A i \in 1..n : f.events[i] \in SealedEvent
      BY ContentsOfFile
    <2> QED BY <2>1 DEF SealedEvent, Content, Numbers, File
  <1>2. \A i \in 1..(n - 1) : number(i + 1) = number(i) + 1
    BY DEF SequenceOrder
  <1> HIDE DEF n, number
  <1>3. n > 0 => 1 \in Run
    BY <1>1
  <1>4. ASSUME NEW i \in 1..(n - 1), i \in Run PROVE i + 1 \in Run
    <2>1. i + 1 \in 1..n /\ i \in 1..n /\ 1 \in 1..n /\ number(i + 1) = number(i) + 1
      BY <1>1, <1>2
    <2> QED BY <2>1, <1>1, <1>4
  <1>5. 1..n \subseteq Run
    <2> HIDE DEF Run
    <2>1. CASE n = 0
      BY <2>1
    <2>2. CASE n > 0
      BY <2>2, <1>1, <1>3, <1>4, IntervalInduction
    <2> QED BY <2>1, <2>2, <1>1
  <1> QED BY <1>5 DEF n, number

(* An accepted trace is a stretch of what its runtime observed, in order,    *)
(* each observation once, none missing in between, however the batch came    *)
(* about.                                                                    *)
THEOREM AcceptedIsAlwaysStretch == Spec => []AcceptedIsStretch
  <1>1. ASSUME IInv PROVE AcceptedIsStretch
    <2> DEFINE t == Trace(batch)
               n == Len(file.events)
               first == file.events[1].content.sequence
    <2> SUFFICES ASSUME Untouched, Accepted(file)
                 PROVE  \E s \in 0..(Len(observed[t]) - n) :
                           \A i \in 1..n : file.events[i].content = Decided(observed[t][s + i])
      BY DEF AcceptedIsStretch
    <2>1. /\ file \in File /\ batch \in Seq(Observation) /\ batch # <<>>
          /\ OneTrace(batch) /\ Valid(batch) /\ n = Len(batch) /\ n \in Nat
          /\ \A k \in 1..n : file.events[k].content = Compiled(batch)[k]
      BY <1>1, UntouchedFile
    <2>2. n \in 1..n /\ 1 \in 1..n
      BY <2>1, EmptySeq
    <2>3. t \in TraceIds /\ observed[t] \in Seq(Content) /\ Len(observed[t]) \in Nat
      <3>1. batch[1] \in Observation
        BY <2>1, <2>2
      <3>2. t \in TraceIds
        BY <3>1 DEF Trace, Observation
      <3> QED BY <3>2, <1>1 DEF IInv, TypeOK
    <2>4. ASSUME NEW k \in 1..n
          PROVE  \E j \in 1..Len(observed[t]) :
                    /\ file.events[k].content = Decided(observed[t][j])
                    /\ file.events[k].content.sequence = j - 1
      <3>1. PICK i \in 1..Len(batch) : Compiled(batch)[k] = Decided(batch[i].content)
        <4>1. k \in 1..Len(batch)
          BY <2>1
        <4> QED BY <4>1, <2>1, CompiledContents
      <3>2. batch[i].trace = t
        BY <2>1 DEF OneTrace
      <3>3. PICK j \in 1..Len(observed[t]) : batch[i].content = observed[t][j]
        BY <1>1, <3>2 DEF IInv, BatchInv
      <3>4. observed[t][j].sequence = j - 1 /\ observed[t][j] \in Content
        BY <1>1, <2>3 DEF IInv, ObservedInv
      <3>5. WellFormed(observed[t][j].action)
        BY <2>1, <3>3 DEF Valid
      <3>6. Decided(observed[t][j]).sequence = j - 1
        BY <3>4, <3>5, DecidedIsContent
      <3> QED BY <2>1, <3>1, <3>3, <3>6
    <2>5. \A i \in 1..n : file.events[i].content.sequence = first + (i - 1)
      BY <2>1, NumbersRunOn DEF Accepted
    <2>6. first \in Nat /\ first + n <= Len(observed[t])
      <3>1. PICK j \in 1..Len(observed[t]) : first = j - 1
        BY <2>2, <2>4
      <3>2. PICK k \in 1..Len(observed[t]) : file.events[n].content.sequence = k - 1
        BY <2>2, <2>4
      <3>3. first + (n - 1) = k - 1 /\ first \in Nat
        <4>1. file.events[n].content.sequence = first + (n - 1)
          BY <2>2, <2>5
        <4> HIDE DEF first, n
        <4> QED BY <4>1, <2>3, <3>1, <3>2
      <3> HIDE DEF first, n
      <3> QED BY <2>1, <2>3, <3>2, <3>3
    <2>7. ASSUME NEW i \in 1..n PROVE file.events[i].content = Decided(observed[t][first + i])
      <3>1. PICK j \in 1..Len(observed[t]) : /\ file.events[i].content = Decided(observed[t][j])
                                             /\ file.events[i].content.sequence = j - 1
        BY <2>4
      <3>2. first + (i - 1) = j - 1
        BY <2>5, <3>1
      <3>3. j = first + i
        <4> HIDE DEF first, n
        <4> QED BY <3>2, <2>1, <2>3, <2>6
      <3> QED BY <3>1, <3>3
    <2>8. first \in 0..(Len(observed[t]) - n)
      <3> HIDE DEF first, n
      <3> QED BY <2>1, <2>3, <2>6
    <2> QED BY <2>7, <2>8
  <1> QED BY <1>1, Inductive, PTL

-----------------------------------------------------------------------------
(* A file without issues is a trace in which Python finds nothing.           *)
LEMMA NoIssue ==
    ASSUME NEW f \in File
    PROVE  SemanticIssues(f) = {}
              <=> /\ HashesValid(f) /\ SequenceOrder(f) /\ NothingFound(Contents(f))
                  /\ \A i \in 1..Len(Contents(f)) : Explicit(Contents(f)[i].principal)
  <1> DEFINE cs == Contents(f)
  <1>1. /\ cs \in Seq(Content) /\ Len(cs) = Len(f.events)
        /\ \A i \in 1..Len(cs) : cs[i] = f.events[i].content
    BY ContentsOfFile
  <1>2. ChainValid(f) <=> HashesValid(f) /\ \A i \in 1..Len(cs) : InPattern(cs[i])
    BY <1>1 DEF ChainValid
  <1> HIDE DEF cs
  <1>3. SemanticIssues(f) = {}
           <=> /\ ChainValid(f) /\ SequenceOrder(f)
               /\ \A i \in 1..Len(cs) : Explicit(cs[i].principal) /\ EventSafeD(cs[i])
    BY DEF SemanticIssues, cs
  <1>4. SemanticIssues(f) = {}
           <=> /\ HashesValid(f) /\ SequenceOrder(f) /\ NothingFound(cs)
               /\ \A i \in 1..Len(cs) : Explicit(cs[i].principal)
    BY <1>1, <1>2, <1>3 DEF NothingFound
  <1> QED BY <1>4 DEF cs

LEMMA AcceptedHasNoIssue ==
    ASSUME IInv, Untouched, Accepted(file)
    PROVE  SemanticIssues(file) = {}
  <1> DEFINE cs == Compiled(batch)
  <1>1. /\ file \in File /\ batch \in Seq(Observation) /\ Valid(batch) /\ Contents(file) = cs
        /\ Len(file.events) = Len(batch) /\ Len(batch) \in Nat
        /\ \A k \in 1..Len(batch) : file.events[k].content = cs[k]
    BY UntouchedFile
  <1>2. cs \in Seq(Content) /\ Len(cs) = Len(batch)
    BY <1>1, CompiledContents
  <1>3. ASSUME NEW k \in 1..Len(batch)
        PROVE  EventSafeD(cs[k]) /\ InPattern(cs[k]) /\ Explicit(cs[k].principal)
    <2>1. PICK j \in 1..Len(batch) : cs[k] = Decided(batch[j].content)
      BY <1>1, CompiledContents
    <2> DEFINE c == batch[j].content
    <2>2. c \in Content /\ WellFormed(c.action)
      <3>1. batch[j] \in Observation
        BY <1>1
      <3> QED BY <3>1, <1>1 DEF Observation, Valid
    <2>3. InCatalog(cs[k].action) /\ CapabilityMatchesEffects(cs[k].action) /\ InPattern(cs[k])
      BY <1>1 DEF Accepted, ActionsValid
    <2> HIDE DEF c, cs
    <2>4. /\ cs[k].action = c.action /\ cs[k].principal = Expanded[c.principal]
          /\ cs[k].decision = IF c.decision = "allow" /\ MayNot(c) THEN "deny" ELSE c.decision
          /\ c.principal \in Principals
      <3>1. cs[k] = Decided(c)
        BY <2>1 DEF c
      <3>2. c.principal \in Principals
        BY <2>2 DEF Content
      <3> QED BY <2>2, <3>1, <3>2, DecidedIsContent
    <2>5. /\ Expanded[c.principal] \in Principals
          /\ Expanded[Expanded[c.principal]] = Expanded[c.principal]
          /\ Expanded[c.principal].tenant = c.principal.tenant
      BY <2>4, ExpandedAssumption
    <2>6. Explicit(cs[k].principal)
      BY <2>4, <2>5 DEF Explicit
    <2>7. cs[k].decision = "allow" =>
             HasCapability(cs[k].principal, cs[k].action.capability)
             /\ ActionWithinTenant(cs[k].principal, cs[k].action)
      BY <2>4, <2>5 DEF MayNot, ActionWithinTenant
    <2> QED BY <2>3, <2>6, <2>7 DEF EventSafeD, ActionAdmissibleD
  <1> HIDE DEF cs
  <1>4. NothingFound(cs) /\ \A k \in 1..Len(cs) : Explicit(cs[k].principal)
    BY <1>2, <1>3 DEF NothingFound
  <1> QED BY <1>1, <1>4, NoIssue DEF Accepted

(* `validate-trace' with its options, on a file without issues.              *)
LEMMA TenantChecksAgree ==
    ASSUME NEW f \in File, SemanticIssues(f) = {}
    PROVE  LET cs == Contents(f) IN
           /\ ValidateTrace(f, Flags \ {"tenant_isolation"})
           /\ ValidateTrace(f, Flags) <=>
                 \A i \in 1..Len(cs) :
                     cs[i].decision = "deny" => ActionWithinTenant(cs[i].principal, cs[i].action)
  <1> DEFINE cs == Contents(f)
  <1>1. HashesValid(f) /\ SequenceOrder(f) /\ NothingFound(cs)
    BY NoIssue
  <1>2. ChainValid(f)
    BY <1>1, ContentsOfFile DEF ChainValid, NothingFound
  <1> HIDE DEF cs
  <1>3. \A i \in 1..Len(cs) : /\ cs[i].decision \in {"allow", "deny"}
                              /\ cs[i].decision = "allow" =>
                                    ActionWithinTenant(cs[i].principal, cs[i].action)
    BY <1>1, ContentFields DEF NothingFound, EventSafeD, ActionAdmissibleD
  <1>4. CrossTenantSafe(cs) /\ PairsIsolated(cs)
    BY <1>3 DEF CrossTenantSafe, PairsIsolated, Projection, LowEvent
  <1>5. TenantIsolated(cs) <=>
           \A i \in 1..Len(cs) :
               cs[i].decision = "deny" => ActionWithinTenant(cs[i].principal, cs[i].action)
    BY <1>3 DEF TenantIsolated
  <1> QED BY <1>1, <1>2, <1>4, <1>5 DEF ValidateTrace, Flags, cs

(* Between Python and Lean: what the compiler returns and validation accepts *)
(* has no issue that stops a Lean check; of any file without an issue the    *)
(* obligations pass, the tenant checks agree, every name a mode needs is     *)
(* generated, and Lean proves it all but for four reasons.                   *)
THEOREM AcceptedIsAlwaysProvable == Spec => []AcceptedIsProvable
  <1>1. ASSUME IInv PROVE AcceptedIsProvable
    <2>1. Untouched /\ Accepted(file) => SemanticIssues(file) = {}
      BY <1>1, AcceptedHasNoIssue
    <2> DEFINE cs == Contents(file)
    <2>2. ASSUME outcome = "compiled", SemanticIssues(file) = {}
          PROVE  /\ \A o \in DeciderObligations(cs) : o.passed
                 /\ ValidateTrace(file, Flags \ {"tenant_isolation"})
                 /\ ValidateTrace(file, Flags) <=>
                       \A i \in 1..Len(cs) :
                           cs[i].decision = "deny" =>
                               ActionWithinTenant(cs[i].principal, cs[i].action)
                 /\ \A mode \in Modes, s \in Supports :
                       Prerequisites(mode, cs, s) /\ ContractsHold(cs, s) =>
                           LET theorems == GeneratedTheorems(mode, cs, s) IN
                           /\ RequiredTheorems(mode, cs) \subseteq Names(theorems)
                           /\ LeanAccepts(Trace(batch), cs, s, theorems)
                                 <=> Unforeseen(mode, cs, s) = {}
      <3>1. file \in File
        BY <1>1, <2>2 DEF IInv, CompiledInv
      <3>2. NothingFound(cs)
        BY <2>2, <3>1, NoIssue
      <3>3. \A o \in DeciderObligations(cs) : o.passed
        BY <3>2, ObligationsPass
      <3>4. /\ ValidateTrace(file, Flags \ {"tenant_isolation"})
            /\ ValidateTrace(file, Flags) <=>
                  \A i \in 1..Len(cs) :
                      cs[i].decision = "deny" => ActionWithinTenant(cs[i].principal, cs[i].action)
        BY <2>2, <3>1, TenantChecksAgree
      <3> HIDE DEF cs
      <3>5. ASSUME NEW mode \in Modes, NEW s \in Supports, Prerequisites(mode, cs, s)
            PROVE  /\ RequiredTheorems(mode, cs) \subseteq Names(GeneratedTheorems(mode, cs, s))
                   /\ LeanAccepts(Trace(batch), cs, s, GeneratedTheorems(mode, cs, s))
                         <=> Unforeseen(mode, cs, s) = {}
        <4>1. Unforeseen(mode, cs, s) = {}
                 <=> /\ DistinctNames(Trace(batch), cs, s)
                     /\ mode = Scoped => \A i \in Allowed(cs) : WithinCatalogPattern(cs[i])
                     /\ \A h \in s.handoffs : HandoffSafe(h.handoff)
                     /\ \A n \in Named(cs, s) : TraceSatisfies(cs, s.contracts[n[2]])
          BY DEF Unforeseen
        <4> QED BY <3>2, <3>5, <4>1, NothingFoundIsProvable
      <3> QED BY <3>3, <3>4, <3>5
    <2> QED BY <2>1, <2>2 DEF AcceptedIsProvable
  <1> QED BY <1>1, Inductive, PTL
=============================================================================
