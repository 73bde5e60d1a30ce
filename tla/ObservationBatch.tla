-------------------------- MODULE ObservationBatch --------------------------
(***************************************************************************)
(* From a runtime's observations to a validated trace.  Runtimes number    *)
(* what they observe; observations reach the caller of the compiler late,  *)
(* twice, in any order or not at all; the compiler sorts and judges the    *)
(* batch it is given (compile_runtime_observations_to_pfcore_trace of      *)
(* python/pcs_core/pf_core_runtime.py); the file it returns passes through *)
(* hands that may rewrite it before it is validated, replayed or given to  *)
(* Lean.                                                                   *)
(*                                                                         *)
(* The compiler is a function of its batch, so one batch is enough for a   *)
(* behaviour: the runtimes stop when it is compiled.                       *)
(***************************************************************************)
EXTENDS TraceTheorems, StableOrder

CONSTANTS
    TraceIds,      \* traces that runtimes are writing
    Attempts,      \* what a runtime may observe
    Absent,        \* no file
    MaxObserved,   \* bound: observations made
    MaxDelivered,  \* bound: observations in the batch
    MaxEdits       \* bound: changes to the file

Attempt == [trace: TraceIds, id: EventIds, principal: Principals, action: Actions,
            pattern: SUBSET Resources, decision: {"allow", "deny"}]

Observation == [trace: TraceIds, content: Content]

ASSUME BatchAssumption ==
    /\ Attempts \subseteq Attempt
    /\ Absent \notin File
    /\ MaxObserved \in Nat /\ MaxDelivered \in Nat /\ MaxEdits \in Nat

-----------------------------------------------------------------------------
(* The compiler. *)

Trace(b) == b[1].trace

OneTrace(b) == \A i \in 1..Len(b) : b[i].trace = Trace(b)

(* _sort_observations: by sequence, then by place in the batch. *)
Sorted(b) == Arranged(b, [i \in 1..Len(b) |-> b[i].content.sequence], 1..Len(b))

MayNot(c) ==
    ~(HasCapability(Expanded[c.principal], c.action.capability)
      /\ ActionWithinTenant(c.principal, c.action))

(* Roles are written out, the pattern is the catalog's. *)
Normal(c, decision) ==
    [c EXCEPT !.principal = Expanded[@], !.pattern = Scope[c.action.capability],
              !.decision = decision]

(* Fault: what may not be is marked in the words of the tool policy. *)
DecidedRejected(c) ==
    Normal(c, IF c.decision = "allow" /\ MayNot(c) THEN "rejected" ELSE c.decision)

(* compile_runtime_observation_to_event: an allowed action that its         *)
(* principal may not take becomes denied, a denied one stays denied.        *)
Decided(c) == Normal(c, IF c.decision = "allow" /\ MayNot(c) THEN "deny" ELSE c.decision)

LastWithId(cs, id) ==
    cs[CHOOSE i \in 1..Len(cs) : cs[i].id = id /\ \A j \in (i + 1)..Len(cs) : cs[j].id # id]

(* Fault: events are kept by event_id, so that only the last of an id stays. *)
CompiledById(b) ==
    LET all == [i \in 1..Len(b) |-> Decided(Sorted(b)[i].content)]
    IN  SelectSeq(all, LAMBDA c : c = LastWithId(all, c.id))

Compiled(b) == [i \in 1..Len(b) |-> Decided(Sorted(b)[i].content)]

(* Fault: observations and events are taken to be in the same order.        *)
DenialsInPlace(b) ==
    \A i \in 1..Len(b) :
        b[i].content.decision = "deny" => Compiled(b)[i].decision = "deny"

(* validate_denied_observations_preserved looks events up by id: the last   *)
(* event with the id of a denied observation must be denied.                *)
DenialsKept(b) ==
    \A i \in 1..Len(b) :
        b[i].content.decision = "deny" =>
            LastWithId(Compiled(b), b[i].content.id).decision = "deny"

-----------------------------------------------------------------------------
VARIABLES
    observed,  \* [TraceIds -> what its runtime observed, in order]
    batch,     \* observations that reached the caller, in order of arrival
    outcome,   \* what the compiler answered
    file,      \* the trace file as it stands
    edits      \* changes made to it so far

vars == <<observed, batch, outcome, file, edits>>

Outcomes == {"none", "compiled", "mixed", "invalid", "dropped"}

Init ==
    /\ observed = [t \in TraceIds |-> <<>>]
    /\ batch = <<>>
    /\ outcome = "none"
    /\ file = Absent
    /\ edits = 0

Made == {p \in TraceIds \X (1..MaxObserved) : p[2] <= Len(observed[p[1]])}

(* A runtime observes an attempt and gives it the next number. *)
Observe(a) ==
    /\ outcome = "none"
    /\ Cardinality(Made) < MaxObserved
    /\ observed' = [observed EXCEPT ![a.trace] = Append(@,
          [id |-> a.id, sequence |-> Len(@), principal |-> a.principal,
           action |-> a.action, pattern |-> a.pattern, decision |-> a.decision])]
    /\ UNCHANGED <<batch, outcome, file, edits>>

(* An observation reaches the caller: any of them, at any time, again. *)
Deliver(t, i) ==
    /\ outcome = "none"
    /\ Len(batch) < MaxDelivered
    /\ batch' = Append(batch, [trace |-> t, content |-> observed[t][i]])
    /\ UNCHANGED <<observed, outcome, file, edits>>

Valid(b) == \A i \in 1..Len(b) : WellFormed(b[i].content.action)

Called == outcome = "none" /\ batch # <<>>

Answer(o) == outcome' = o /\ UNCHANGED <<observed, batch, edits>>

(* The compiler's answers, in the order of its tests. *)
RefuseMixed == Called /\ ~OneTrace(batch) /\ Answer("mixed") /\ UNCHANGED file

RefuseInvalid ==
    /\ Called /\ OneTrace(batch) /\ ~Valid(batch)
    /\ Answer("invalid") /\ UNCHANGED file

RefuseDropped ==
    /\ Called /\ OneTrace(batch) /\ Valid(batch) /\ ~DenialsKept(batch)
    /\ Answer("dropped") /\ UNCHANGED file

Compile ==
    /\ Called /\ OneTrace(batch) /\ Valid(batch) /\ DenialsKept(batch)
    /\ Answer("compiled")
    /\ file' = SealedFile(Compiled(batch))

-----------------------------------------------------------------------------
(* What may happen to the file on its way: contents change, seals are made  *)
(* anew in some places and not in others.                                   *)

Rewrite(f) ==
    /\ outcome = "compiled"
    /\ edits < MaxEdits
    /\ f # file
    /\ file' = f
    /\ edits' = edits + 1
    /\ UNCHANGED <<observed, batch, outcome>>

Flip(d) == IF d = "allow" THEN "deny" ELSE "allow"

ChangeDecision(i) == Rewrite([file EXCEPT !.events[i].content.decision = Flip(@)])

ChangePrincipal(i, p) == Rewrite([file EXCEPT !.events[i].content.principal = p])

(* Another action, and a pattern that has room for it. *)
ChangeAction(i, a) ==
    Rewrite([file EXCEPT !.events[i].content.action = a,
                         !.events[i].content.pattern = @ \cup Footprint(a)])

DropEvent(i) ==
    Rewrite([file EXCEPT !.events = SubSeq(@, 1, i - 1) \o SubSeq(@, i + 1, Len(@))])

SwapEvents(i) ==
    /\ i < Len(file.events)
    /\ Rewrite([file EXCEPT !.events[i] = file.events[i + 1], !.events[i + 1] = file.events[i]])

Unsign(i) == Rewrite([file EXCEPT !.events[i].signature = Genesis])

ResealEvent(i) == Rewrite([file EXCEPT !.events[i] = Seal(@.content, @.previous)])

ResealTrace == Rewrite([file EXCEPT !.traceHash = file.events])

(* recompute_pfcore_trace_hashes *)
ResealAll == Rewrite(SealedFile(Contents(file)))

Edit ==
    \/ \E i \in 1..Len(file.events) :
          \/ ChangeDecision(i) \/ DropEvent(i) \/ SwapEvents(i)
          \/ \E p \in Principals : ChangePrincipal(i, p)
          \/ \E a \in Actions : ChangeAction(i, a)
          \/ Unsign(i) \/ ResealEvent(i)
    \/ ResealTrace \/ ResealAll

Next ==
    \/ \E a \in Attempts : Observe(a)
    \/ \E p \in Made : Deliver(p[1], p[2])
    \/ RefuseMixed \/ RefuseInvalid \/ RefuseDropped \/ Compile
    \/ outcome = "compiled" /\ Edit

Spec == Init /\ [][Next]_vars

-----------------------------------------------------------------------------
(* Properties. *)

(* Shapes of the batch and of the file. *)
TypeOK ==
    /\ observed \in [TraceIds -> Seq(Content)]
    /\ batch \in Seq(Observation)
    /\ outcome \in Outcomes
    /\ file \in File \cup {Absent}
    /\ edits \in 0..MaxEdits

Untouched == outcome = "compiled" /\ edits = 0

(* An accepted trace is a stretch of what its runtime observed: in the      *)
(* runtime's order, each observation once, none missing between the first   *)
(* and the last, whatever was lost, repeated or reordered on the way.       *)
(* (Nothing tells that the stretch is all there was.)                       *)
AcceptedIsStretch ==
    Untouched /\ Accepted(file) =>
        \E s \in 0..(Len(observed[Trace(batch)]) - Len(file.events)) :
            \A i \in 1..Len(file.events) :
                file.events[i].content = Decided(observed[Trace(batch)][s + i])

(* The converse: what a runtime observed over a stretch, reaching the       *)
(* caller once each and in any order, is compiled and accepted, whatever    *)
(* was denied in it.  The compiler must be able to read the actions, their  *)
(* effects must be their capability's, and no id may serve for an attempt   *)
(* that was denied and for one that was not: events are looked up by id.    *)
Whole(b) ==
    LET numbers == {b[i].content.sequence : i \in 1..Len(b)} IN
    /\ OneTrace(b)
    /\ \A i, j \in 1..Len(b) : b[i].content.sequence = b[j].content.sequence => i = j
    /\ \E n \in numbers : numbers = n..(n + Len(b) - 1)

Readable(b) ==
    \A i \in 1..Len(b) :
        WellFormed(b[i].content.action) /\ CapabilityMatchesEffects(b[i].content.action)

OwnIdsDenied(b) ==
    \A i, j \in 1..Len(b) :
        b[i].content.id = b[j].content.id => b[i].content.decision = b[j].content.decision

WholeIsAccepted ==
    /\ outcome # "none" /\ edits = 0
    /\ Whole(batch) /\ Readable(batch) /\ OwnIdsDenied(batch)
    => outcome = "compiled" /\ Accepted(file)

(* No denial is lost or turned by the compiler: its events are the batch's  *)
(* observations, as many times, and one that was denied is denied.          *)
DenialsSurvive ==
    Untouched =>
        /\ Len(file.events) = Len(batch)
        /\ \A i \in 1..Len(batch) :
              batch[i].content.decision = "deny" =>
                  \E j \in 1..Len(file.events) :
                      LET c == file.events[j].content IN
                      /\ c.id = batch[i].content.id /\ c.sequence = batch[i].content.sequence
                      /\ c.action = batch[i].content.action /\ c.decision = "deny"

(* Why Lean may refuse the module of a trace in which Python found nothing: *)
(* two names became one; a pattern in the file is not the catalog's; a      *)
(* handoff gives what is not its source's or goes to another tenant; a      *)
(* contract is met where it is named and not in every event.                *)
Unforeseen(mode, cs, s) ==
    {why \in {"names", "pattern", "handoff", "contract"} :
        \/ why = "names" /\ ~DistinctNames(Trace(batch), cs, s)
        \/ why = "pattern" /\ mode = Scoped /\ ~\A i \in Allowed(cs) : WithinCatalogPattern(cs[i])
        \/ why = "handoff" /\ \E h \in s.handoffs : ~HandoffSafe(h.handoff)
        \/ why = "contract" /\ \E n \in Named(cs, s) : ~TraceSatisfies(cs, s.contracts[n[2]])}

(* What the compiler returns and validation accepts has no issue that would *)
(* stop a Lean check, although the compiler looks at authority and tenant   *)
(* but not at effects and validation at effects but not at authority and    *)
(* tenant.  Of any file without an issue, however it was rewritten, the     *)
(* obligations pass and the tenant checks agree; in a mode whose            *)
(* prerequisites Python finds met, code generation has every name the mode  *)
(* must hold, and Lean proves all of it but for the four reasons above.     *)
AcceptedIsProvable ==
    /\ Untouched /\ Accepted(file) => SemanticIssues(file) = {}
    /\ outcome = "compiled" /\ SemanticIssues(file) = {} =>
          LET cs == Contents(file) IN
          /\ \A o \in DeciderObligations(cs) : o.passed
          /\ ValidateTrace(file, Flags \ {"tenant_isolation"})
          /\ ValidateTrace(file, Flags) <=>
                \A i \in 1..Len(cs) :
                    cs[i].decision = "deny" => ActionWithinTenant(cs[i].principal, cs[i].action)
          /\ \A mode \in Modes, s \in Supports :
                Prerequisites(mode, cs, s) /\ ContractsHold(cs, s) =>
                    LET theorems == GeneratedTheorems(mode, cs, s) IN
                    /\ RequiredTheorems(mode, cs) \subseteq Names(theorems)
                    /\ LeanAccepts(Trace(batch), cs, s, theorems)
                          <=> Unforeseen(mode, cs, s) = {}

(* Validation and replay check the chain in two ways: validation follows    *)
(* the stored hashes, replay computes all of them anew.  They agree on any  *)
(* file, however it was rewritten, apart from event signatures.             *)
ReplayAgrees ==
    outcome = "compiled" =>
        (ReplayMatches(file) <=>
            /\ HashesValid(file)
            /\ \A i \in 1..Len(file.events) : file.events[i].signature = file.events[i].hash)

(* The last event's hash seals the whole: a file whose chain is valid and   *)
(* that ends in the hash the compiler's last event had says what the        *)
(* compiler said, in number, order and content.                             *)
LastHashSealsAll ==
    outcome = "compiled" /\ HashesValid(file) /\ file.events # <<>> =>
        LET sealed == SealAll(Compiled(batch)) IN
        file.events[Len(file.events)].hash = sealed[Len(sealed)].hash
            => Contents(file) = Compiled(batch)

=============================================================================
