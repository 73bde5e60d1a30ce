----------------------------- MODULE TraceFile -----------------------------
(***************************************************************************)
(* A PFCoreTrace.v0 file: numbered events, each sealed by the hash of its  *)
(* content and of its predecessor's hash, and the hash of the whole.  How  *)
(* compilers seal it, how validation and replay judge it.  Translated from *)
(* python/pcs_core/pf_core_runtime.py, validate_pf_core.py and             *)
(* pf_core_replay.py.                                                      *)
(*                                                                         *)
(* Hashes do not collide, so a hash is what it was computed from: an event *)
(* hash is the contents it seals from the first event to its own, the hash *)
(* before the first event is the empty sequence, and the trace hash is the *)
(* list of events.  Fields that compilers copy unchanged (workflow, policy *)
(* and contract hashes, repository, commit) are left out.                  *)
(***************************************************************************)
EXTENDS PFDeciders

CONSTANTS
    EventIds,  \* event_id values
    Scope      \* [Capabilities -> resources its catalog pattern matches]

Numbers == Nat

(* What an event says, and the event as it stands in a file.  `pattern' is   *)
(* what the resource pattern written in the event matches: compilers write  *)
(* the catalog's, nothing compares a file's with it.                        *)
Content == [id: EventIds, sequence: Numbers, principal: Principals, action: Actions,
            pattern: SUBSET Resources, decision: {"allow", "deny"}]

Hash == Seq(Content)

SealedEvent == [content: Content, previous: Hash, hash: Hash, signature: Hash]

File == [events: Seq(SealedEvent), traceHash: Seq(SealedEvent)]

ASSUME ScopeAssumption == Scope \in [Capabilities -> SUBSET Resources]

Genesis == <<>>

-----------------------------------------------------------------------------
(* Sealing. *)

(* compute_event_hash: the content and previous_event_hash, not event_hash. *)
EventHash(ev) == Append(ev.previous, ev.content)

Seal(content, previous) ==
    LET h == Append(previous, content)
    IN  [content |-> content, previous |-> previous, hash |-> h, signature |-> h]

(* Each event is sealed on the hash of the one before it. *)
SealAll(contents) ==
    [i \in 1..Len(contents) |-> Seal(contents[i], SubSeq(contents, 1, i - 1))]

SealedFile(contents) == [events |-> SealAll(contents), traceHash |-> SealAll(contents)]

Contents(f) == [i \in 1..Len(f.events) |-> f.events[i].content]

-----------------------------------------------------------------------------
(* Judging. *)

(* The capability is of the catalog with this very effect, all effects are *)
(* known and there is one at least.                                        *)
InCatalog(a) ==
    /\ KnownCapabilityEffect(a.capability, a.capabilityEffect)
    /\ a.effects # {} /\ ActionEffectsKnown(a)

(* _validate_action of the compilers, which put the catalog's pattern in the *)
(* place of any other.  (Nothing ties the effects to the capability.)       *)
WellFormed(a) == InCatalog(a) /\ Footprint(a) \subseteq Scope[a.capability]

(* validate_resource_scope: the pattern is the one the event gives itself.  *)
InPattern(c) == Footprint(c.action) \subseteq c.pattern

(* _validate_direct_trace_action_semantics and the scopes, on every event. *)
ActionsValid(f) ==
    \A i \in 1..Len(f.events) :
        LET c == f.events[i].content
        IN  InCatalog(c.action) /\ CapabilityMatchesEffects(c.action) /\ InPattern(c)

(* Fault: an event's link to its predecessor is not followed. *)
UnlinkedHashesValid(f) ==
    /\ \A i \in 1..Len(f.events) : f.events[i].hash = EventHash(f.events[i])
    /\ f.traceHash = f.events

(* Fault: the link is checked against what the predecessor should hash to,  *)
(* and whether it does is not checked.                                      *)
UncheckedHashesValid(f) ==
    /\ \A i \in 1..Len(f.events) :
          f.events[i].previous = IF i = 1 THEN Genesis ELSE EventHash(f.events[i - 1])
    /\ f.traceHash = f.events

(* validate_pfcore_trace_hash_chain, its hashes. *)
HashesValid(f) ==
    /\ \A i \in 1..Len(f.events) :
          LET ev == f.events[i] IN
          /\ ev.previous = IF i = 1 THEN Genesis ELSE f.events[i - 1].hash
          /\ ev.hash = EventHash(ev)
    /\ f.traceHash = f.events

(* Fault: gaps are tolerated (strict_gaps=False). *)
LooseSequenceOrder(f) ==
    \A i \in 1..(Len(f.events) - 1) :
        f.events[i].content.sequence < f.events[i + 1].content.sequence

(* validate_event_sequence_order with strict_gaps: no duplicate, no step    *)
(* back, no gap.  The first number is free.                                 *)
SequenceOrder(f) ==
    \A i \in 1..(Len(f.events) - 1) :
        f.events[i + 1].content.sequence = f.events[i].content.sequence + 1

(* validate_file on a trace. *)
Accepted(f) == ActionsValid(f) /\ HashesValid(f) /\ SequenceOrder(f)

(* replay_trace without --source: every hash is computed anew, front to     *)
(* back, and compared with the stored one; so is each event's               *)
(* signature_or_digest.                                                     *)
ReplayMatches(f) ==
    f.events = SealAll(Contents(f)) /\ f.traceHash = SealAll(Contents(f))

=============================================================================
