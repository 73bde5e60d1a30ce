-------------------------- MODULE ResolvedEvidence --------------------------
(***************************************************************************)
(* Which files near a trace a certificate rests on, and what of them the   *)
(* proof sees: evidence selection, resolution and the semantic projection. *)
(* Translated from python/pcs_core/pf_core_resolved_evidence.py,           *)
(* pf_core_lean_codegen.py, pf_core_contract.py and                        *)
(* pf_core_semantic_projection.py.                                         *)
(*                                                                         *)
(* A directory is [files, nested, toolUse, policy]: its JSON files in the  *)
(* order of their names, those of contracts/, the handoffs inside          *)
(* tool_use_trace.json, and evidence_selection.json.  A file is            *)
(* [name, kind, id, body], a body what a projection keeps of it; a digest  *)
(* is the body.  Sources are looked for by kind and id, and remembered by  *)
(* the name of the file they came from.                                    *)
(* The simulation that FramePreserved certificates need is in PFKernel.    *)
(***************************************************************************)
EXTENDS SequencesExt, StableOrder

CONSTANTS
    NoSelection,        \* nothing selects evidence
    NoId,               \* the selection does not mention this kind
    NoFrame,
    Embedded,           \* found inside another file: no name of its own
    IdOrder,            \* contract ids in the order of sorted()
    Catalog             \* [capability id -> effect and pattern]

ContractMode == "ContractCheckedCertificate"
HandoffMode == "HandoffSafeCertificate"
FrameMode == "EffectFrameCertificate"

\* sorted() by the sequence number, events of one number as they stand.
EventsOf(trace) ==
    Arranged(trace.events, [i \in DOMAIN trace.events |-> trace.events[i].sequence],
             DOMAIN trace.events)

\* The selection inside the trace wins over the file beside it.
Selection(trace, dir) == IF trace.selection # NoSelection THEN trace.selection ELSE dir.policy

Selects(sel, kind) == sel # NoSelection /\ sel[kind] # NoId

\* _selected_ids: what is not mentioned is not the same as an empty list.
SelectedIds(sel, kind) == IF Selects(sel, kind) THEN sel[kind] ELSE <<>>

Matching(files, kind, id) == {i \in DOMAIN files : files[i].kind = kind /\ files[i].id = id}
Ids(files, kind) == {f.id : f \in {g \in ToSet(files) : g.kind = kind}}
FirstWith(files, kind, id) == files[Min(Matching(files, kind, id))]
LastWith(files, kind, id) == files[Max(Matching(files, kind, id))]

(***************************************************************************)
(* Handoffs.  Of several files with one id the first is the handoff, but   *)
(* the path noted for it is that of the last.                              *)
(***************************************************************************)
HandoffsNear(dir) == dir.files \o dir.toolUse

HandoffPath(dir, id) ==
    IF id \in Ids(dir.files, "handoff") THEN LastWith(dir.files, "handoff", id).name ELSE Embedded

ResolvedHandoff(dir, id) ==
    [kind |-> "handoff", id |-> id, body |-> FirstWith(HandoffsNear(dir), "handoff", id).body,
     path |-> HandoffPath(dir, id)]

(***************************************************************************)
(* Contracts.  The last file with an id counts, contracts/ after the rest. *)
(***************************************************************************)
ContractsNear(dir) == dir.files \o dir.nested
LoadedContract(dir, id) == LastWith(ContractsNear(dir), "contract", id)

ReferencedIds(trace) == UNION {e.refs : e \in ToSet(trace.events)}

\* Of the contracts there, those the events name.
NamedPlaces(trace, dir) ==
    {i \in DOMAIN IdOrder :
        IdOrder[i] \in Ids(ContractsNear(dir), "contract") \cap ReferencedIds(trace)}

\* Without a selection: what the events name, where it is a contract at all.
ContractIds(trace, dir, sel) ==
    IF Selects(sel, "contracts") THEN sel.contracts
    ELSE Arranged(IdOrder, [i \in DOMAIN IdOrder |-> i], NamedPlaces(trace, dir))

ResolvedContract(dir, id) ==
    [kind |-> "contract", id |-> id, body |-> LoadedContract(dir, id).body,
     path |-> LoadedContract(dir, id).name]

(***************************************************************************)
(* The effect frame: one, global, declared apart from the actions.         *)
(***************************************************************************)
FrameIds(dir) == Ids(dir.files, "frame")
FrameBody(dir, id) == FirstWith(dir.files, "frame", id).body

ResolvedFrame(dir, id) ==
    [kind |-> "frame", id |-> id, body |-> FrameBody(dir, id),
     path |-> FirstWith(dir.files, "frame", id).name]

ActionInFrame(event, frame) == frame.allowed # {} /\ event.effects \subseteq frame.allowed
ActionsInFrame(trace, frame) == \A e \in ToSet(trace.events) : ActionInFrame(e, frame)

(***************************************************************************)
(* resolve_pf_core_evidence: its errors, and what it returns without any.  *)
(***************************************************************************)
SelectionErrors(sel) ==
    {e \in {"DuplicateId"} : \E k \in {"handoffs", "contracts"} :
        Selects(sel, k) /\ ~IsInjective(sel[k])}

HandoffErrors(dir, sel, mode) ==
    {e \in {"HandoffSelectionRequired", "HandoffNotFound"} :
        \/ e = "HandoffSelectionRequired" /\ mode = HandoffMode /\ ~Selects(sel, "handoffs")
        \/ /\ e = "HandoffNotFound"
           /\ ~(ToSet(SelectedIds(sel, "handoffs")) \subseteq Ids(HandoffsNear(dir), "handoff"))}

ContractErrors(trace, dir, sel, mode) ==
    {e \in {"ContractSelectionRequired", "ContractNotFound", "NoContract", "RefsUnresolved"} :
        \/ /\ e = "ContractSelectionRequired" /\ mode = ContractMode
           /\ ~Selects(sel, "contracts")
        \/ /\ e = "ContractNotFound"
           /\ ~(ToSet(SelectedIds(sel, "contracts")) \subseteq Ids(ContractsNear(dir), "contract"))
        \/ e = "NoContract" /\ mode = ContractMode /\ ContractIds(trace, dir, sel) = <<>>
        \/ /\ e = "RefsUnresolved" /\ mode = ContractMode
           /\ ~(ReferencedIds(trace) \subseteq ToSet(ContractIds(trace, dir, sel)))}

FrameErrors(trace, dir, sel, mode) ==
    LET found == Selects(sel, "frame") /\ sel.frame \in FrameIds(dir)
    IN  {e \in {"FrameAmbiguous", "FrameRequired", "FrameNotFound", "FrameScope", "OutsideFrame"} :
            \/ /\ e = "FrameAmbiguous"
               /\ \E id \in FrameIds(dir) : \E i, j \in Matching(dir.files, "frame", id) : i # j
            \/ e = "FrameRequired" /\ mode = FrameMode /\ ~Selects(sel, "frame")
            \/ e = "FrameNotFound" /\ Selects(sel, "frame") /\ ~found
            \/ e = "FrameScope" /\ found /\ ~FrameBody(dir, sel.frame).global
            \/ /\ e = "OutsideFrame" /\ mode = FrameMode /\ found
               /\ ~ActionsInFrame(trace, FrameBody(dir, sel.frame))}

ResolutionErrors(trace, dir, mode) ==
    LET sel == Selection(trace, dir)
    IN  SelectionErrors(sel) \cup HandoffErrors(dir, sel, mode)
        \cup ContractErrors(trace, dir, sel, mode) \cup FrameErrors(trace, dir, sel, mode)

Mapped(F(_), ids) == [i \in DOMAIN ids |-> F(ids[i])]

Resolved(trace, dir) ==
    LET sel == Selection(trace, dir)
        handoff(id) == ResolvedHandoff(dir, id)
        contract(id) == ResolvedContract(dir, id)
    IN  [handoffs  |-> Mapped(handoff, SelectedIds(sel, "handoffs")),
         contracts |-> Mapped(contract, ContractIds(trace, dir, sel)),
         frame     |-> IF Selects(sel, "frame") THEN ResolvedFrame(dir, sel.frame) ELSE NoFrame]

(***************************************************************************)
(* The projection: the fields Lean sees.  A delegation must be that of the *)
(* catalog to the letter.  The evidence an event refers to is left out, and *)
(* so is where an evidence file came from.                                 *)
(***************************************************************************)
InCatalog(cap) ==
    cap.id \in DOMAIN Catalog /\ cap.effect = Catalog[cap.id].effect
    /\ cap.pattern = Catalog[cap.id].pattern

ProjectionErrors(resolved) ==
    {e \in {"EmptyDelegation", "DelegationNotInCatalog"} : \E i \in DOMAIN resolved.handoffs :
        LET caps == resolved.handoffs[i].body.caps
        IN  \/ e = "EmptyDelegation" /\ caps = <<>>
            \/ e = "DelegationNotInCatalog" /\ \E c \in ToSet(caps) : ~InCatalog(c)}

ReferencingEvents(events, id) ==
    LET found == SelectSeq(events, LAMBDA e : id \in e.refs)
    IN  [i \in DOMAIN found |-> found[i].sequence]

ProjectedEvent(e) ==
    [sequence |-> e.sequence, decision |-> e.decision, principal |-> e.principal, cap |-> e.cap,
     effects |-> e.effects, tenants |-> e.tenants, refs |-> e.refs]

Shown(item) == [id |-> item.id, body |-> item.body]

Project(trace, mode, resolved) ==
    LET events == EventsOf(trace)
        contract(c) == [id |-> c.id, body |-> c.body, events |-> ReferencingEvents(events, c.id)]
    IN  [mode |-> mode, events |-> Mapped(ProjectedEvent, events),
         handoffs |-> Mapped(Shown, resolved.handoffs),
         contracts |-> Mapped(contract, resolved.contracts),
         frame |-> IF resolved.frame = NoFrame THEN NoFrame ELSE Shown(resolved.frame)]

EvidenceErrors(trace, dir, mode) ==
    LET errors == ResolutionErrors(trace, dir, mode)
    IN  IF errors # {} THEN errors ELSE ProjectionErrors(Resolved(trace, dir))

ProjectionOf(trace, dir, mode) == Project(trace, mode, Resolved(trace, dir))

(***************************************************************************)
(* What a bundle takes along: a list of items, and of each a copy of the   *)
(* file of its name as it is when its turn comes.  What has no file of its *)
(* own is written out as it was read.  A copy is named for its item.       *)
(***************************************************************************)
PolicyId == "evidence_selection"

FilesNear(dir) ==
    ToSet(dir.files) \cup ToSet(dir.nested)
    \cup {f \in {[name |-> PolicyId, kind |-> "policy", id |-> PolicyId, body |-> dir.policy]} :
             dir.policy # NoSelection}

\* Last the selection: the one in the trace, else the file, if there is one.
PolicyItem(trace) ==
    [kind |-> "policy", id |-> PolicyId, body |-> trace.selection,
     path |-> IF trace.selection # NoSelection THEN Embedded ELSE PolicyId]

Items(trace, dir) ==
    LET r == Resolved(trace, dir)
    IN  r.handoffs \o r.contracts \o (IF r.frame = NoFrame THEN <<>> ELSE <<r.frame>>)
        \o <<PolicyItem(trace)>>

Gone(item, dir) == item.path # Embedded /\ \A f \in FilesNear(dir) : f.name # item.path

Copied(item, dir) ==
    LET file == IF item.path = Embedded THEN item
                ELSE CHOOSE f \in FilesNear(dir) : f.name = item.path
    IN  [name |-> <<item.kind, item.id>>, kind |-> file.kind, id |-> file.id, body |-> file.body]

\* All of them, of one directory: only the policy, the last, can be missing.
EvidenceFiles(trace, dir) ==
    LET items == Items(trace, dir)
    IN  [i \in {j \in DOMAIN items : ~Gone(items[j], dir)} |-> Copied(items[i], dir)]

\* The directory a verifier lays out from the files of a bundle.
Staged(files) ==
    [files |-> files, nested |-> <<>>, toolUse |-> <<>>,
     policy |-> IF PolicyId \in Ids(files, "policy") THEN FirstWith(files, "policy", PolicyId).body
                ELSE NoSelection]
=============================================================================
