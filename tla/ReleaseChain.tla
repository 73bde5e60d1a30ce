---------------------------- MODULE ReleaseChain -----------------------------
(***************************************************************************)
(* A release directory from the chain that fills it to the audits of it.   *)
(*                                                                         *)
(* In phase "chain" the producers of a LabTrust release write the second   *)
(* run over the first in the shared work directory, while                  *)
(* release_fixtures.py copies the work directory file by file into a       *)
(* release run and promotes it.  In phase "audit" a target directory,      *)
(* promoted or put together by hand from two runs, is edited, maintained   *)
(* (scripts/materialize_labtrust_protocol_artifacts.py), extracted from,   *)
(* checked and reported on, by any profile.  The first run is the release  *)
(* candidate whose identity release_canonical.py pins.                     *)
(***************************************************************************)
EXTENDS ReleaseReport, LegacyChains

CONSTANTS Idle,   \* no build is under way
          Edits   \* what an edit may change: file, pointer and new value

\* Edits are of the release, not of the obligations extracted from it, nor of
\* the tag that says of which run a document is.
ASSUME IdleAssumption == Idle \notin Nat
ASSUME EditsAssumption == \A e \in Edits : e[1] # "proof_obligation" /\ e[2] # "run"

VARIABLES
  profile, \* the workflow profile of the target
  phase,   \* "chain" or "audit"
  heads,   \* the commit at which each repository stands
  stage,   \* how many stages of the second run the producers have done
  work,    \* the chain's work directory
  corpus,  \* the import report in Scientific Memory's corpus
  run,     \* release-run/
  step,    \* Idle, or how many files the build has copied
  target,  \* the release directory
  touched  \* what was done to the target by hand: "edited", "pinned"

vars == <<profile, phase, heads, stage, work, corpus, run, step, target, touched>>
chainVars  == <<heads, stage, work, corpus>>
targetVars == <<profile, target, touched>>

-----------------------------------------------------------------------------
\* The initial directories.

NoDirectory == [f \in {} |-> NoFile]

\* CHAIN_ARTIFACTS, in the order in which they are copied.
ChainArtifacts == <<"trace", "receipt", "certificate", "pending", "certified",
                    "verification", "signed">>

PinnedBundle == DocumentsOf(LabTrust, "r1").certified

\* write_labtrust_protocol_artifacts, after the verdict: the release manifest
\* and the handoffs state the pinned bundle, whatever the directory holds.
ProtocolArtifacts(dir) ==
  [manifest_v0 |-> With(ManifestV0For(dir, LabTrustSpec, {}),
                        "chain_root/certified_bundle_hash", Digest(PinnedBundle)),
   handoff_verifier |-> HandoffOf(PinnedBundle),
   handoff_pf |-> HandoffOf(PinnedBundle)]

Companions(dir, id) ==
  [manifest    |-> ManifestFor(dir, SpecOf(id), OldPins(SpecOf(id))),
   manifest_v0 |-> ManifestV0For(dir, SpecOf(id), {"result_v0"}),
   result_v0   |-> MaterializedResult(id)]

\* A directory put together from two runs, its manifests made afterwards, and
\* a handoff that may be of either.  Bound: there is no workflow_profile.v0.json,
\* so that the manifests, which an edit may change, say of which profile it is.
MixedFrom(id, second, handoff) ==
  LET Of(f) == IF f \in second THEN "r2" ELSE "r1"
      dir == [f \in SpecOf(id).artifacts |-> DocumentsOf(id, Of(f))[f]]
      full == IF id = Computation
                THEN Merge(dir, [payload |-> Payload(Of("result"))]) ELSE dir
  IN  Merge(Merge(full, Companions(full, id)),
            IF handoff = "none" THEN NoDirectory
            ELSE [handoff_verifier |-> HandoffOf(DocumentsOf(id, handoff).certified)])

\* The evidence a certificate is about stays of the first run: the two runs
\* are alike.
FirstEvidence(id) ==
  CASE id = LabTrust -> "trace" [] id = ToolUse -> "tool_trace" [] id = Computation -> "dataset"

Init ==
  /\ heads = OldHeads /\ stage = 0 /\ run = NoDirectory /\ step = Idle /\ touched = {}
  /\ corpus = ReportOf("r1", "old")
  /\ \/ /\ phase = "chain" /\ profile = LabTrust
        /\ work = [f \in ToSet(ChainArtifacts) |-> DocumentsOf(LabTrust, "r1")[f]]
        /\ target = NoDirectory
     \/ /\ phase = "audit" /\ work = NoDirectory
        /\ profile \in {LabTrust, ToolUse, Computation}
        /\ \E second \in SUBSET (SpecOf(profile).artifacts \ {FirstEvidence(profile)}),
              handoff \in {"none", "r1", "r2"} :
             target = MixedFrom(profile, second, handoff)

-----------------------------------------------------------------------------
\* The producers: each stage reads the work directory and writes into it.

Stage(n, files) ==
  /\ phase = "chain" /\ stage = n
  /\ stage' = n + 1
  /\ work' = Merge(work, files)
  /\ UNCHANGED <<heads, corpus, run, step, phase, targetVars>>

RunLab ==
  Stage(0, [trace |-> LabTrace("r2"), receipt |-> LabReceipt("r2", heads),
            pending |-> LabPending("r2", heads)])

Certify == Stage(1, [certificate |-> LabCertificate(work["trace"], heads)])

Assemble == Stage(2, [certified |-> LabCertified(work["pending"], work["certificate"])])

Verify == Stage(3, [verification |-> VerificationOf(work["certified"], heads.pf)])

Sign == Stage(4, [signed |-> SignedOf(work["certified"], work["verification"], heads.pf)])

Import ==
  /\ phase = "chain" /\ stage = 5
  /\ stage' = 6
  /\ corpus' = ReportOf(work["signed"].run, heads.sm)
  /\ UNCHANGED <<heads, work, run, step, phase, targetVars>>

\* A repository moves on, or the importer's is no checkout: git_commit_at then
\* gives zeros.  Bound: one move in a behaviour.
MoveHead(repo, commit) ==
  /\ phase = "chain" /\ heads = OldHeads
  /\ commit = "zero" => repo = "sm"
  /\ heads' = [heads EXCEPT ![repo] = commit]
  /\ UNCHANGED <<stage, work, corpus, run, step, phase, targetVars>>

-----------------------------------------------------------------------------
\* build_release_run: the run directory is removed and made again.

\* Fault: the directory of the last build is filled again.
FaultStartBuild ==
  /\ phase = "chain" /\ step = Idle
  /\ step' = 0
  /\ UNCHANGED <<chainVars, run, phase, targetVars>>

StartBuild ==
  /\ phase = "chain" /\ step = Idle
  /\ ToSet(ChainArtifacts) \subseteq DOMAIN work
  /\ run' = NoDirectory /\ step' = 0
  /\ UNCHANGED <<chainVars, phase, targetVars>>

CopyNext ==
  /\ step # Idle /\ step < Len(ChainArtifacts)
  /\ LET f == ChainArtifacts[step + 1] IN run' = With(run, f, work[f])
  /\ step' = step + 1
  /\ UNCHANGED <<chainVars, phase, targetVars>>

\* Fault: only the root's commit is made stable.
FaultNormalized(report, commit) == With(report, "source_commit", commit)

\* normalize_import_report: the importer's checkout, not the report, says at
\* which commit it was made.
Normalized(report, commit) ==
  With(With(report, "source_commit", commit), "scientific_memory_commit", commit)

\* commits_from_release_run.
PinsOf(dir) ==
  [pcs |-> "old", labtrust |-> dir["receipt"].source_commit,
   certifyedge |-> dir["certificate"].source_commit, pf |-> dir["verification"].source_commit,
   sm |-> dir["report"].source_commit]

WithManifest(dir) == With(dir, "manifest", ManifestFor(dir, LabTrustSpec, PinsOf(dir)))

\* A placeholder commit raises before the manifest is written.
FinishBuild ==
  /\ step = Len(ChainArtifacts)
  /\ LET dir == With(run, "report", Normalized(corpus, heads.sm))
     IN  run' = IF \E key \in DOMAIN PinsOf(dir) : Placeholder(PinsOf(dir)[key])
                THEN dir ELSE WithManifest(dir)
  /\ step' = Idle
  /\ UNCHANGED <<chainVars, phase, targetVars>>

AbandonBuild ==
  /\ step # Idle
  /\ step' = Idle
  /\ UNCHANGED <<chainVars, run, phase, targetVars>>

-----------------------------------------------------------------------------
\* promote_release_run: the target is removed, the run copied into it, and the
\* verdict, the release manifest and the handoffs written.  A crash leaves
\* what was done so far.  Bounds: a copy that stops has left out one file, or
\* has copied one file; nothing is built after a promotion, and the chain's own
\* directories are then no longer followed.
PartialCopies(dir) ==
  {NoDirectory} \cup {Without(dir, {f}) : f \in DOMAIN dir}
    \cup {[g \in {f} |-> dir[g]] : f \in DOMAIN dir}

PromotionStops(dir) ==
  LET reported == With(dir, "result_v0", BuildResult(dir))
      final    == Merge(reported, ProtocolArtifacts(dir))
  IN  PartialCopies(dir)
        \cup {dir, reported, Without(final, {"handoff_verifier", "handoff_pf"}), final}

Promote ==
  /\ phase = "chain" /\ step = Idle
  /\ ValidateRelease(run) = {}
  /\ target' \in PromotionStops(run)
  /\ phase' = "audit"
  /\ heads' = OldHeads /\ stage' = 0 /\ work' = NoDirectory /\ run' = NoDirectory
  /\ corpus' = ReportOf("r1", "old")
  /\ UNCHANGED <<step, profile, touched>>

-----------------------------------------------------------------------------
\* The maintenance script pins commits and identity to the release candidate.

IdPointers == {"certificate_id", "certificates/0/certificate_id",
               "verified_input/certificate_id",
               "science_claim_bundle/certificates/0/certificate_id"}
RefPointers == {"claim_artifact/certificate_refs", "evidence_bundle/certificate_refs"}
HashPointers == {"trace_hash", "certificates/0/trace_hash", "runtime_receipts/0/trace_hash",
                 "verified_input/trace_hash", "verification_result/verified_input/trace_hash",
                 "science_claim_bundle/certificates/0/trace_hash",
                 "science_claim_bundle/runtime_receipts/0/trace_hash"}

\* sync_release_artifact_provenance: every commit becomes the manifest's.
CommitPinned(doc) ==
  [p \in DOMAIN doc |->
     CASE p \in {"source_commit", "scientific_memory_commit"} -> "old"
       [] p = "nested" -> {[n EXCEPT !.commit = "old"] : n \in doc[p]}
       [] OTHER -> doc[p]]

\* sync_release_chain_identity_pins.
IdentityPinned(doc) ==
  [p \in DOMAIN doc |->
     CASE p \in IdPointers   -> CertificateId("r1")
       [] p \in RefPointers  -> {CertificateId("r1")}
       [] p \in HashPointers -> LabTrace("r1").trace_hash
       [] OTHER -> doc[p]]

PinCommits(dir) ==
  [f \in DOMAIN dir |-> IF f \in LabTrustSpec.artifacts THEN CommitPinned(dir[f]) ELSE dir[f]]

PinIdentity(dir) ==
  [f \in DOMAIN dir |-> IF f \in LabTrustSpec.artifacts THEN IdentityPinned(dir[f]) ELSE dir[f]]

\* main, and what a crash leaves of it; a missing file or a rejected check
\* stops it.
MaintenanceStops(dir) ==
  LET pinned   == With(dir, "manifest", Merge(dir["manifest"], OldPins(LabTrustSpec)))
      commits  == PinCommits(pinned)
      identity == PinIdentity(commits)
      digests  == WithManifest(identity)
      lean     == MaterializeLean(digests, TRUE, FALSE)
      reported == With(lean, "result_v0", BuildResult(lean))
      final    == Merge(reported, ProtocolArtifacts(lean))
      whole    == LabTrustSpec.artifacts \subseteq DOMAIN dir
      checked  == whole /\ Admitted(Extract(digests))
  IN  {pinned, commits, identity}
        \cup (IF whole THEN {digests, lean} ELSE {})
        \cup (IF checked /\ ValidateRelease(lean) # Raised THEN {reported, final} ELSE {})

\* Bound: the script is run once in a behaviour, on a directory that nobody
\* has edited.
Maintain ==
  /\ phase = "audit" /\ profile = LabTrust /\ touched = {}
  /\ IsDocument(Manifest(target))
  /\ target' \in MaintenanceStops(target)
  /\ touched' = {"pinned"}
  /\ UNCHANGED <<chainVars, run, step, phase, profile>>

-----------------------------------------------------------------------------
\* Audits.

\* Bounds: one edit in a behaviour, of a complete directory of the first run; an edit
\* removes a file, garbles it or changes one of Edits' fields, and the manifest
\* is made again or not.  Of the outcomes that a check of the obligations may
\* have left, a directory that is edited has the one of a plain materialization.
IsFirstRun(dir) ==
  \A f \in SpecOf(profile).artifacts \cap DOMAIN dir : At(dir[f], "run") \in {"r1", Absent}

\* A field, with everything below it, that is no longer there; the tag of the
\* run is none of the document's fields.
Dropped(doc, pointer) ==
  LET below == {p \in DOMAIN doc : /\ Len(p) > Len(pointer)
                                  /\ SubSeq(p, 1, Len(pointer) + 1) = pointer \o "/"}
      kept  == Without(doc, ({pointer} \cup below) \ {"run"})
  IN  IF "nested" \in DOMAIN kept
        THEN With(kept, "nested", {n \in kept["nested"] : n.under # pointer}) ELSE kept

Changed(doc, pointer, value) ==
  IF value = Absent THEN Dropped(doc, pointer) ELSE With(doc, pointer, value)

Edited(dir) ==
  {Without(dir, {f}) : f \in DOMAIN dir}
    \cup {With(dir, f, Garbled) : f \in DOMAIN dir}
    \cup {With(dir, e[1], Changed(dir[e[1]], e[2], e[3])) : e \in {e \in Edits : e[1] \in DOMAIN dir}}

\* sync_legacy_manifest_artifact_hashes, for the files that are there.
Redigested(dir) ==
  IF ~IsDocument(Manifest(dir)) THEN dir
  ELSE With(dir, "manifest", With(dir["manifest"], "artifacts",
         [f \in DOMAIN Listed(dir) |->
            IF f \in DOMAIN dir THEN Digest(dir[f]) ELSE Listed(dir)[f]]))

Edit ==
  /\ phase = "audit" /\ touched = {}
  /\ IsFirstRun(target) /\ SpecOf(profile).artifacts \subseteq DOMAIN target
  /\ At(File(target, "lean_check"), "claim_class") \in {Absent, "ProofChecked"}
  /\ \E dir \in Edited(target) : target' \in {dir, Redigested(dir)}
  /\ touched' = {"edited"}
  /\ UNCHANGED <<chainVars, run, step, phase, profile>>

Audit(dir) ==
  /\ phase = "audit"
  /\ target' = dir
  /\ UNCHANGED <<chainVars, run, step, phase, profile, touched>>

\* pcs lean-materialize, with or without a build that works.  Bound: the
\* envelope's files are followed in directories of the first run.
Materialize ==
  /\ IsFirstRun(target)
  /\ \E build, skip \in BOOLEAN : Audit(MaterializeLean(target, build, skip))

\* pcs lean-check on the obligations that are on disk: the directory itself is
\* not read again.  Bound: only in a directory that nobody has touched, as the
\* result would be the same in any other.
CheckObligations ==
  /\ touched = {}
  /\ IsDocument(File(target, "proof_obligation"))
  /\ \E build \in BOOLEAN, proof \in Answers(target["proof_obligation"]) :
       Audit(With(target, "lean_check", LeanResult(target["proof_obligation"], build, proof)))

\* pcs validate-release-chain with an output path: no verdict when it raises.
WriteResult ==
  /\ ValidateRelease(target) # Raised
  /\ Audit(With(target, "result_v0", BuildResult(target)))

-----------------------------------------------------------------------------
\* The commits at which a repository may stand.
HeadCommits == {"old", "new", "zero"}
Heads == [DOMAIN OldHeads -> HeadCommits]

\* The sentinels are no document and no value of one.
Distinct(docs) ==
  (\A f \in DOMAIN docs : IsDocument(docs[f])) /\ Digest(docs["certified"]) # Absent

ASSUME SentinelAssumption ==
  /\ NoFile # Garbled /\ Object # Absent /\ TRUE # Absent
  /\ \A value \in {"", "sealed", "pattern", LabTrust} \cup HeadCommits \cup Runs : value # Absent
  /\ \A r \in Runs : /\ CertificateId(r) # Absent /\ {CertificateId(r)} # Absent
                     /\ LabTrace(r).trace_hash # Absent
                     /\ Distinct(DocumentsOf(ToolUse, r)) /\ Distinct(DocumentsOf(Computation, r))
  /\ \A r, q \in Runs, h \in Heads, signer, made, pinned \in HeadCommits :
       LET docs     == LabTrustDocuments(r, h, signer)
           built    == With(docs, "report", Normalized(ReportOf(q, made), pinned))
           manifest == ManifestFor(built, LabTrustSpec, PinsOf(built))
       IN  /\ Distinct(docs) /\ IsDocument(built["report"])
           /\ IsDocument(manifest) /\ manifest.artifacts # Absent

Next ==
  \/ RunLab \/ Certify \/ Assemble \/ Verify \/ Sign \/ Import
  \/ \E repo \in DOMAIN OldHeads, commit \in {"new", "zero"} : MoveHead(repo, commit)
  \/ StartBuild \/ CopyNext \/ FinishBuild \/ AbandonBuild \/ Promote
  \/ Maintain \/ Edit \/ Materialize \/ CheckObligations \/ WriteResult

Spec == Init /\ [][Next]_vars

-----------------------------------------------------------------------------
\* Properties.

OneRun(dir, files) == \A f, g \in files : dir[f].run = dir[g].run

Validates(dir) == ValidateRelease(dir) = {}

\* A handoff in the directory is of the bundle in it.
HandoffIsOwn(dir) ==
  At(File(dir, "handoff_verifier"), "invariants/certified_bundle_hash")
    \in {Absent, Digest(dir["certified"])}

Evidence(id) ==
  CASE id = LabTrust    -> {"trace", "receipt", "certificate"}
    [] id = ToolUse     -> {"tool_trace", "receipt", "certificate"}
    [] id = Computation -> {"dataset", "environment", "run_receipt", "result", "witness"}

\* The types of the variables.
TypeOK ==
  /\ profile \in {s.id : s \in Specs}
  /\ phase \in {"chain", "audit"}
  /\ heads \in Heads
  /\ stage \in 0..6
  /\ step \in 0..Len(ChainArtifacts) \cup {Idle}
  /\ step \in Nat => DOMAIN run = {ChainArtifacts[i] : i \in 1..step}
  /\ DOMAIN work \subseteq ToSet(ChainArtifacts)
  /\ touched \in {{}, {"edited"}, {"pinned"}}
  /\ phase = "chain" => target = NoDirectory

\* A directory that passes validation without having been pinned by the
\* maintenance script holds evidence, certificate and certified bundle of one
\* run, and unless a handoff of another bundle lies beside them also that
\* run's verification; in LabTrust the verification and the signed bundle
\* always: whatever the producers did while the run was copied, and wherever a
\* promotion stopped (release_chain.py, release_fixtures.py:478).
ValidatedIsOneRun ==
  "pinned" \notin touched =>
    \A dir \in {run, target} :
      Validates(dir) =>
        OneRun(dir, Evidence(profile) \cup {"certified"}
                      \cup (IF profile = LabTrust THEN {"verification", "signed"}
                            ELSE IF HandoffIsOwn(dir) THEN {"verification"} ELSE {}))

\* Obligations that hold are those that Lean proves, of whatever directory they
\* are extracted (lean_trust.py:180, _evaluate_obligation, against
\* lean/PCS/ReleaseChainCheck.lean): Lean is asked only when Python is
\* satisfied, and then has nothing to refuse.
AdmittedIsProvable ==
  LET doc == Extract(target)
  IN  Admitted(doc) => Proves(doc)

\* With obligations that hold the signed bundle too is of the run that
\* validates: the envelope ties it where the chain of the later profiles does
\* not (release_profile_specs.py:537).
AdmittedIsOneRun ==
  (/\ "pinned" \notin touched
   /\ Admitted(Extract(target)) /\ Validates(target) /\ HandoffIsOwn(target)) =>
    OneRun(target, Evidence(profile) \cup {"certified", "verification", "signed"})

\* A complete run directory whose documents are of one run, verified and signed
\* at one commit, passes validation: neither a move of a repository nor the
\* order of build and chain makes an honest release fail
\* (release_fixtures.py, build_release_run).
HonestRunValidates ==
  (/\ step = Idle /\ "manifest" \in DOMAIN run
   /\ OneRun(run, ToSet(ChainArtifacts))
   /\ run["verification"].source_commit = run["signed"].source_commit)
  => Validates(run)

\* What the engine asks beyond the hand-written chains: a signature; the rules
\* on the import also where no importer is pinned; and of a LabTrust release
\* the importer's own pin, the embedded bundle and result, and handoffs of a
\* known kind.
EngineAlone(dir, id) ==
  LET signed   == File(dir, "signed")
      unpinned == Pinned(dir, "sm") = Absent
      unknown  == \E f \in LabTrustSpec.handoffs : At(File(dir, f), "handoff_kind") = "unknown"
  IN  {"signature_missing"}
        \cup Issue(unpinned, "scientific_memory_import_failed")
        \cup (IF id # LabTrust THEN {} ELSE
                 Issue(unpinned, "legacy_import_detected")
                   \cup Issue(At(File(dir, "report"), "scientific_memory_commit") = Absent,
                              "scientific_memory_commit_mismatch")
                   \cup Issue(At(signed, "science_claim_bundle") # Object,
                              "certificate_id_mismatch")
                   \cup Issue(At(signed, "verification_result") # Object \/ unknown,
                              "schema_validation_failed"))

\* Where neither raises, the declarative engine finds all that the hand-written
\* chains find, and beyond that only what EngineAlone lists
\* (release_profile_engine.py:249, compare_legacy_and_declarative).
LegacyAgrees ==
  LET engine == ProfileCodes(target, SpecOf(profile))
      legacy == LegacyCodes(target, SpecOf(profile))
  IN  (engine # Raised /\ legacy # Raised) =>
        /\ legacy \subseteq engine
        /\ engine \ legacy \subseteq EngineAlone(target, profile)

\* Obligations on disk whose projection replays against the directory are
\* those an extraction gives now, unless it raises or the directory is now
\* taken for another profile's: no later edit of what the obligations compare,
\* a status among it, goes by a replay (pcs_projection.py,
\* validate_projection_against_release).
ReplayIsCurrent ==
  LET doc == File(target, "proof_obligation")
      now == Extract(target)
  IN  (/\ IsDocument(doc) /\ Replays(doc, target)
       /\ now # Refused /\ now.workflow = doc.workflow) => now = doc

\* A verdict ProofChecked has no failed check and no failure code
\* (registry_semantics.py:82, protocol_validate.py:193).
StatusMatchesOutcomes ==
  LET verdict == File(target, "result_v0")
  IN  (IsDocument(verdict) /\ verdict.status = "ProofChecked") =>
        verdict.failed = {} /\ verdict.failure_codes = {}
=============================================================================
