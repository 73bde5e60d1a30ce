---------------------------- MODULE ReleaseReport ----------------------------
(***************************************************************************)
(* The verdict written beside a release (release_chain_report.py,          *)
(* release_chain_checks.py): the codes of the validator mapped onto the    *)
(* catalogue of 30 checks, the checks of an earlier verdict taken over     *)
(* when nothing is wrong, and the status.                                  *)
(***************************************************************************)
EXTENDS EnvelopeProof

\* The catalogue, a check being the set of codes that make it fail: checks of
\* equal codes fail together.
Catalog ==
  {{"manifest_missing"}, {"artifact_missing"}, {"manifest_hash_mismatch"},
   {"local_dev_detected", "placeholder_commit_detected", "schema_validation_failed"},
   {"labtrust_commit_mismatch"}, {"certifyedge_commit_mismatch"}, {"pf_commit_mismatch"},
   {"scientific_memory_commit_mismatch"}, {"certificate_id_mismatch"},
   {"trace_hash_mismatch"}, {"verified_input_hash_mismatch"},
   {"signed_input_hash_mismatch"}, {"scientific_memory_import_failed"},
   {"legacy_import_detected", "scientific_memory_import_failed"},
   {"schema_validation_failed"}}

\* build_checks_from_issues: the checks that fail.
FailedChecks(codes) == {check \in Catalog : check \cap codes # {}}

\* The catalogue cites what the registry asks of every profile but a
\* computation, whose payload check is in the materialized verdict only.
CatalogCovers(id) == id # Computation

\* A verdict as the materialize scripts write it, with checks of the profile.
MaterializedResult(id) ==
  [workflow_profile_id |-> id, status |-> "ProofChecked", failed |-> {}, covers |-> TRUE,
   failure_codes |-> {}, formal |-> <<>>]

ResultProfile(dir) ==
  IF DetectProfile(dir) = Absent THEN LabTrust ELSE DetectProfile(dir)

\* The checks of an earlier verdict for the same profile, whatever they say,
\* replace those of this validation when this one has no issue.  A result on
\* disk lists a check at least: the schema asks for it.
Reused(dir, codes) ==
  /\ codes = {}
  /\ At(File(dir, "result_v0"), "workflow_profile_id") = ResultProfile(dir)

\* build_release_chain_validation_result, of a directory whose validation
\* does not raise.
BuildResult(dir) ==
  LET id     == ResultProfile(dir)
      codes  == ValidateRelease(dir)
      failed == IF Reused(dir, codes) THEN dir["result_v0"].failed ELSE FailedChecks(codes)
      covers == IF Reused(dir, codes) THEN dir["result_v0"].covers ELSE CatalogCovers(id)
  IN  [workflow_profile_id |-> id,
       status |-> IF ~covers \/ (codes # {} /\ failed # {}) THEN "Rejected" ELSE "ProofChecked",
       failed |-> failed,
       covers |-> covers,
       failure_codes |-> codes \cup Issue(~covers, "registry_check_coverage_gap"),
       formal |-> IF IsDocument(File(dir, "lean_check"))
                    THEN FormalChecks(dir["lean_check"]) ELSE <<>>]

-----------------------------------------------------------------------------
\* lean_materialize.py: the two artifacts of the envelope.

\* validate_lean_check_result_semantics.
LeanResultConforms(result) ==
  /\ result.claim_class = "EnvelopeLeanChecked" => result.lean_proof_checked
  /\ result.status = "ProofChecked" => result.failed = {}

\* skip_if_unchanged: both are there and pass `pcs validate', which replays
\* the projection where there is a release manifest.
LeanArtifactsKept(dir, skip) ==
  /\ skip
  /\ IsDocument(File(dir, "proof_obligation"))
  /\ IsDocument(File(dir, "lean_check"))
  /\ "manifest_v0" \in DOMAIN dir => Replays(dir["proof_obligation"], dir)
  /\ LeanResultConforms(dir["lean_check"])

\* materialize_lean_trust_artifacts: the obligations are on disk before the
\* check that may reject them, whose result is then not written.
MaterializeLean(dir, build, skip) ==
  LET doc == Extract(dir)
  IN  IF LeanArtifactsKept(dir, skip) \/ doc = Refused THEN dir
      ELSE LET result  == LeanResult(doc, build, "none")
               written == With(dir, "proof_obligation", doc)
           IN  IF result.status = "ProofChecked" THEN With(written, "lean_check", result)
               ELSE written
=============================================================================
