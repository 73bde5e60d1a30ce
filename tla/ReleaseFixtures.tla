-------------------------- MODULE ReleaseFixtures ---------------------------
(***************************************************************************)
(* The documents of the three release chains, as their producers write     *)
(* them.  The LabTrust documents come from other repositories and are      *)
(* modelled from what pcs-core reads of them; the tool-use and computation *)
(* documents are the ones the materialize scripts build.  `run' tags a     *)
(* document with the run it was made in; no check reads it.                *)
(***************************************************************************)
EXTENDS ReleaseProfile

Merge(f, g) ==
  [p \in DOMAIN f \cup DOMAIN g |-> IF p \in DOMAIN g THEN g[p] ELSE f[p]]

\* A document of `run' that a repository produced at `commit'.
Produced(r, repo, commit, fields) ==
  Merge([run |-> r, source_repo |-> repo, source_commit |-> commit, nested |-> {}], fields)

Node(under, repo, commit) == [under |-> under, repo |-> repo, commit |-> commit]

\* A certificate id is made once for each run.
CertificateId(r) == <<"certificate", r>>

-----------------------------------------------------------------------------
\* LabTrust: `h' is the commit each repository stands at.

LabTrace(r) ==
  [run |-> r, nested |-> {}, trace_hash |-> <<"trace", r>>, events |-> {"event"}]

LabReceipt(r, h) ==
  Produced(r, "labtrust", h.labtrust,
    [trace_hash |-> <<"trace", r>>, signature_or_digest |-> "sealed"])

LabPending(r, h) ==
  Produced(r, "labtrust", h.labtrust,
    [p \in {"runtime_receipts/0", "runtime_receipts/0/trace_hash"} |->
       IF p = "runtime_receipts/0" THEN Object ELSE <<"trace", r>>])

LabCertificate(trace, h) ==
  Produced(trace.run, "certifyedge", h.certifyedge,
    [trace_hash |-> trace.trace_hash, certificate_id |-> CertificateId(trace.run),
     status |-> "CertificateChecked", signature_or_digest |-> "sealed"])

\* The certified bundle of a chain: a bundle with the certificate in it and
\* its id among the references of claim and evidence.
BundleWith(id, hash) ==
  [p \in {"certificates/0", "certificates/0/certificate_id", "certificates/0/trace_hash",
          "runtime_receipts/0", "runtime_receipts/0/trace_hash",
          "claim_artifact/certificate_refs", "evidence_bundle/certificate_refs"} |->
     CASE p \in {"certificates/0", "runtime_receipts/0"} -> Object
       [] p = "certificates/0/certificate_id" -> id
       [] p \in {"certificates/0/trace_hash", "runtime_receipts/0/trace_hash"} -> hash
       [] OTHER -> {id}]

LabCertified(pending, certificate) ==
  Merge(Merge(pending, BundleWith(certificate.certificate_id, certificate.trace_hash)),
        [nested |-> {Node("certificates", "certifyedge", certificate.source_commit)}])

\* The verifier's result and the signed bundle are alike in the three chains.
VerificationOf(certified, commit) ==
  Produced(certified.run, "pf", commit,
    [p \in {"status", "checks", "verified_input", "verified_input/bundle_hash",
            "verified_input/certificate_id", "verified_input/trace_hash"} |->
       CASE p = "status"         -> "ProofChecked"
         [] p = "checks"         -> {"passed"}
         [] p = "verified_input" -> Object
         [] p = "verified_input/bundle_hash"    -> Digest(certified)
         [] p = "verified_input/certificate_id" -> certified["certificates/0/certificate_id"]
         [] p = "verified_input/trace_hash"     -> certified["certificates/0/trace_hash"]])

\* What the signed bundle embeds of the certified bundle, of the result, and of
\* the provenance of both.
EmbeddedBundle(certified) ==
  [p \in {"science_claim_bundle", "science_claim_bundle/certificates/0",
          "science_claim_bundle/certificates/0/certificate_id",
          "science_claim_bundle/certificates/0/trace_hash",
          "science_claim_bundle/runtime_receipts/0",
          "science_claim_bundle/runtime_receipts/0/trace_hash"} |->
     CASE p = "science_claim_bundle" -> Object
       [] p = "science_claim_bundle/certificates/0" -> certified["certificates/0"]
       [] p = "science_claim_bundle/certificates/0/certificate_id" ->
            certified["certificates/0/certificate_id"]
       [] p = "science_claim_bundle/certificates/0/trace_hash" ->
            certified["certificates/0/trace_hash"]
       [] p = "science_claim_bundle/runtime_receipts/0" -> certified["runtime_receipts/0"]
       [] p = "science_claim_bundle/runtime_receipts/0/trace_hash" ->
            certified["runtime_receipts/0/trace_hash"]]

EmbeddedResult(verification) ==
  [p \in {"verification_result", "verification_result/status", "verification_result/checks",
          "verification_result/verified_input",
          "verification_result/verified_input/trace_hash"} |->
     CASE p = "verification_result"        -> Object
       [] p = "verification_result/status" -> verification["status"]
       [] p = "verification_result/checks" -> verification["checks"]
       [] p = "verification_result/verified_input" -> verification["verified_input"]
       [] p = "verification_result/verified_input/trace_hash" ->
            verification["verified_input/trace_hash"]]

EmbeddedNodes(certified, verification) ==
  {Node("science_claim_bundle", n.repo, n.commit) : n \in certified.nested}
    \cup {Node("science_claim_bundle", certified.source_repo, certified.source_commit),
          Node("verification_result", verification.source_repo, verification.source_commit)}

SignedOf(certified, verification, commit) ==
  Produced(verification.run, "pf", commit,
    Merge(Merge(EmbeddedBundle(certified), EmbeddedResult(verification)),
      [signed_input_bundle_hash |-> verification["verified_input/bundle_hash"],
       signature_or_digest |-> "sealed",
       nested |-> EmbeddedNodes(certified, verification)]))

\* The import report as Scientific Memory writes it, before it is normalised.
ReportOf(r, commit) ==
  Produced(r, "sm", commit,
    [verification_status |-> "passed", strict |-> "true", allow_legacy |-> "false",
     bundle_shape |-> "pcs_core", scientific_memory_commit |-> commit])

-----------------------------------------------------------------------------
\* Tool use and computation (scripts/materialize_*_fixtures.py), at commit
\* "old" of every repository.

ToolTrace(r) ==
  LET body == Produced(r, "agent_runtime", "old",
                [policy_hash |-> "policy", tool_calls |-> {"authorized"}, call |-> r])
  IN  Merge(body, [trace_hash |-> Digest(body)])

ToolCertificate(trace) ==
  Produced(trace.run, "certifyedge", "old",
    [certificate_id |-> CertificateId(trace.run), trace_hash |-> trace.trace_hash,
     policy_hash |-> trace.policy_hash, status |-> "CertificateChecked",
     violations |-> {}, signature_or_digest |-> "sealed"])

ToolReceipt(trace) ==
  Produced(trace.run, "agent_runtime", "old",
    [trace_hash |-> trace.trace_hash, signature_or_digest |-> "sealed"])

\* _adapt: a LabTrust bundle rewritten for the certificate of the chain.
Adapted(r, id, hash) ==
  Merge(Produced(r, "labtrust", "old", [signature_or_digest |-> "sealed"]),
        BundleWith(id, hash))

ProfileReport(r, id) ==
  Merge(ReportOf(r, "old"), [workflow_profile_id |-> id])

Payload(r)     == [bytes |-> r]
Dataset(r)     == Produced(r, "scientific_computation", "old",
                      [files |-> {r}, aggregate_hash |-> Digest({r})])
Environment(r) == Produced(r, "scientific_computation", "old", [image |-> r])
RunReceipt(r)  == Produced(r, "scientific_computation", "old",
                      [exit_code |-> "zero", code_commit |-> "old"])
ResultOf(r)    == Produced(r, "scientific_computation", "old",
                      [path |-> "payload", sha256 |-> Digest(Payload(r))])

Witness(r) ==
  Produced(r, "certifyedge", "old",
    [witness_id |-> CertificateId(r), status |-> "CertificateChecked", violations |-> {},
     dataset_hash |-> Dataset(r).aggregate_hash,
     environment_hash |-> Digest(Environment(r)),
     run_receipt_hash |-> Digest(RunReceipt(r)),
     result_hashes |-> {ResultOf(r).sha256}, code_commit |-> "old"])

Verified(certified) ==
  [certified    |-> certified,
   verification |-> VerificationOf(certified, "old"),
   signed       |-> SignedOf(certified, VerificationOf(certified, "old"), "old")]

ToolUseDocuments(r) ==
  LET trace == ToolTrace(r)
  IN  Merge(Verified(Adapted(r, CertificateId(r), trace.trace_hash)),
        [tool_trace |-> trace, receipt |-> ToolReceipt(trace),
         certificate |-> ToolCertificate(trace), report |-> ProfileReport(r, ToolUse)])

ComputationDocuments(r) ==
  Merge(Verified(Adapted(r, CertificateId(r), Digest(RunReceipt(r)))),
    [dataset |-> Dataset(r), environment |-> Environment(r),
     run_receipt |-> RunReceipt(r), result |-> ResultOf(r), payload |-> Payload(r),
     witness |-> Witness(r), report |-> ProfileReport(r, Computation)])

\* The verifier signs what it verified before, and may have moved on by then.
LabTrustDocuments(r, h, signer) ==
  LET certificate == LabCertificate(LabTrace(r), h)
      pending     == LabPending(r, h)
      certified   == LabCertified(pending, certificate)
      verification == VerificationOf(certified, h.pf)
  IN  [trace |-> LabTrace(r), receipt |-> LabReceipt(r, h), certificate |-> certificate,
       pending |-> pending, certified |-> certified, verification |-> verification,
       signed |-> SignedOf(certified, verification, signer), report |-> ReportOf(r, h.sm)]

Runs == {"r1", "r2"}

OldHeads == [labtrust |-> "old", certifyedge |-> "old", pf |-> "old", sm |-> "old"]

\* A run of which nobody moved on.
DocumentsOf(id, r) ==
  CASE id = LabTrust    -> LabTrustDocuments(r, OldHeads, "old")
    [] id = ToolUse     -> ToolUseDocuments(r)
    [] id = Computation -> ComputationDocuments(r)

-----------------------------------------------------------------------------
\* The companions of a directory's documents.

\* RELEASE_FIXTURE_MANIFEST.json with the digests of the files of `dir'.
ManifestFor(dir, spec, pins) ==
  Merge(pins, IF spec.named
                THEN [workflow_profile_id |-> spec.id,
                      artifacts |-> [f \in spec.artifacts |-> Digest(dir[f])]]
                ELSE [artifacts |-> [f \in spec.artifacts |-> Digest(dir[f])]])

OldPins(spec) == [key \in spec.pinned |-> "old"]

\* release_manifest.v0.json: its root is the hash the verifier states.
ManifestV0For(dir, spec, fixtures) ==
  With([workflow_profile_id |-> spec.id, release_id |-> "release", fixtures |-> fixtures,
        artifacts |-> [certified |-> Digest(dir["certified"])]],
       "chain_root/certified_bundle_hash", Digest(dir["certified"]))

\* A handoff to the verifier states the hash of the bundle it hands over.
HandoffOf(certified) ==
  With([handoff_kind |-> "bundle_to_verifier"],
       "invariants/certified_bundle_hash", Digest(certified))
=============================================================================
