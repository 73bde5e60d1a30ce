---------------------------- MODULE ReleaseSpecs ----------------------------
(***************************************************************************)
(* The three release profiles that pcs-core registers                      *)
(* (release_profile_specs.py): what each requires of the files of a        *)
(* release directory, as sets of requirements, and the hooks that a        *)
(* profile adds to the engine: semantics of single documents, alignment    *)
(* of hashes across documents, and domain checks.                          *)
(***************************************************************************)
EXTENDS ReleaseDocuments

\* Requirements, in the order of release_profile_engine.py: a field with a
\* required value, a commit pinned by the manifest, the commits of a
\* repository's provenance nodes, a certificate id carried on, the identity
\* of the certified bundle.
Field(f, pointer, value, code) ==
  [file |-> f, at |-> pointer, value |-> value, code |-> code]

Pin(f, pointer, key, code) ==
  [file |-> f, at |-> pointer, key |-> key, code |-> code]

Provenance(f, root, repo, key, code) ==
  [file |-> f, root |-> root, repo |-> repo, key |-> key, code |-> code]

Carries(source, id, carrier, pointer) ==
  [source |-> source, id |-> id, carrier |-> carrier, at |-> pointer]

Identity(f, parent, pointer, code, required) ==
  [file |-> f, parent |-> parent, at |-> pointer, code |-> code, required |-> required]

Mismatch(repo) ==
  CASE repo = "labtrust" -> "labtrust_commit_mismatch"
    [] repo = "agent_runtime" -> "agent_runtime_commit_mismatch"
    [] repo = "scientific_computation" -> "scientific_computation_commit_mismatch"
    [] repo = "certifyedge" -> "certifyedge_commit_mismatch"
    [] repo = "pf" -> "pf_commit_mismatch"
    [] repo = "sm" -> "scientific_memory_commit_mismatch"

\* The pins every profile has: the producer of the evidence, the certifier,
\* the verifier, which also signs, and the importer.
SourcePins(producer, produced, certificate) ==
  {Pin(f, "source_commit", producer, Mismatch(producer)) : f \in produced}
    \cup {Pin(certificate, "source_commit", "certifyedge", Mismatch("certifyedge")),
          Pin("report", "source_commit", "sm", Mismatch("sm"))}
    \cup {Pin(f, "source_commit", "pf", Mismatch("pf")) : f \in {"verification", "signed"}}

\* A certificate's id is in the certified bundle and among the references of
\* its claim.
CarriedId(certificate, id) ==
  {Carries(certificate, id, "certified", "certificates/0/certificate_id"),
   Carries(certificate, id, "certified", "claim_artifact/certificate_refs")}

VerifierReady == Field("verification", "status", "ProofChecked", "schema_validation_failed")
ImportPassed ==
  Field("report", "verification_status", "passed", "scientific_memory_import_failed")

-----------------------------------------------------------------------------
LabTrustSpec ==
  [id |-> LabTrust,
   artifacts |-> {"trace", "receipt", "certificate", "pending", "certified",
                  "verification", "signed", "report"},
   pcs |-> {"receipt", "certificate", "pending", "certified", "verification", "signed"},
   handoffs |-> {"handoff_pf", "handoff_verifier"},
   pinned |-> {"pcs", "labtrust", "certifyedge", "pf", "sm"},
   named |-> FALSE,
   reads |-> {"trace", "receipt", "certificate"},
   statuses |-> {VerifierReady,
      Field("certificate", "status", "CertificateChecked", "schema_validation_failed"),
      Field("signed", "verification_result/status", "ProofChecked",
            "schema_validation_failed")},
   pins |-> SourcePins("labtrust", {"receipt"}, "certificate")
      \cup {Pin("report", "scientific_memory_commit", "sm", Mismatch("sm"))},
   provenance |->
      {Provenance(s[1], s[2], s[3], s[3], Mismatch(s[3])) :
         s \in {<<"pending", "", "labtrust">>, <<"certified", "", "labtrust">>,
                <<"signed", "science_claim_bundle", "labtrust">>,
                <<"certified", "", "certifyedge">>, <<"signed", "", "certifyedge">>,
                <<"verification", "", "pf">>, <<"signed", "", "pf">>}},
   carried |-> CarriedId("certificate", "certificate_id") \cup
      {Carries("certificate", "certificate_id", s[1], s[2]) :
         s \in {<<"certified", "evidence_bundle/certificate_refs">>,
                <<"verification", "verified_input/certificate_id">>,
                <<"signed", "science_claim_bundle/certificates/0/certificate_id">>}},
   identities |->
      {Identity("verification", "verified_input", "verified_input/bundle_hash",
                "verified_input_hash_mismatch", TRUE),
       Identity("signed", "", "signed_input_bundle_hash",
                "signed_input_hash_mismatch", TRUE)},
   imports |-> {ImportPassed,
      Field("report", "strict", "true", "scientific_memory_import_failed"),
      Field("report", "allow_legacy", "false", "legacy_import_detected"),
      Field("report", "bundle_shape", "pcs_core", "legacy_import_detected")},
   proofs |-> {<<"verification", "verified_input", "schema_validation_failed">>},
   banned |-> {}]

ToolUseSpec ==
  [id |-> ToolUse,
   artifacts |-> {"tool_trace", "receipt", "certificate", "certified",
                  "verification", "signed", "report"},
   pcs |-> {"receipt", "certificate", "certified", "verification", "signed"},
   handoffs |-> {"handoff_verifier"},
   pinned |-> {"pcs", "agent_runtime", "certifyedge", "pf", "sm"},
   named |-> TRUE,
   reads |-> {"receipt"},
   statuses |-> {VerifierReady,
      Field("certificate", "status", "CertificateChecked", "rejected_certificate")},
   pins |-> SourcePins("agent_runtime", {"tool_trace", "receipt"}, "certificate"),
   provenance |-> {},
   carried |-> CarriedId("certificate", "certificate_id"),
   identities |->
      {Identity("verification", "verified_input", "verified_input/bundle_hash",
                "verified_input_hash_mismatch", FALSE)},
   imports |-> {ImportPassed},
   proofs |-> {},
   banned |-> {<<"tool_trace", "tool_calls", "rejected", "unauthorized_tool_call">>}]

ComputationSpec ==
  [id |-> Computation,
   artifacts |-> {"dataset", "environment", "run_receipt", "result", "witness",
                  "certified", "verification", "signed", "report"},
   pcs |-> {"dataset", "environment", "run_receipt", "result", "witness",
            "certified", "verification", "signed"},
   handoffs |-> {"handoff_verifier"},
   pinned |-> {"pcs", "scientific_computation", "certifyedge", "pf", "sm"},
   named |-> TRUE,
   reads |-> {"dataset", "environment", "run_receipt", "result", "witness"},
   statuses |-> {VerifierReady},
   pins |-> SourcePins("scientific_computation",
                       {"dataset", "environment", "run_receipt", "result"}, "witness"),
   provenance |-> {},
   carried |-> CarriedId("witness", "witness_id"),
   identities |->
      {Identity("verification", "verified_input", "verified_input/bundle_hash",
                "verified_input_hash_mismatch", FALSE)},
   imports |-> {ImportPassed},
   proofs |-> {},
   banned |-> {}]

Specs == {LabTrustSpec, ToolUseSpec, ComputationSpec}
SpecOf(id) == CHOOSE s \in Specs : s.id = id

-----------------------------------------------------------------------------
\* Semantics of single documents (semantic_validators and their mappers).

ReportFields == {"verification_status", "strict", "allow_legacy", "bundle_shape",
                 "source_commit", "scientific_memory_commit"}

\* Each profile's report validator: the fields are there, and outside
\* LabTrust the report names the profile.
ReportConforms(id, doc) ==
  /\ ReportFields \subseteq DOMAIN doc
  /\ id # LabTrust => At(doc, "workflow_profile_id") = id

ToolTraceConforms(doc) ==
  /\ At(doc, "trace_hash") = TraceHash(doc)
  /\ At(doc, "policy_hash") # Absent
  /\ Items(doc, "tool_calls") # {}
  /\ Items(doc, "tool_calls") \cap {"unknown", "policy_missing"} = {}

\* A witness that is checked lists no violation, a rejected one lists some.
WitnessConforms(doc) ==
  /\ At(doc, "status") \in {"CertificateChecked", "Rejected", "Stale"}
  /\ At(doc, "status") = "CertificateChecked" => At(doc, "violations") = {}
  /\ At(doc, "status") = "Rejected" => At(doc, "violations") # {}

SemanticCodes(id, f, doc) ==
  LET schema(ok) == Issue(~ok, "schema_validation_failed")
  IN  CASE f = "trace" -> schema(At(doc, "trace_hash") # Absent /\ At(doc, "events") # {})
        [] f = "tool_trace" -> schema(ToolTraceConforms(doc))
        [] f = "report" -> schema(ReportConforms(id, doc))
        [] f = "witness" -> schema(WitnessConforms(doc))
        [] f = "dataset" -> schema(At(doc, "aggregate_hash") = Digest(At(doc, "files")))
        [] f = "run_receipt" -> Issue(At(doc, "code_commit") = "zero", "missing_code_commit")
        [] OTHER -> {}

-----------------------------------------------------------------------------
\* Alignment of hashes across documents.

\* Fault: the receipt is not looked at.
FaultAlignment(dir) ==
  LET hash == At(File(dir, "trace"), "trace_hash")
  IN  Issue(/\ \A f \in {"trace", "receipt", "certificate"} : IsDocument(File(dir, f))
            /\ hash # At(File(dir, "certificate"), "trace_hash"), "trace_hash_mismatch")

\* _validate_trace_hash_alignment: trace, receipt and certificate state one
\* trace hash; so do the bundles' certificates and receipts, and the inputs of
\* the verification and of the embedded verification.
LabTrustAlignment(dir) ==
  LET hash == At(File(dir, "trace"), "trace_hash")
      Stated(f, pointer) == At(File(dir, f), pointer)
      bundled ==
        {<<"certified", "certificates/0", "certificates/0/trace_hash">>,
         <<"certified", "runtime_receipts/0", "runtime_receipts/0/trace_hash">>,
         <<"signed", "science_claim_bundle/certificates/0",
           "science_claim_bundle/certificates/0/trace_hash">>,
         <<"signed", "science_claim_bundle/runtime_receipts/0",
           "science_claim_bundle/runtime_receipts/0/trace_hash">>}
      verified ==
        {<<"verification", "verified_input", "verified_input/trace_hash">>,
         <<"signed", "verification_result/verified_input",
           "verification_result/verified_input/trace_hash">>}
  IN  Issue(/\ \A f \in {"trace", "receipt", "certificate"} : IsDocument(File(dir, f))
            /\ \/ hash # Stated("receipt", "trace_hash")
               \/ hash # Stated("certificate", "trace_hash")
               \/ \E s \in bundled : /\ Stated(s[1], s[2]) = Object
                                     /\ Stated(s[1], s[3]) # hash
               \/ \E s \in verified : /\ hash # Absent
                                      /\ Stated(s[1], s[2]) = Object
                                      /\ Stated(s[1], s[3]) # hash,
            "trace_hash_mismatch")

\* _validate_tool_use_trace_hash_alignment: also the policy hash, and every
\* call of a checked certificate is authorised.
ToolUseAlignment(dir) ==
  LET Stated(f, pointer) == At(File(dir, f), pointer)
      hash == Stated("tool_trace", "trace_hash")
  IN  IF \A f \in {"tool_trace", "receipt", "certificate"} : IsDocument(File(dir, f))
      THEN Issue(\/ hash # Stated("receipt", "trace_hash")
                 \/ hash # Stated("certificate", "trace_hash")
                 \/ /\ Stated("certificate", "status") = "CertificateChecked"
                    /\ Stated("tool_trace", "tool_calls") \ {"authorized"} # {},
                 "trace_hash_mismatch")
           \cup Issue(/\ Stated("certificate", "policy_hash") # Absent
                      /\ Stated("certificate", "policy_hash")
                           # Stated("tool_trace", "policy_hash"),
                      "policy_hash_mismatch")
      ELSE {}

\* validate_computation_witness_alignment: a witness is about these receipts
\* and this result, and a checked one about a run that ended well.
ComputationAlignment(dir) ==
  LET Stated(f, pointer) == At(File(dir, f), pointer)
      Differs(pointer, hash) == Stated("witness", pointer) \notin {Absent, hash}
      checked == Stated("witness", "status") = "CertificateChecked"
      Unsure(pointer) == checked /\ Stated("witness", pointer) = Absent
  IN  IF \A f \in ComputationSpec.reads : IsDocument(File(dir, f))
      THEN Issue(\/ Differs("dataset_hash", Stated("dataset", "aggregate_hash"))
                 \/ Unsure("dataset_hash"), "dataset_hash_mismatch")
           \cup Issue(\/ Differs("environment_hash", Digest(dir["environment"]))
                      \/ Unsure("environment_hash"), "environment_hash_mismatch")
           \cup Issue(\/ Differs("run_receipt_hash", Digest(dir["run_receipt"]))
                      \/ Unsure("run_receipt_hash"), "run_receipt_hash_mismatch")
           \cup Issue(Stated("witness", "result_hashes") # {Stated("result", "sha256")},
                      "result_hash_mismatch")
           \cup Issue(checked /\ Stated("run_receipt", "exit_code") = "nonzero",
                      "nonzero_exit_code")
           \cup Issue(Differs("code_commit", Stated("run_receipt", "code_commit")),
                      "missing_code_commit")
      ELSE {}

AlignmentCodes(id, dir) ==
  CASE id = LabTrust -> LabTrustAlignment(dir)
    [] id = ToolUse -> ToolUseAlignment(dir)
    [] id = Computation -> ComputationAlignment(dir)

-----------------------------------------------------------------------------
\* Domain checks.

\* verify_result_artifact_payload: the result's path leads to a file of the
\* release whose bytes have the declared digest.
PayloadCodes(dir) ==
  LET result == File(dir, "result")
      bytes  == File(dir, At(result, "path"))
  IN  IF ~IsDocument(result) \/ At(result, "path") = Absent THEN {"payload_missing"}
      ELSE IF At(result, "path") = "outside" THEN {"payload_path_unsafe"}
      ELSE IF bytes = NoFile THEN {"payload_missing"}
      ELSE Issue(Digest(bytes) # At(result, "sha256"), "payload_digest_mismatch")

WitnessCodes(dir) ==
  LET status == At(File(dir, "witness"), "status")
  IN  IF status = "CertificateChecked" THEN {}
      ELSE {IF status = "Rejected" THEN "rejected_computation_witness"
            ELSE "schema_validation_failed"}

\* The release manifest of a tool-use or computation release names its
\* profile and passes `pcs validate', which looks up the fixtures it lists.
ManifestV0Codes(id, dir) ==
  LET v0 == File(dir, "manifest_v0")
  IN  Issue(/\ IsDocument(v0)
            /\ \/ At(v0, "workflow_profile_id") # id
               \/ \E f \in Items(v0, "fixtures") : f \notin DOMAIN dir,
            "schema_validation_failed")

DomainCodes(id, dir) ==
  CASE id = LabTrust -> {}
    [] id = ToolUse -> ManifestV0Codes(id, dir)
    [] id = Computation -> WitnessCodes(dir) \cup PayloadCodes(dir) \cup ManifestV0Codes(id, dir)
=============================================================================
