--------------------------- MODULE MCReleaseChain ----------------------------
EXTENDS ReleaseChain

\* A change of one field for each rule that the validators state.
MCEdits ==
  {<<"verification", "status", "Rejected">>, <<"verification", "checks", {"failed"}>>,
   <<"verification", "checks", {"warning"}>>, <<"verification", "source_commit", "new">>,
   <<"verification", "verified_input/certificate_id", CertificateId("r2")>>,
   <<"verification", "verified_input/bundle_hash", Digest(Garbled)>>,
   <<"signed", "signature_or_digest", "">>, <<"signed", "source_commit", "new">>,
   <<"signed", "signed_input_bundle_hash", Digest(Garbled)>>,
   <<"signed", "science_claim_bundle/certificates/0/certificate_id", CertificateId("r2")>>,
   <<"certificate", "status", "Rejected">>, <<"certificate", "source_commit", "zero">>,
   <<"certificate", "certificate_id", CertificateId("r2")>>,
   <<"certificate", "policy_hash", "another">>,
   <<"certified", "claim_artifact/certificate_refs", {}>>,
   <<"pending", "source_commit", "new">>, <<"receipt", "source_commit", "new">>,
   <<"receipt", "local_dev", TRUE>>,
   <<"report", "verification_status", "failed">>, <<"report", "allow_legacy", "true">>,
   <<"report", "source_commit", "new">>, <<"report", "scientific_memory_commit", "new">>,
   <<"tool_trace", "tool_calls", {"rejected"}>>, <<"tool_trace", "source_commit", "new">>,
   <<"witness", "status", "Rejected">>, <<"witness", "violations", {"late"}>>,
   <<"witness", "dataset_hash", Digest(Garbled)>>, <<"run_receipt", "exit_code", "nonzero">>,
   <<"run_receipt", "code_commit", "zero">>, <<"result", "path", "outside">>,
   <<"payload", "bytes", "r2">>, <<"dataset", "files", {"r2"}>>,
   <<"manifest", "pf", "pattern">>, <<"manifest_v0", "workflow_profile_id", "another">>,
   <<"report", "scientific_memory_commit", Absent>>, <<"manifest", "sm", Absent>>,
   <<"signed", "science_claim_bundle", Absent>>, <<"signed", "verification_result", Absent>>,
   <<"handoff_verifier", "handoff_kind", "unknown">>,
   <<"certified", "nested", {Node("certificates", "certifyedge", "new")}>>,
   <<"signed", "nested", {Node("science_claim_bundle", "labtrust", "new")}>>}
=============================================================================
