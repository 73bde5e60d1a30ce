---------------------------- MODULE LegacyChains ----------------------------
(***************************************************************************)
(* The hand-written validators that the declarative engine replaced and    *)
(* that the parity harness still runs beside it: release_chain.py,         *)
(* tool_use_release_chain.py and computation_release_chain.py.  Their      *)
(* common stages are line for line those of the engine and are not         *)
(* repeated here; what each writes out by hand is.                         *)
(***************************************************************************)
EXTENDS ReleaseProfile

\* A pinned commit that a loaded document does not state.
Off(dir, f, pointer, key) ==
  /\ Pinned(dir, key) # Absent
  /\ IsDocument(File(dir, f))
  /\ At(dir[f], pointer) # Pinned(dir, key)

OffBelow(dir, f, root, key) ==
  /\ Pinned(dir, key) # Absent
  /\ IsDocument(File(dir, f))
  /\ \E pair \in ProvenancePairs(dir[f], root) :
       pair[1] = key /\ pair[2] # Pinned(dir, key)

LegacyLabTrustCommits(dir) ==
  Issue(\/ Off(dir, "receipt", "source_commit", "labtrust")
        \/ OffBelow(dir, "pending", "", "labtrust")
        \/ OffBelow(dir, "certified", "", "labtrust")
        \/ OffBelow(dir, "signed", "science_claim_bundle", "labtrust"),
        "labtrust_commit_mismatch")
    \cup Issue(\/ Off(dir, "certificate", "source_commit", "certifyedge")
               \/ OffBelow(dir, "certified", "", "certifyedge")
               \/ OffBelow(dir, "signed", "", "certifyedge"),
               "certifyedge_commit_mismatch")
    \cup Issue(\E f \in {"verification", "signed"} :
                 Off(dir, f, "source_commit", "pf") \/ OffBelow(dir, f, "", "pf"),
               "pf_commit_mismatch")

\* The import report is looked at only under a pinned importer, and its own
\* pin only where it states one.
LegacyLabTrustImport(dir) ==
  LET report == File(dir, "report")
  IN  IF Pinned(dir, "sm") = Absent \/ ~IsDocument(report) THEN {}
      ELSE Issue(\/ At(report, "source_commit") # Pinned(dir, "sm")
                 \/ At(report, "scientific_memory_commit") \notin {Absent, Pinned(dir, "sm")},
                 "scientific_memory_commit_mismatch")
             \cup Issue(At(report, "verification_status") # "passed" \/ At(report, "strict") # "true",
                        "scientific_memory_import_failed")
             \cup Issue(\/ At(report, "allow_legacy") # "false"
                        \/ At(report, "bundle_shape") # "pcs_core",
                        "legacy_import_detected")

LegacyLabTrustIds(dir) ==
  LET id == At(File(dir, "certificate"), "certificate_id")
      certified == File(dir, "certified")
      signed == File(dir, "signed")
  IN  Issue(/\ id # Absent
            /\ IsDocument(certified)
            /\ \/ At(certified, "certificates/0/certificate_id") # id
               \/ id \notin Items(certified, "claim_artifact/certificate_refs")
               \/ id \notin Items(certified, "evidence_bundle/certificate_refs")
               \/ At(File(dir, "verification"), "verified_input/certificate_id") # id
               \/ /\ At(signed, "science_claim_bundle") = Object
                  /\ At(signed, "science_claim_bundle/certificates/0/certificate_id") # id,
            "certificate_id_mismatch")

LegacyLabTrustStatuses(dir) ==
  LET verification == File(dir, "verification")
      signed == File(dir, "signed")
  IN  Issue(\/ IsDocument(verification) /\ At(verification, "status") # "ProofChecked"
            \/ At(signed, "verification_result") = Object
                 /\ At(signed, "verification_result/status") # "ProofChecked"
            \/ At(verification, "verified_input") = Absent
            \/ IsDocument(File(dir, "certificate"))
                 /\ At(dir["certificate"], "status") # "CertificateChecked",
            "schema_validation_failed")

LegacyLabTrustIdentities(dir) ==
  LET identity == BundleIdentity(dir)
      verification == File(dir, "verification")
      signed == File(dir, "signed")
  IN  IF identity = Absent THEN {}
      ELSE Issue(/\ At(verification, "verified_input") = Object
                 /\ At(verification, "verified_input/bundle_hash") # identity,
                 "verified_input_hash_mismatch")
             \cup Issue(/\ IsDocument(signed)
                        /\ At(signed, "signed_input_bundle_hash") # identity,
                        "signed_input_hash_mismatch")

-----------------------------------------------------------------------------
\* The two later profiles: the producer's documents differ, the rest is alike.

LegacyCommits(dir, producer, produced, certificate) ==
  Issue(\E f \in produced : Off(dir, f, "source_commit", producer), Mismatch(producer))
    \cup Issue(Off(dir, certificate, "source_commit", "certifyedge"),
               "certifyedge_commit_mismatch")
    \cup Issue(\E f \in {"verification", "signed"} : Off(dir, f, "source_commit", "pf"),
               "pf_commit_mismatch")
    \cup Issue(Off(dir, "report", "source_commit", "sm"), "scientific_memory_commit_mismatch")
    \cup Issue(/\ Pinned(dir, "sm") # Absent
               /\ IsDocument(File(dir, "report"))
               /\ At(dir["report"], "verification_status") # "passed",
               "scientific_memory_import_failed")

LegacyBinding(dir, id) ==
  LET certified == File(dir, "certified")
      verification == File(dir, "verification")
      stated == At(verification, "verified_input/bundle_hash")
  IN  Issue(/\ id # Absent
            /\ IsDocument(certified)
            /\ \/ At(certified, "certificates/0/certificate_id") # id
               \/ id \notin Items(certified, "claim_artifact/certificate_refs"),
            "certificate_id_mismatch")
        \cup Issue(IsDocument(verification) /\ At(verification, "status") # "ProofChecked",
                   "schema_validation_failed")
        \cup Issue(/\ At(verification, "verified_input") = Object
                   /\ stated # Absent /\ BundleIdentity(dir) \notin {Absent, stated},
                   "verified_input_hash_mismatch")

LegacyLabTrust(dir) ==
  UNION {LegacyLabTrustCommits(dir), LegacyLabTrustImport(dir), LegacyLabTrustIds(dir),
         LegacyLabTrustStatuses(dir), LegacyLabTrustIdentities(dir)}

LegacyToolUse(dir) ==
  LegacyCommits(dir, "agent_runtime", {"tool_trace", "receipt"}, "certificate")
    \cup LegacyBinding(dir, At(File(dir, "certificate"), "certificate_id"))
    \cup Issue(/\ IsDocument(File(dir, "certificate"))
               /\ At(dir["certificate"], "status") # "CertificateChecked",
               "rejected_certificate")
    \cup Issue("rejected" \in Items(File(dir, "tool_trace"), "tool_calls"),
               "unauthorized_tool_call")

LegacyComputation(dir) ==
  LegacyCommits(dir, "scientific_computation",
                {"dataset", "environment", "run_receipt", "result"}, "witness")
    \cup LegacyBinding(dir, At(File(dir, "witness"), "witness_id"))

\* What a legacy body loads without asking whether it is there: a tool-use
\* trace or certificate is looked up by either of its names instead.
LegacyLoads(spec) ==
  (IF spec.id = ToolUse THEN spec.artifacts \ {"tool_trace", "certificate"}
   ELSE spec.artifacts)
    \cup (IF spec.id = LabTrust THEN {} ELSE {"manifest_v0"})

\* LabTrust's chain does not read the handoffs.
LegacyHandoffs(spec) == IF spec.id = LabTrust THEN {} ELSE spec.handoffs

LegacyRaises(dir, spec) ==
  \/ \E f \in LegacyLoads(spec) : File(dir, f) = NoFile
  \/ \E f \in spec.pcs \cup LegacyHandoffs(spec) : File(dir, f) = Garbled
  \/ IdentityUnreadable(dir)

LegacyCodes(dir, spec) ==
  CASE Manifest(dir) = NoFile  -> {"manifest_missing"}
    [] Manifest(dir) = Garbled -> {"schema_validation_failed"}
    [] OTHER ->
         IF Listed(dir) = Absent
           THEN ManifestCodes(dir, spec) \cup {"schema_validation_failed"}
         ELSE IF LegacyRaises(dir, spec) THEN Raised
         ELSE UNION {ManifestCodes(dir, spec), PresenceCodes(dir, spec),
                     DigestCodes(dir, spec), ScanCodes(dir, spec),
                     AlignmentCodes(spec.id, dir), ValidateFileCodes(dir, spec),
                     DomainCodes(spec.id, dir),
                     HandoffCodes(dir, [spec EXCEPT !.handoffs = LegacyHandoffs(spec)]),
                     CASE spec.id = LabTrust    -> LegacyLabTrust(dir)
                       [] spec.id = ToolUse     -> LegacyToolUse(dir)
                       [] spec.id = Computation -> LegacyComputation(dir)}
=============================================================================
