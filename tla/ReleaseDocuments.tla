-------------------------- MODULE ReleaseDocuments --------------------------
(***************************************************************************)
(* The documents of a release directory, as the release-chain validators   *)
(* read them (release_profile_engine.py, release_fixtures.py,              *)
(* bundle_identity.py, release_chain_profiles.py, validate_pcs_core.py).   *)
(*                                                                         *)
(* A document is a function from JSON pointers to values; a pointer whose  *)
(* value is Object stands for a nested object.  `nested' is the set of     *)
(* provenance nodes below the root, a commit is "old", "new", "zero" or    *)
(* "pattern".  A directory is a function from the files it holds to        *)
(* documents; the digest of a document is an injective image of it.        *)
(*                                                                         *)
(*   trace, receipt, certificate  trace.json, runtime_receipt.json and     *)
(*       trace_certificate.json, or their tool-use counterparts            *)
(*   pending, certified  science_claim_bundle.*.json                       *)
(*   verification, signed, report  verification_result.json,               *)
(*       signed_science_claim_bundle.json, the Scientific Memory report    *)
(*   manifest, manifest_v0  RELEASE_FIXTURE_MANIFEST, release_manifest.v0  *)
(*   handoff_verifier, handoff_pf  handoff_manifest.bundle_to_verifier.v0, *)
(*       handoff_to_pf.json                                                *)
(***************************************************************************)
EXTENDS FiniteSets, SequencesExt

CONSTANTS Absent,   \* the value of a pointer that does not resolve
          Object,   \* the value of a pointer to a nested object
          NoFile,   \* what is read where the directory has no such file
          Garbled   \* a file that is no JSON document

Issue(condition, code) == IF condition THEN {code} ELSE {}

File(dir, f) == IF f \in DOMAIN dir THEN dir[f] ELSE NoFile

IsDocument(d) == d \notin {NoFile, Garbled}

\* A pointer that the document does not resolve, or a document that could
\* not be loaded, gives Absent.
At(doc, pointer) ==
  IF IsDocument(doc) /\ pointer \in DOMAIN doc THEN doc[pointer] ELSE Absent

\* The elements of a list, none where there is no list.
Items(doc, pointer) == IF At(doc, pointer) = Absent THEN {} ELSE At(doc, pointer)

With(doc, pointer, value) ==
  [p \in DOMAIN doc \cup {pointer} |-> IF p = pointer THEN value ELSE doc[p]]

Without(doc, pointers) == [p \in DOMAIN doc \ pointers |-> doc[p]]

Digest(doc) == <<doc>>

\* The hash a tool-use trace states of itself covers everything but itself.
TraceHash(trace) == Digest(Without(trace, {"trace_hash"}))

-----------------------------------------------------------------------------
\* Provenance nodes and the values no release may carry.

\* _iter_provenance_pairs below `root': the pairs of a repository and a commit.
ProvenancePairs(doc, root) ==
  LET below == {n \in Items(doc, "nested") : root = "" \/ n.under = root}
  IN  {<<n.repo, n.commit>> : n \in below}
        \cup (IF root = "" THEN {<<At(doc, "source_repo"), At(doc, "source_commit")>>}
              ELSE {})

Commits(doc) ==
  {p[2] : p \in ProvenancePairs(doc, "")} \cup {At(doc, "scientific_memory_commit")}

Placeholder(commit) == commit \in {"zero", "pattern"}

\* _scan_forbidden_values and the codes its messages are mapped to.
ForbiddenCodes(doc) ==
  Issue(At(doc, "local_dev") = TRUE, "local_dev_detected")
    \cup Issue(\E c \in Commits(doc) : Placeholder(c), "placeholder_commit_detected")

-----------------------------------------------------------------------------
\* What `pcs validate' refuses of a single artifact.

ImportReady == {"ProofChecked", "RuntimeChecked", "CertificateChecked"}

\* A verification result with a failed check may not claim an import-ready
\* status; the pointers are those of a result of its own or an embedded one.
VerificationConforms(doc, checks, status) ==
  ~("failed" \in Items(doc, checks) /\ At(doc, status) \in ImportReady)

\* A science claim bundle has receipts, and a receipt and a certificate that
\* both state a trace hash state the same one.
BundleConforms(doc, receipt, certificate) ==
  /\ At(doc, receipt) # Absent
  /\ At(doc, certificate) \in {Absent, At(doc, receipt)}

\* validate_artifact: the schema's required fields and the semantics of the
\* kinds that state a rule of their own.
Required(f) ==
  CASE f = "verification" -> {"status", "checks", "source_commit"}
    [] f = "signed"       -> {"source_commit", "signature_or_digest"}
    [] f = "certificate"  -> {"certificate_id", "trace_hash", "status", "source_commit"}
    [] f = "receipt"      -> {"trace_hash", "source_commit"}
    [] OTHER              -> {}

Conforms(f, doc) ==
  /\ Required(f) \subseteq DOMAIN doc
  /\ At(doc, "signature_or_digest") # ""
  /\ f = "verification" => VerificationConforms(doc, "checks", "status")
  /\ f \in {"pending", "certified"} =>
       BundleConforms(doc, "runtime_receipts/0/trace_hash", "certificates/0/trace_hash")
  /\ f = "signed" =>
       /\ BundleConforms(doc, "science_claim_bundle/runtime_receipts/0/trace_hash",
                         "science_claim_bundle/certificates/0/trace_hash")
       /\ VerificationConforms(doc, "verification_result/checks", "verification_result/status")

-----------------------------------------------------------------------------
\* Which profile a directory is of, and which hash its certified bundle has.

OrElse(value, other) == IF value # Absent THEN value ELSE other

ToolUse == "agent_tool_use.safety_v0"
Computation == "scientific_computation.reproducibility_v0"
LabTrust == "labtrust.qc_release_v0.1"

\* detect_workflow_profile_id: a stated profile, else the file that only one
\* profile has.
DetectProfile(dir) ==
  OrElse(At(File(dir, "profile_v0"), "workflow_id"),
  OrElse(At(File(dir, "manifest_v0"), "workflow_profile_id"),
  OrElse(At(File(dir, "manifest"), "workflow_profile_id"),
    IF "tool_trace" \in DOMAIN dir THEN ToolUse
    ELSE IF "witness" \in DOMAIN dir THEN Computation
    ELSE IF "trace" \in DOMAIN dir THEN LabTrust ELSE Absent)))

\* resolve_certified_bundle_identity_hash: the hash a handoff states, else the
\* root of the release manifest when the verifier agrees with it, else a
\* manifest's digest, else the digest of the file.
BundleIdentity(dir) ==
  LET v0   == File(dir, "manifest_v0")
      root == At(v0, "chain_root/certified_bundle_hash")
      Listed(manifest, artifacts) ==
        IF "certified" \in DOMAIN At(manifest, artifacts)
          THEN At(manifest, artifacts)["certified"] ELSE Absent
      OfManifest(f) ==
        IF At(File(dir, f), "artifacts") = Absent THEN Absent
        ELSE Listed(File(dir, f), "artifacts")
  IN  OrElse(At(File(dir, "handoff_verifier"), "invariants/certified_bundle_hash"),
      OrElse(At(File(dir, "handoff_pf"), "invariants/certified_bundle_hash"),
      OrElse(IF root = At(File(dir, "verification"), "verified_input/bundle_hash")
               THEN root ELSE Absent,
      OrElse(OfManifest("manifest_v0"),
      OrElse(OfManifest("manifest"),
             IF "certified" \in DOMAIN dir THEN Digest(dir["certified"]) ELSE Absent)))))

\* Reading the identity does not catch a file that is no JSON, but stops at the
\* first that states a hash.
IdentityUnreadable(dir) ==
  LET order == <<"handoff_verifier", "handoff_pf", "manifest_v0">>
  IN  \E k \in 1..Len(order) :
        /\ File(dir, order[k]) = Garbled
        /\ \A j \in 1..(k-1) :
             At(File(dir, order[j]), "invariants/certified_bundle_hash") = Absent

=============================================================================
