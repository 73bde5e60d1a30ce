--------------------------- MODULE ReleaseEnvelope ---------------------------
(***************************************************************************)
(* The trust envelope of a release directory (lean_trust.py,               *)
(* pcs_projection.py, lean_materialize.py): the proof obligations          *)
(* extracted from its documents, the projection that says where each value *)
(* came from, and the check of the obligations.  The envelope reads the    *)
(* directory once; the check reads only what was extracted.                *)
(***************************************************************************)
EXTENDS ReleaseFixtures

CONSTANT Refused   \* an extraction that raised

-----------------------------------------------------------------------------
\* What must be loaded, and stated, for an extraction to go through.

EnvelopeFiles(id) ==
  {"verification", "signed"} \cup
    CASE id = LabTrust    -> {"certificate", "receipt", "certified"}
      [] id = ToolUse     -> {"tool_trace", "certificate", "receipt"}
      [] id = Computation -> {"witness", "result", "run_receipt"}

LabTrustFields ==
  {<<"certificate", "certificate_id">>, <<"certificate", "trace_hash">>,
   <<"certificate", "status">>, <<"receipt", "trace_hash">>}

ToolUseFields ==
  LabTrustFields \cup {<<"certificate", "policy_hash">>, <<"tool_trace", "trace_hash">>,
                       <<"tool_trace", "policy_hash">>}

ComputationFields ==
  {<<"witness", "witness_id">>, <<"witness", "dataset_hash">>,
   <<"witness", "environment_hash">>, <<"witness", "run_receipt_hash">>,
   <<"witness", "status">>}

EnvelopeFields(id) ==
  {<<"verification", "status">>, <<"verification", "verified_input/bundle_hash">>,
   <<"signed", "signed_input_bundle_hash">>} \cup
    CASE id = LabTrust    -> LabTrustFields
      [] id = ToolUse     -> ToolUseFields
      [] id = Computation -> ComputationFields

\* The checks of a verification are asked for when it admits the bundle.  A
\* computation's payload is verified before its digest is used.
Extractable(dir, id) ==
  /\ At(File(dir, "manifest_v0"), "release_id") # Absent
  /\ \A f \in EnvelopeFiles(id) : IsDocument(File(dir, f))
  /\ \A s \in EnvelopeFields(id) : At(dir[s[1]], s[2]) # Absent
  /\ At(dir["verification"], "status") = "ProofChecked" =>
        At(dir["verification"], "checks") \notin {Absent, {}}
  /\ ~IdentityUnreadable(dir) /\ BundleIdentity(dir) # Absent
  /\ id = Computation => /\ PayloadCodes(dir) = {}
                         /\ At(dir["witness"], "result_hashes") \notin {Absent, {}}

-----------------------------------------------------------------------------
\* Obligations: a kind and the values it compares.

Obligation(kind, inputs) == [kind |-> kind, inputs |-> inputs]

\* _release_blocking_checks_passed.
BlockingChecksPassed(verification) ==
  /\ At(verification, "status") = "ProofChecked"
  /\ At(verification, "checks") \cap {"failed", "warning"} = {}

BundleObligations(dir) ==
  LET verified == At(dir["verification"], "verified_input/bundle_hash")
  IN  {Obligation("VerificationAdmitsBundle",
         [status |-> At(dir["verification"], "status"), verified |-> verified,
          certified |-> BundleIdentity(dir), blocking |-> BlockingChecksPassed(dir["verification"])]),
       Obligation("SignedBundleAdmissible",
         [signed |-> At(dir["signed"], "signed_input_bundle_hash"), verified |-> verified])}

RuntimeObligation(dir) ==
  Obligation("CertificateMatchesRuntime",
    [certificate |-> At(dir["certificate"], "trace_hash"),
     runtime |-> At(dir["receipt"], "trace_hash"),
     status |-> At(dir["certificate"], "status")])

ToolObligation(dir) ==
  Obligation("ToolTraceHashMatchesCertificate",
    [certificate |-> At(dir["certificate"], "trace_hash"),
     trace |-> At(dir["tool_trace"], "trace_hash"),
     certificate_policy |-> At(dir["certificate"], "policy_hash"),
     trace_policy |-> At(dir["tool_trace"], "policy_hash")])

WitnessObligation(dir) ==
  Obligation("ComputationWitnessHashAlignment",
    [witnessed |-> At(dir["witness"], "result_hashes"),
     declared |-> {Digest(dir[At(dir["result"], "path")])},
     result |-> Digest(dir[At(dir["result"], "path")]),
     status |-> At(dir["witness"], "status")])

ProfileObligations(dir, id) ==
  CASE id = LabTrust    -> {RuntimeObligation(dir)}
    [] id = ToolUse     -> {ToolObligation(dir), RuntimeObligation(dir)}
    [] id = Computation -> {WitnessObligation(dir)}

\* Fault: what was signed is not compared with what was verified.
FaultHolds(obligation) ==
  LET given == obligation.inputs
  IN  CASE obligation.kind = "VerificationAdmitsBundle" ->
             given.status = "ProofChecked" /\ given.verified = given.certified /\ given.blocking
        [] OTHER -> TRUE

\* _evaluate_obligation.
Holds(obligation) ==
  LET given == obligation.inputs
  IN  CASE obligation.kind = "VerificationAdmitsBundle" ->
             /\ given.status = "ProofChecked"
             /\ given.verified = given.certified
             /\ given.blocking
        [] obligation.kind = "SignedBundleAdmissible" -> given.signed = given.verified
        [] obligation.kind = "CertificateMatchesRuntime" ->
             given.certificate = given.runtime /\ given.status = "CertificateChecked"
        [] obligation.kind = "ToolTraceHashMatchesCertificate" ->
             given.certificate = given.trace /\ given.certificate_policy = given.trace_policy
        [] obligation.kind = "ComputationWitnessHashAlignment" ->
             /\ given.witnessed \subseteq given.declared
             /\ given.result \in given.witnessed \cap given.declared
             /\ given.status = "CertificateChecked"

-----------------------------------------------------------------------------
\* The projection: for each value, the file it came from and its digest.  The
\* certified hash has a resolver instead of a file, the payload no pointer.

Resolved == <<"resolved", "certified_bundle_hash">>
PayloadBytes == <<"payload", "payload_sha256">>

ProjectedFields(id) ==
  {s \in EnvelopeFields(id) : s[2] # "status"} \cup {Resolved} \cup
    (IF id = Computation THEN {<<"result", "sha256">>, PayloadBytes} ELSE {})

Entry(dir, s) ==
  CASE s = Resolved     -> [value |-> BundleIdentity(dir), digest |-> BundleIdentity(dir)]
    [] s = PayloadBytes -> [value |-> Digest(dir["payload"]), digest |-> Digest(dir["payload"])]
    [] OTHER            -> [value |-> At(dir[s[1]], s[2]), digest |-> Digest(dir[s[1]])]

\* extract_proof_obligations_from_release: a directory of no known profile is
\* read as a LabTrust release.  Left out: the document's own names,
\* obligation_id and release_id, which no replay compares with the directory.
Extract(dir) ==
  LET detected == DetectProfile(dir)
      id == IF detected \in {ToolUse, Computation} THEN detected ELSE LabTrust
  IN  IF Extractable(dir, id)
      THEN [workflow |-> id,
            obligations |-> BundleObligations(dir) \cup ProfileObligations(dir, id),
            projection |-> [s \in ProjectedFields(id) |-> Entry(dir, s)]]
      ELSE Refused

\* Fault: the values are compared, the digests of their files are not.
FaultReplays(doc, dir) ==
  \A s \in DOMAIN doc.projection :
    /\ s = Resolved \/ IsDocument(File(dir, s[1]))
    /\ doc.projection[s].value = Entry(dir, s).value

\* validate_projection_against_release has no error.
Replays(doc, dir) ==
  \A s \in DOMAIN doc.projection :
    IF s = Resolved
    THEN ~IdentityUnreadable(dir) /\ BundleIdentity(dir) # Absent /\ doc.projection[s] = Entry(dir, s)
    ELSE /\ IsDocument(File(dir, s[1]))
         /\ s # PayloadBytes => At(dir[s[1]], s[2]) # Absent
         /\ doc.projection[s] = Entry(dir, s)

-----------------------------------------------------------------------------
\* run_lean_check, without the toolchain: the obligations are evaluated.

Failing(doc) == {o.kind : o \in {o \in doc.obligations : ~Holds(o)}}

Admitted(doc) == doc # Refused /\ Failing(doc) = {}
=============================================================================
