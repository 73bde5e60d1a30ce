---------------------------- MODULE EnvelopeProof ----------------------------
(***************************************************************************)
(* The Lean module that `pcs-envelope check --lean-proof' writes for the   *)
(* obligations of a release (pcs_lean_codegen.py), and what Lean makes of  *)
(* it: the terms are typed records, the theorems say of them what the      *)
(* deciders of lean/PCS say.  The evaluation of the obligations in         *)
(* ReleaseEnvelope is a second implementation of the same rules.           *)
(* Every digest and identifier was judged when the obligations were        *)
(* extracted, so that only a status can be unfit for a term.               *)
(***************************************************************************)
EXTENDS ReleaseEnvelope

\* The statuses that Lean knows; the code has more.
LeanStatuses ==
  {"RuntimeObserved", "CertificateChecked", "ProofChecked", "Rejected", "Stale", "Deprecated"}

\* _obligation_inputs.
InputsOf(doc, kind) == (CHOOSE o \in doc.obligations : o.kind = kind).inputs

-----------------------------------------------------------------------------
\* The terms.

\* concreteCertificate and concreteRuntimeReceipt.
ChainTerms(doc) ==
  LET given == InputsOf(doc, "CertificateMatchesRuntime")
  IN  [certificate |-> [traceHash |-> given.certificate, status |-> given.status],
       receipt |-> [traceHash |-> given.runtime, status |-> "RuntimeObserved"]]

\* concreteVerification, concreteCertifiedBundleHash, concreteSignedInputHash.
BundleTerms(doc) ==
  LET given == InputsOf(doc, "VerificationAdmitsBundle")
  IN  [verification |-> [status |-> given.status, verifiedInputBundleHash |-> given.verified,
                         releaseBlockingChecksPassed |-> given.blocking],
       certified |-> given.certified,
       signed |-> InputsOf(doc, "SignedBundleAdmissible").signed]

\* concreteToolUseTrace and concreteToolUseCertificate; the latter's status is
\* a string that no theorem mentions.
ToolUseTerms(doc) ==
  LET given == InputsOf(doc, "ToolTraceHashMatchesCertificate")
  IN  [trace |-> [traceHash |-> given.trace, policyHash |-> given.trace_policy],
       certificate |-> [traceHash |-> given.certificate, policyHash |-> given.certificate_policy]]

\* concreteComputationWitness and the hashes it is held against; its status is
\* a string too.
WitnessTerms(doc) ==
  LET given == InputsOf(doc, "ComputationWitnessHashAlignment")
  IN  [resultHashes |-> given.witnessed, declared |-> given.declared, result |-> given.result]

TypedStatuses(doc) ==
  {BundleTerms(doc).verification.status}
    \cup (IF doc.workflow = Computation THEN {} ELSE {ChainTerms(doc).certificate.status})

\* generate_proof_obligation_file raises on a status without a constructor.
Generable(doc) == TypedStatuses(doc) \subseteq LeanStatuses

-----------------------------------------------------------------------------
\* The deciders of lean/PCS.

certificateMatchesRuntimeD(cert, receipt) ==
  /\ cert.traceHash = receipt.traceHash
  /\ cert.status = "CertificateChecked"

verificationAdmitsBundleD(verification, bundleHash) ==
  /\ verification.status = "ProofChecked"
  /\ verification.verifiedInputBundleHash = bundleHash
  /\ verification.releaseBlockingChecksPassed

signedBundleAdmissibleD(signedInputHash, verifiedInputHash) ==
  signedInputHash = verifiedInputHash

toolTraceHashMatchesCertificateD(trace, cert) ==
  cert.traceHash = trace.traceHash /\ cert.policyHash = trace.policyHash

witnessResultHashesAdmissibleD(witnessed, declared) == witnessed \subseteq declared

witnessResultHashListedD(witnessed, hash) == hash \in witnessed

\* What the theorems of every profile say of the bundle, and what those of one
\* profile add.
BundleTheorems(doc) ==
  LET terms == BundleTerms(doc)
  IN  /\ verificationAdmitsBundleD(terms.verification, terms.certified)
      /\ signedBundleAdmissibleD(terms.signed, terms.verification.verifiedInputBundleHash)

ChainTheorems(doc) ==
  LET terms == ChainTerms(doc)
  IN  certificateMatchesRuntimeD(terms.certificate, terms.receipt) /\ BundleTheorems(doc)

ToolUseTheorems(doc) ==
  LET terms == ToolUseTerms(doc)
  IN  toolTraceHashMatchesCertificateD(terms.trace, terms.certificate) /\ ChainTheorems(doc)

ComputationTheorems(doc) ==
  LET terms == WitnessTerms(doc)
  IN  /\ witnessResultHashesAdmissibleD(terms.resultHashes, terms.declared)
      /\ witnessResultHashListedD(terms.resultHashes, terms.result)
      /\ BundleTheorems(doc)

\* Lean accepts the module.
Proves(doc) ==
  /\ Generable(doc)
  /\ CASE doc.workflow = ToolUse     -> ToolUseTheorems(doc)
       [] doc.workflow = Computation -> ComputationTheorems(doc)
       [] OTHER                      -> ChainTheorems(doc)

-----------------------------------------------------------------------------
\* run_lean_check: the obligations are evaluated, and a proof is asked for only
\* when all hold.  `build' and `proof' are what the toolchain answers.

\* The answers to a check of these obligations: no proof is asked for, lake
\* fails or is skipped, or Lean accepts what it can prove.
Answers(doc) ==
  {"none", "refused"} \cup (IF Admitted(doc) /\ Proves(doc) THEN {"accepted"} ELSE {})

LeanResult(doc, build, proof) ==
  LET proved == proof # "none" /\ Failing(doc) = {}
      ok == build /\ Failing(doc) = {} /\ (proved => proof = "accepted")
  IN  [status |-> IF ok THEN "ProofChecked" ELSE "Rejected",
       claim_class |-> IF ~ok THEN "Rejected"
                       ELSE IF proved THEN "EnvelopeLeanChecked" ELSE "ProofChecked",
       lean_proof_checked |-> proved /\ proof = "accepted",
       failed |-> Failing(doc),
       kinds |-> {o.kind : o \in doc.obligations}
                   \cup (IF proved /\ proof = "accepted" THEN {"generated"} ELSE {})]

\* formal_checks_from_lean_result: one check for each obligation and one for
\* the status of the whole.
FormalChecks(result) ==
  [c \in result.kinds \cup {"kernel_build"} |->
     IF c = "kernel_build" THEN result.status = "ProofChecked" ELSE c \notin result.failed]
=============================================================================
