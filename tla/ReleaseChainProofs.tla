------------------------- MODULE ReleaseChainProofs --------------------------
(***************************************************************************)
(* Machine-checked properties of release directories, for any edits and    *)
(* whatever stops a promotion or the maintenance script.                   *)
(***************************************************************************)
EXTENDS ReleaseChain, TLAPS

-----------------------------------------------------------------------------
(* What Python admits, Lean proves.                                        *)

(* The terms of a module are those of the only obligation of their kind.   *)
LEMMA InputsAreOfKind ==
    ASSUME NEW doc, NEW o \in doc.obligations,
           \A p \in doc.obligations : p.kind = o.kind => p = o
    PROVE  InputsOf(doc, o.kind) = o.inputs
  BY DEF InputsOf

(* What an obligation that holds says of its inputs.                       *)
LEMMA HoldsMeans ==
    ASSUME NEW o, Holds(o)
    PROVE  /\ o.kind = "VerificationAdmitsBundle" =>
                /\ o.inputs.status = "ProofChecked"
                /\ o.inputs.verified = o.inputs.certified
                /\ o.inputs.blocking
           /\ o.kind = "SignedBundleAdmissible" => o.inputs.signed = o.inputs.verified
           /\ o.kind = "CertificateMatchesRuntime" =>
                o.inputs.certificate = o.inputs.runtime /\ o.inputs.status = "CertificateChecked"
           /\ o.kind = "ToolTraceHashMatchesCertificate" =>
                /\ o.inputs.certificate = o.inputs.trace
                /\ o.inputs.certificate_policy = o.inputs.trace_policy
           /\ o.kind = "ComputationWitnessHashAlignment" =>
                /\ o.inputs.witnessed \subseteq o.inputs.declared
                /\ o.inputs.result \in o.inputs.witnessed
  <1>1. CASE o.kind = "VerificationAdmitsBundle"
    BY <1>1 DEF Holds
  <1>2. CASE o.kind = "SignedBundleAdmissible"
    BY <1>2 DEF Holds
  <1>3. CASE o.kind = "CertificateMatchesRuntime"
    BY <1>3 DEF Holds
  <1>4. CASE o.kind = "ToolTraceHashMatchesCertificate"
    BY <1>4 DEF Holds
  <1>5. CASE o.kind = "ComputationWitnessHashAlignment"
    BY <1>5 DEF Holds
  <1> QED BY <1>1, <1>2, <1>3, <1>4, <1>5

(* The obligations every profile has, against the theorems it has.         *)
LEMMA BundleEvaluated ==
    ASSUME NEW dir, NEW doc, NEW others,
           doc.obligations = BundleObligations(dir) \cup others,
           \A o \in others : o.kind \notin {"VerificationAdmitsBundle", "SignedBundleAdmissible"},
           \A o \in doc.obligations : Holds(o)
    PROVE  BundleTheorems(doc) /\ BundleTerms(doc).verification.status = "ProofChecked"
  <1> DEFINE verified == At(dir["verification"], "verified_input/bundle_hash")
             status   == At(dir["verification"], "status")
             blocking == BlockingChecksPassed(dir["verification"])
             admits   == Obligation("VerificationAdmitsBundle",
                           [status |-> status, verified |-> verified,
                            certified |-> BundleIdentity(dir), blocking |-> blocking])
             signing  == Obligation("SignedBundleAdmissible",
                           [signed |-> At(dir["signed"], "signed_input_bundle_hash"),
                            verified |-> verified])
  <1>1. /\ doc.obligations = {admits, signing} \cup others
        /\ admits.kind = "VerificationAdmitsBundle" /\ signing.kind = "SignedBundleAdmissible"
    BY DEF BundleObligations, Obligation
  <1>2. /\ InputsOf(doc, "VerificationAdmitsBundle") = admits.inputs
        /\ InputsOf(doc, "SignedBundleAdmissible") = signing.inputs
    BY <1>1, InputsAreOfKind
  <1>3. /\ admits.inputs = [status |-> status, verified |-> verified,
                            certified |-> BundleIdentity(dir), blocking |-> blocking]
        /\ signing.inputs = [signed |-> At(dir["signed"], "signed_input_bundle_hash"),
                             verified |-> verified]
    BY DEF Obligation
  <1>4. status = "ProofChecked" /\ verified = BundleIdentity(dir) /\ blocking
    BY <1>1, <1>3, HoldsMeans
  <1>5. At(dir["signed"], "signed_input_bundle_hash") = verified
    BY <1>1, <1>3, HoldsMeans
  <1> HIDE DEF verified, status, blocking
  <1> QED
    BY <1>2, <1>3, <1>4, <1>5
    DEF BundleTheorems, BundleTerms, verificationAdmitsBundleD, signedBundleAdmissibleD

(* The same for the obligation on certificate and receipt, ...             *)
LEMMA RuntimeEvaluated ==
    ASSUME NEW dir, NEW doc, RuntimeObligation(dir) \in doc.obligations,
           \A p \in doc.obligations : p.kind = "CertificateMatchesRuntime" => p = RuntimeObligation(dir),
           \A o \in doc.obligations : Holds(o)
    PROVE  /\ certificateMatchesRuntimeD(ChainTerms(doc).certificate, ChainTerms(doc).receipt)
           /\ ChainTerms(doc).certificate.status = "CertificateChecked"
  <1> DEFINE hash    == At(dir["certificate"], "trace_hash")
             runtime == At(dir["receipt"], "trace_hash")
             status  == At(dir["certificate"], "status")
             inputs  == [certificate |-> hash, runtime |-> runtime, status |-> status]
             o       == Obligation("CertificateMatchesRuntime", inputs)
  <1>1. o = RuntimeObligation(dir) /\ o.kind = "CertificateMatchesRuntime" /\ o.inputs = inputs
    BY DEF RuntimeObligation, Obligation
  <1>2. InputsOf(doc, "CertificateMatchesRuntime") = inputs
    BY <1>1, InputsAreOfKind
  <1>3. hash = runtime /\ status = "CertificateChecked"
    BY <1>1, HoldsMeans
  <1> HIDE DEF hash, runtime, status
  <1> QED BY <1>2, <1>3 DEF ChainTerms, certificateMatchesRuntimeD

(* ... on certificate and tool trace, ...                                  *)
LEMMA ToolEvaluated ==
    ASSUME NEW dir, NEW doc, ToolObligation(dir) \in doc.obligations,
           \A p \in doc.obligations :
              p.kind = "ToolTraceHashMatchesCertificate" => p = ToolObligation(dir),
           \A o \in doc.obligations : Holds(o)
    PROVE  toolTraceHashMatchesCertificateD(ToolUseTerms(doc).trace, ToolUseTerms(doc).certificate)
  <1> DEFINE hash   == At(dir["certificate"], "trace_hash")
             trace  == At(dir["tool_trace"], "trace_hash")
             policy == At(dir["certificate"], "policy_hash")
             asked  == At(dir["tool_trace"], "policy_hash")
             inputs == [certificate |-> hash, trace |-> trace, certificate_policy |-> policy,
                        trace_policy |-> asked]
             o      == Obligation("ToolTraceHashMatchesCertificate", inputs)
  <1>1. o = ToolObligation(dir) /\ o.kind = "ToolTraceHashMatchesCertificate" /\ o.inputs = inputs
    BY DEF ToolObligation, Obligation
  <1>2. InputsOf(doc, "ToolTraceHashMatchesCertificate") = inputs
    BY <1>1, InputsAreOfKind
  <1>3. hash = trace /\ policy = asked
    BY <1>1, HoldsMeans
  <1> HIDE DEF hash, trace, policy, asked
  <1> QED BY <1>2, <1>3 DEF ToolUseTerms, toolTraceHashMatchesCertificateD

(* ... and on witness and result.                                          *)
LEMMA WitnessEvaluated ==
    ASSUME NEW dir, NEW doc, WitnessObligation(dir) \in doc.obligations,
           \A p \in doc.obligations :
              p.kind = "ComputationWitnessHashAlignment" => p = WitnessObligation(dir),
           \A o \in doc.obligations : Holds(o)
    PROVE  /\ witnessResultHashesAdmissibleD(WitnessTerms(doc).resultHashes, WitnessTerms(doc).declared)
           /\ witnessResultHashListedD(WitnessTerms(doc).resultHashes, WitnessTerms(doc).result)
  <1> DEFINE witnessed == At(dir["witness"], "result_hashes")
             result    == Digest(dir[At(dir["result"], "path")])
             status    == At(dir["witness"], "status")
             inputs    == [witnessed |-> witnessed, declared |-> {result}, result |-> result,
                           status |-> status]
             o         == Obligation("ComputationWitnessHashAlignment", inputs)
  <1>1. o = WitnessObligation(dir) /\ o.kind = "ComputationWitnessHashAlignment" /\ o.inputs = inputs
    BY DEF WitnessObligation, Obligation
  <1>2. InputsOf(doc, "ComputationWitnessHashAlignment") = inputs
    BY <1>1, InputsAreOfKind
  <1>3. witnessed \subseteq {result} /\ result \in witnessed
    BY <1>1, HoldsMeans
  <1> HIDE DEF witnessed, result, status
  <1> QED
    BY <1>2, <1>3 DEF WitnessTerms, witnessResultHashesAdmissibleD, witnessResultHashListedD

(* The profile an extraction is for, and what it extracts.                 *)
EnvelopeId(dir) ==
    IF DetectProfile(dir) \in {ToolUse, Computation} THEN DetectProfile(dir) ELSE LabTrust

ObligationsOf(dir) == BundleObligations(dir) \cup ProfileObligations(dir, EnvelopeId(dir))

LEMMA ExtractShape ==
    ASSUME NEW dir
    PROVE  /\ EnvelopeId(dir) \in {LabTrust, ToolUse, Computation}
           /\ Extract(dir) # Refused =>
                /\ Extractable(dir, EnvelopeId(dir))
                /\ Extract(dir) = [workflow |-> EnvelopeId(dir), obligations |-> ObligationsOf(dir),
                      projection |-> [s \in ProjectedFields(EnvelopeId(dir)) |-> Entry(dir, s)]]
  BY DEF Extract, EnvelopeId, ObligationsOf

(* Obligations of different rules have different kinds.                    *)
LEMMA KindsDiffer ==
    ASSUME NEW dir
    PROVE  /\ \A o \in BundleObligations(dir) :
                o.kind \in {"VerificationAdmitsBundle", "SignedBundleAdmissible"}
           /\ RuntimeObligation(dir).kind = "CertificateMatchesRuntime"
           /\ ToolObligation(dir).kind = "ToolTraceHashMatchesCertificate"
           /\ WitnessObligation(dir).kind = "ComputationWitnessHashAlignment"
  BY DEF BundleObligations, RuntimeObligation, ToolObligation, WitnessObligation, Obligation

(* Of any directory, of whatever files: obligations that hold are proved.  *)
LEMMA AdmittedProves ==
    ASSUME NEW dir, Admitted(Extract(dir))
    PROVE  Proves(Extract(dir))
  <1> DEFINE doc == Extract(dir)
             id  == EnvelopeId(dir)
  <1>1. /\ doc.workflow = id /\ id \in {LabTrust, ToolUse, Computation}
        /\ doc.obligations = BundleObligations(dir) \cup ProfileObligations(dir, id)
    BY ExtractShape DEF Admitted, ObligationsOf
  <1>2. \A o \in doc.obligations : Holds(o)
    BY DEF Admitted, Failing
  <1>3. LabTrust # ToolUse /\ LabTrust # Computation /\ ToolUse # Computation
    BY DEF LabTrust, ToolUse, Computation
  <1>4. \A o \in ProfileObligations(dir, id) :
           o.kind \notin {"VerificationAdmitsBundle", "SignedBundleAdmissible"}
    BY <1>1, <1>3, KindsDiffer DEF ProfileObligations
  <1>5. BundleTheorems(doc) /\ BundleTerms(doc).verification.status = "ProofChecked"
    BY <1>1, <1>2, <1>4, BundleEvaluated
  <1> HIDE DEF doc, id
  <1>6. CASE id = Computation
    <2>1. doc.obligations = BundleObligations(dir) \cup {WitnessObligation(dir)}
      BY <1>1, <1>3, <1>6 DEF ProfileObligations
    <2>2. ComputationTheorems(doc)
      BY <2>1, <1>2, <1>5, KindsDiffer, WitnessEvaluated DEF ComputationTheorems
    <2>3. Generable(doc)
      BY <1>1, <1>5, <1>6 DEF Generable, TypedStatuses, LeanStatuses
    <2> QED BY <2>2, <2>3, <1>1, <1>3, <1>6 DEF Proves, doc
  <1>7. CASE id # Computation
    <2>1. /\ RuntimeObligation(dir) \in doc.obligations
          /\ \A p \in doc.obligations :
                p.kind = "CertificateMatchesRuntime" => p = RuntimeObligation(dir)
      BY <1>1, <1>3, <1>7, KindsDiffer DEF ProfileObligations
    <2>2. /\ certificateMatchesRuntimeD(ChainTerms(doc).certificate, ChainTerms(doc).receipt)
          /\ ChainTerms(doc).certificate.status = "CertificateChecked"
      BY <2>1, <1>2, RuntimeEvaluated
    <2>3. ChainTheorems(doc)
      BY <2>2, <1>5 DEF ChainTheorems
    <2>4. Generable(doc)
      BY <2>2, <1>1, <1>5, <1>7 DEF Generable, TypedStatuses, LeanStatuses
    <2>5. id = ToolUse => ToolUseTheorems(doc)
      <3> SUFFICES ASSUME id = ToolUse PROVE ToolUseTheorems(doc)
        OBVIOUS
      <3>1. /\ ToolObligation(dir) \in doc.obligations
            /\ \A p \in doc.obligations :
                  p.kind = "ToolTraceHashMatchesCertificate" => p = ToolObligation(dir)
        BY <1>1, <1>3, KindsDiffer DEF ProfileObligations
      <3> QED BY <3>1, <2>3, <1>2, ToolEvaluated DEF ToolUseTheorems
    <2> QED BY <2>3, <2>4, <2>5, <1>1, <1>7 DEF Proves, doc
  <1> QED BY <1>6, <1>7

(* Obligations that Python admits are proved by the module written for     *)
(* them, whatever directory they were extracted from.                      *)
THEOREM AdmittedIsProved == Spec => []AdmittedIsProvable
  <1>1. AdmittedIsProvable
    BY AdmittedProves DEF AdmittedIsProvable
  <1> QED BY <1>1, PTL

-----------------------------------------------------------------------------
(* The hand-written chains against the declarative engine.                 *)

(* What a set of rules finds, one lemma for each kind of rule.             *)
LEMMA PinsFound ==
    ASSUME NEW dir, NEW spec, NEW c
    PROVE  c \in PinCodes(dir, spec) <=>
             \E r \in spec.pins : c = r.code /\ Off(dir, r.file, r.at, r.key)
  BY DEF PinCodes, Off

LEMMA ProvenanceFound ==
    ASSUME NEW dir, NEW spec, NEW c, \A r \in spec.provenance : r.repo = r.key
    PROVE  c \in ProvenanceCodes(dir, spec) <=>
             \E r \in spec.provenance : c = r.code /\ OffBelow(dir, r.file, r.root, r.key)
  BY DEF ProvenanceCodes, OffBelow

LEMMA StatusesFound ==
    ASSUME NEW dir, NEW spec, NEW c
    PROVE  c \in StatusCodes(dir, spec) <=>
             \E r \in spec.statuses :
                c = r.code /\ IsDocument(File(dir, r.file)) /\ At(dir[r.file], r.at) # r.value
  BY DEF StatusCodes

LEMMA ImportsFound ==
    ASSUME NEW dir, NEW spec, NEW c
    PROVE  c \in ImportCodes(dir, spec) <=>
             \E r \in spec.imports :
                c = r.code /\ IsDocument(File(dir, r.file)) /\ At(dir[r.file], r.at) # r.value
  BY DEF ImportCodes

LEMMA IdsFound ==
    ASSUME NEW dir, NEW spec, NEW c
    PROVE  c \in CertificateIdCodes(dir, spec) <=>
             /\ c = "certificate_id_mismatch"
             /\ \E r \in spec.carried :
                   /\ At(File(dir, r.source), r.id) # Absent
                   /\ ~CarriesId(File(dir, r.carrier), r.at, At(File(dir, r.source), r.id))
  BY DEF CertificateIdCodes, Issue

(* The stated hash of a bundle is missing where one is required, or is     *)
(* another's.                                                              *)
Misstated(dir, r) ==
    LET stated == At(File(dir, r.file), r.at)
    IN  /\ BundleIdentity(dir) # Absent /\ IsDocument(File(dir, r.file))
        /\ r.parent = "" \/ At(File(dir, r.file), r.parent) = Object
        /\ IF stated = Absent THEN r.required ELSE stated # BundleIdentity(dir)

LEMMA IdentitiesFound ==
    ASSUME NEW dir, NEW spec, NEW c
    PROVE  c \in IdentityCodes(dir, spec) <=>
             \E r \in spec.identities : c = r.code /\ Misstated(dir, r)
  BY DEF IdentityCodes, Misstated

(* The pins that every profile has, with those of one profile.             *)
PinsAre(spec, producer, produced, certificate, extra) ==
    spec.pins = SourcePins(producer, produced, certificate) \cup extra

SourcePinOff(dir, producer, produced, certificate, c) ==
    \/ c = Mismatch(producer) /\ \E f \in produced : Off(dir, f, "source_commit", producer)
    \/ /\ c = "certifyedge_commit_mismatch"
       /\ Off(dir, certificate, "source_commit", "certifyedge")
    \/ /\ c = "scientific_memory_commit_mismatch"
       /\ Off(dir, "report", "source_commit", "sm")
    \/ /\ c = "pf_commit_mismatch"
       /\ \E f \in {"verification", "signed"} : Off(dir, f, "source_commit", "pf")

LEMMA SourcePinsFound ==
    ASSUME NEW dir, NEW spec, NEW extra, NEW producer, NEW produced, NEW certificate, NEW c,
           PinsAre(spec, producer, produced, certificate, extra)
    PROVE  c \in PinCodes(dir, spec) <=>
             \/ SourcePinOff(dir, producer, produced, certificate, c)
             \/ \E r \in extra : c = r.code /\ Off(dir, r.file, r.at, r.key)
  <1>1. /\ Mismatch("certifyedge") = "certifyedge_commit_mismatch"
        /\ Mismatch("sm") = "scientific_memory_commit_mismatch"
        /\ Mismatch("pf") = "pf_commit_mismatch"
    BY DEF Mismatch
  <1> DEFINE Found(r) == c = r.code /\ Off(dir, r.file, r.at, r.key)
  <1>2. ASSUME NEW f, NEW key, NEW code
        PROVE  Found(Pin(f, "source_commit", key, code)) <=> c = code /\ Off(dir, f, "source_commit", key)
    BY DEF Pin
  <1> HIDE DEF Found
  <1>3. (\E r \in spec.pins : Found(r)) <=>
          \/ \E f \in produced : Found(Pin(f, "source_commit", producer, Mismatch(producer)))
          \/ Found(Pin(certificate, "source_commit", "certifyedge", Mismatch("certifyedge")))
          \/ Found(Pin("report", "source_commit", "sm", Mismatch("sm")))
          \/ \E f \in {"verification", "signed"} : Found(Pin(f, "source_commit", "pf", Mismatch("pf")))
          \/ \E r \in extra : Found(r)
    BY DEF SourcePins, PinsAre
  <1>4. (\E r \in extra : Found(r)) <=> \E r \in extra : c = r.code /\ Off(dir, r.file, r.at, r.key)
    BY DEF Found
  <1>5. c \in PinCodes(dir, spec) <=> \E r \in spec.pins : Found(r)
    BY PinsFound DEF Found
  <1> QED BY <1>1, <1>2, <1>3, <1>4, <1>5 DEF SourcePinOff

(* A field of a document that was loaded has another value.                *)
FieldOff(dir, r, c) ==
    c = r.code /\ IsDocument(File(dir, r.file)) /\ At(dir[r.file], r.at) # r.value

LEMMA FieldOffMeans ==
    ASSUME NEW dir, NEW f, NEW pointer, NEW value, NEW code, NEW c
    PROVE  FieldOff(dir, Field(f, pointer, value, code), c) <=>
             c = code /\ IsDocument(File(dir, f)) /\ At(dir[f], pointer) # value
  BY DEF FieldOff, Field

(* What the engine looked at was there: it would have raised otherwise.    *)
LEMMA EngineRead ==
    ASSUME NEW dir, NEW spec \in Specs, ~Raises(dir, spec)
    PROVE  /\ IsDocument(File(dir, "certified")) /\ IsDocument(File(dir, "signed"))
           /\ IsDocument(File(dir, "verification"))
  <1> DEFINE Read == {"certified", "signed", "verification"}
  <1>1. Read \subseteq spec.pcs
    <2>1. Read \subseteq LabTrustSpec.pcs
      BY DEF LabTrustSpec
    <2>2. Read \subseteq ToolUseSpec.pcs
      BY DEF ToolUseSpec
    <2>3. Read \subseteq ComputationSpec.pcs
      BY DEF ComputationSpec
    <2> QED BY <2>1, <2>2, <2>3 DEF Specs
  <1>2. ASSUME NEW certificate, NEW id, CarriedId(certificate, id) \subseteq spec.carried
        PROVE  \E r \in spec.carried : r.carrier = "certified"
    BY <1>2 DEF CarriedId, Carries
  <1>3. \E r \in spec.carried : r.carrier = "certified"
    <2>1. CASE spec = LabTrustSpec
      BY <2>1, <1>2 DEF LabTrustSpec
    <2>2. CASE spec = ToolUseSpec
      BY <2>2, <1>2 DEF ToolUseSpec
    <2>3. CASE spec = ComputationSpec
      BY <2>3, <1>2 DEF ComputationSpec
    <2> QED BY <2>1, <2>2, <2>3 DEF Specs
  <1>4. \E r \in spec.identities : r.file = "verification"
    <2> DEFINE Has(s) == \E r \in s.identities : r.file = "verification"
    <2>1. Has(LabTrustSpec)
      BY DEF LabTrustSpec, Identity
    <2>2. Has(ToolUseSpec)
      BY DEF ToolUseSpec, Identity
    <2>3. Has(ComputationSpec)
      BY DEF ComputationSpec, Identity
    <2> QED BY <2>1, <2>2, <2>3 DEF Specs
  <1>5. Read \subseteq LoadedFiles(dir, spec)
    <2>1. "certified" \in LoadedFiles(dir, spec)
      <3>1. "certified" \in UNION {{r.source, r.carrier} : r \in spec.carried}
        BY <1>3
      <3> QED BY <3>1 DEF LoadedFiles
    <2>2. "signed" \in LoadedFiles(dir, spec)
      <3>1. \E A, B, C : LoadedFiles(dir, spec) = A \cup {"signed"} \cup B \cup C
        BY DEF LoadedFiles
      <3> QED BY <3>1
    <2>3. "verification" \in LoadedFiles(dir, spec)
      <3>1. "verification" \in {r.file : r \in spec.imports \cup spec.identities}
        BY <1>4
      <3> QED BY <3>1 DEF LoadedFiles
    <2> QED BY <2>1, <2>2, <2>3
  <1> QED BY <1>1, <1>5 DEF Raises, IsDocument

(* The rules of a LabTrust release, spelled out.                           *)
LEMMA LabTrustPinsFound ==
    ASSUME NEW dir, NEW c
    PROVE  c \in PinCodes(dir, LabTrustSpec) <=>
             \/ c = "labtrust_commit_mismatch" /\ Off(dir, "receipt", "source_commit", "labtrust")
             \/ /\ c = "certifyedge_commit_mismatch"
                /\ Off(dir, "certificate", "source_commit", "certifyedge")
             \/ /\ c = "scientific_memory_commit_mismatch"
                /\ \/ Off(dir, "report", "source_commit", "sm")
                   \/ Off(dir, "report", "scientific_memory_commit", "sm")
             \/ /\ c = "pf_commit_mismatch"
                /\ \E f \in {"verification", "signed"} : Off(dir, f, "source_commit", "pf")
  <1> DEFINE own  == Pin("report", "scientific_memory_commit", "sm", Mismatch("sm"))
             owns == {own}
             made == {"receipt"}
  <1>1. PinsAre(LabTrustSpec, "labtrust", made, "certificate", owns)
    BY DEF LabTrustSpec, PinsAre
  <1>2. /\ Mismatch("labtrust") = "labtrust_commit_mismatch"
        /\ own.code = "scientific_memory_commit_mismatch"
        /\ own.file = "report" /\ own.at = "scientific_memory_commit" /\ own.key = "sm"
    BY DEF Mismatch, Pin
  <1>3. (\E r \in owns : c = r.code /\ Off(dir, r.file, r.at, r.key)) <=>
          /\ c = "scientific_memory_commit_mismatch"
          /\ Off(dir, "report", "scientific_memory_commit", "sm")
    <2> HIDE DEF own
    <2> QED BY <1>2
  <1>4. (\E f \in made : Off(dir, f, "source_commit", "labtrust"))
          <=> Off(dir, "receipt", "source_commit", "labtrust")
    OBVIOUS
  <1>6. SourcePinOff(dir, "labtrust", made, "certificate", c) <=>
             \/ c = "labtrust_commit_mismatch" /\ Off(dir, "receipt", "source_commit", "labtrust")
             \/ /\ c = "certifyedge_commit_mismatch"
                /\ Off(dir, "certificate", "source_commit", "certifyedge")
             \/ /\ c = "scientific_memory_commit_mismatch"
                /\ Off(dir, "report", "source_commit", "sm")
             \/ /\ c = "pf_commit_mismatch"
                /\ \E f \in {"verification", "signed"} : Off(dir, f, "source_commit", "pf")
    BY <1>2, <1>4 DEF SourcePinOff
  <1> HIDE DEF owns, made
  <1>5. c \in PinCodes(dir, LabTrustSpec) <=>
             \/ SourcePinOff(dir, "labtrust", made, "certificate", c)
             \/ \E r \in owns : c = r.code /\ Off(dir, r.file, r.at, r.key)
    BY <1>1, SourcePinsFound
  <1> QED BY <1>3, <1>5, <1>6

LEMMA LabTrustProvenanceFound ==
    ASSUME NEW dir, NEW c
    PROVE  c \in ProvenanceCodes(dir, LabTrustSpec) <=>
             \/ /\ c = "labtrust_commit_mismatch"
                /\ \/ OffBelow(dir, "pending", "", "labtrust")
                   \/ OffBelow(dir, "certified", "", "labtrust")
                   \/ OffBelow(dir, "signed", "science_claim_bundle", "labtrust")
             \/ /\ c = "certifyedge_commit_mismatch"
                /\ OffBelow(dir, "certified", "", "certifyedge") \/ OffBelow(dir, "signed", "", "certifyedge")
             \/ /\ c = "pf_commit_mismatch"
                /\ OffBelow(dir, "verification", "", "pf") \/ OffBelow(dir, "signed", "", "pf")
  <1> DEFINE places == {<<"pending", "", "labtrust">>, <<"certified", "", "labtrust">>,
                        <<"signed", "science_claim_bundle", "labtrust">>,
                        <<"certified", "", "certifyedge">>, <<"signed", "", "certifyedge">>,
                        <<"verification", "", "pf">>, <<"signed", "", "pf">>}
             RuleAt(s) == Provenance(s[1], s[2], s[3], s[3], Mismatch(s[3]))
             Found(r) == c = r.code /\ OffBelow(dir, r.file, r.root, r.key)
  <1>1. LabTrustSpec.provenance = {RuleAt(s) : s \in places}
    BY DEF LabTrustSpec
  <1>2. ASSUME NEW s \in places
        PROVE  /\ RuleAt(s).repo = RuleAt(s).key
               /\ Found(RuleAt(s)) <=> c = Mismatch(s[3]) /\ OffBelow(dir, s[1], s[2], s[3])
    BY DEF Provenance
  <1> HIDE DEF RuleAt, places
  <1>a. c \in ProvenanceCodes(dir, LabTrustSpec) <=> \E r \in LabTrustSpec.provenance : Found(r)
    BY <1>1, <1>2, ProvenanceFound
  <1> HIDE DEF Found
  <1>3. c \in ProvenanceCodes(dir, LabTrustSpec) <=> \E s \in places : Found(RuleAt(s))
    BY <1>1, <1>a
  <1>4. c \in ProvenanceCodes(dir, LabTrustSpec) <=>
          \E s \in places : c = Mismatch(s[3]) /\ OffBelow(dir, s[1], s[2], s[3])
    BY <1>2, <1>3
  <1>5. /\ Mismatch("labtrust") = "labtrust_commit_mismatch"
        /\ Mismatch("certifyedge") = "certifyedge_commit_mismatch"
        /\ Mismatch("pf") = "pf_commit_mismatch"
    BY DEF Mismatch
  <1>6. (\E s \in places : c = Mismatch(s[3]) /\ OffBelow(dir, s[1], s[2], s[3])) <=>
          \/ c = Mismatch("labtrust") /\ OffBelow(dir, "pending", "", "labtrust")
          \/ c = Mismatch("labtrust") /\ OffBelow(dir, "certified", "", "labtrust")
          \/ c = Mismatch("labtrust") /\ OffBelow(dir, "signed", "science_claim_bundle", "labtrust")
          \/ c = Mismatch("certifyedge") /\ OffBelow(dir, "certified", "", "certifyedge")
          \/ c = Mismatch("certifyedge") /\ OffBelow(dir, "signed", "", "certifyedge")
          \/ c = Mismatch("pf") /\ OffBelow(dir, "verification", "", "pf")
          \/ c = Mismatch("pf") /\ OffBelow(dir, "signed", "", "pf")
    BY DEF places
  <1> QED BY <1>4, <1>5, <1>6

LEMMA LabTrustStatusesFound ==
    ASSUME NEW dir, NEW c
    PROVE  c \in StatusCodes(dir, LabTrustSpec) <=>
             /\ c = "schema_validation_failed"
             /\ \/ IsDocument(File(dir, "verification")) /\ At(dir["verification"], "status") # "ProofChecked"
                \/ /\ IsDocument(File(dir, "certificate"))
                   /\ At(dir["certificate"], "status") # "CertificateChecked"
                \/ /\ IsDocument(File(dir, "signed"))
                   /\ At(dir["signed"], "verification_result/status") # "ProofChecked"
  <1> DEFINE checked  == Field("certificate", "status", "CertificateChecked", "schema_validation_failed")
             embedded == Field("signed", "verification_result/status", "ProofChecked",
                               "schema_validation_failed")
  <1>1. LabTrustSpec.statuses = {VerifierReady, checked, embedded}
    BY DEF LabTrustSpec
  <1> HIDE DEF checked, embedded
  <1>2. c \in StatusCodes(dir, LabTrustSpec) <=>
          \/ FieldOff(dir, VerifierReady, c) \/ FieldOff(dir, checked, c) \/ FieldOff(dir, embedded, c)
    BY <1>1, StatusesFound DEF FieldOff
  <1> QED BY <1>2, FieldOffMeans DEF VerifierReady, checked, embedded

LEMMA LabTrustImportsFound ==
    ASSUME NEW dir, NEW c
    PROVE  c \in ImportCodes(dir, LabTrustSpec) <=>
             /\ IsDocument(File(dir, "report"))
             /\ \/ /\ c = "scientific_memory_import_failed"
                   /\ \/ At(dir["report"], "verification_status") # "passed"
                      \/ At(dir["report"], "strict") # "true"
                \/ /\ c = "legacy_import_detected"
                   /\ \/ At(dir["report"], "allow_legacy") # "false"
                      \/ At(dir["report"], "bundle_shape") # "pcs_core"
  <1> DEFINE strict == Field("report", "strict", "true", "scientific_memory_import_failed")
             legacy == Field("report", "allow_legacy", "false", "legacy_import_detected")
             shape  == Field("report", "bundle_shape", "pcs_core", "legacy_import_detected")
  <1>1. LabTrustSpec.imports = {ImportPassed, strict, legacy, shape}
    BY DEF LabTrustSpec
  <1> HIDE DEF strict, legacy, shape
  <1>2. c \in ImportCodes(dir, LabTrustSpec) <=>
          \/ FieldOff(dir, ImportPassed, c) \/ FieldOff(dir, strict, c)
          \/ FieldOff(dir, legacy, c) \/ FieldOff(dir, shape, c)
    BY <1>1, ImportsFound DEF FieldOff
  <1> QED BY <1>2, FieldOffMeans DEF ImportPassed, strict, legacy, shape

LEMMA LabTrustIdentitiesFound ==
    ASSUME NEW dir, NEW c
    PROVE  c \in IdentityCodes(dir, LabTrustSpec) <=>
             /\ BundleIdentity(dir) # Absent
             /\ \/ /\ c = "verified_input_hash_mismatch"
                   /\ IsDocument(File(dir, "verification"))
                   /\ At(File(dir, "verification"), "verified_input") = Object
                   /\ \/ At(File(dir, "verification"), "verified_input/bundle_hash") = Absent
                      \/ At(File(dir, "verification"), "verified_input/bundle_hash") # BundleIdentity(dir)
                \/ /\ c = "signed_input_hash_mismatch"
                   /\ IsDocument(File(dir, "signed"))
                   /\ \/ At(File(dir, "signed"), "signed_input_bundle_hash") = Absent
                      \/ At(File(dir, "signed"), "signed_input_bundle_hash") # BundleIdentity(dir)
  <1> DEFINE verified == Identity("verification", "verified_input", "verified_input/bundle_hash",
                                  "verified_input_hash_mismatch", TRUE)
             signed   == Identity("signed", "", "signed_input_bundle_hash",
                                  "signed_input_hash_mismatch", TRUE)
  <1>1. LabTrustSpec.identities = {verified, signed}
    BY DEF LabTrustSpec
  <1>2. /\ verified.file = "verification" /\ verified.parent = "verified_input"
        /\ verified.at = "verified_input/bundle_hash" /\ verified.required
        /\ verified.code = "verified_input_hash_mismatch"
        /\ signed.file = "signed" /\ signed.parent = ""
        /\ signed.at = "signed_input_bundle_hash" /\ signed.required
        /\ signed.code = "signed_input_hash_mismatch"
    BY DEF Identity
  <1> HIDE DEF verified, signed
  <1>3. c \in IdentityCodes(dir, LabTrustSpec) <=>
          \/ c = verified.code /\ Misstated(dir, verified)
          \/ c = signed.code /\ Misstated(dir, signed)
    BY <1>1, IdentitiesFound
  <1>4. Misstated(dir, verified) <=>
          /\ BundleIdentity(dir) # Absent
          /\ IsDocument(File(dir, "verification"))
          /\ At(File(dir, "verification"), "verified_input") = Object
          /\ \/ At(File(dir, "verification"), "verified_input/bundle_hash") = Absent
             \/ At(File(dir, "verification"), "verified_input/bundle_hash") # BundleIdentity(dir)
    BY <1>2 DEF Misstated
  <1>5. Misstated(dir, signed) <=>
          /\ BundleIdentity(dir) # Absent
          /\ IsDocument(File(dir, "signed"))
          /\ \/ At(File(dir, "signed"), "signed_input_bundle_hash") = Absent
             \/ At(File(dir, "signed"), "signed_input_bundle_hash") # BundleIdentity(dir)
    BY <1>2 DEF Misstated
  <1> QED BY <1>2, <1>3, <1>4, <1>5

LEMMA LabTrustIdsFound ==
    ASSUME NEW dir, NEW c, NEW id, id = At(File(dir, "certificate"), "certificate_id")
    PROVE  c \in CertificateIdCodes(dir, LabTrustSpec) <=>
             /\ c = "certificate_id_mismatch" /\ id # Absent
             /\ \/ At(File(dir, "certified"), "certificates/0/certificate_id") # id
                \/ id \notin Items(File(dir, "certified"), "claim_artifact/certificate_refs")
                \/ id \notin Items(File(dir, "certified"), "evidence_bundle/certificate_refs")
                \/ At(File(dir, "verification"), "verified_input/certificate_id") # id
                \/ At(File(dir, "signed"), "science_claim_bundle/certificates/0/certificate_id") # id
  <1> DEFINE places == {<<"certified", "evidence_bundle/certificate_refs">>,
                        <<"verification", "verified_input/certificate_id">>,
                        <<"signed", "science_claim_bundle/certificates/0/certificate_id">>}
             RuleAt(s)  == Carries("certificate", "certificate_id", s[1], s[2])
             Missing(s) == id # Absent /\ ~CarriesId(File(dir, s[1]), s[2], id)
             Found(r)   == /\ At(File(dir, r.source), r.id) # Absent
                           /\ ~CarriesId(File(dir, r.carrier), r.at, At(File(dir, r.source), r.id))
             embedded   == <<"certified", "certificates/0/certificate_id">>
             claimed    == <<"certified", "claim_artifact/certificate_refs">>
  <1>1. LabTrustSpec.carried = {RuleAt(embedded), RuleAt(claimed)} \cup {RuleAt(s) : s \in places}
    BY DEF LabTrustSpec, CarriedId
  <1>2. ASSUME NEW s PROVE Found(RuleAt(s)) <=> Missing(s)
    BY DEF Carries
  <1>3. c \in CertificateIdCodes(dir, LabTrustSpec) <=>
          c = "certificate_id_mismatch" /\ \E r \in LabTrustSpec.carried : Found(r)
    BY IdsFound
  <1>4. /\ Missing(embedded) <=>
             id # Absent /\ At(File(dir, "certified"), "certificates/0/certificate_id") # id
        /\ Missing(claimed) <=>
             id # Absent /\ id \notin Items(File(dir, "certified"), "claim_artifact/certificate_refs")
    BY DEF CarriesId
  <1>5. (\E s \in places : Missing(s)) <=>
          \/ Missing(<<"certified", "evidence_bundle/certificate_refs">>)
          \/ Missing(<<"verification", "verified_input/certificate_id">>)
          \/ Missing(<<"signed", "science_claim_bundle/certificates/0/certificate_id">>)
    <2> HIDE DEF Missing
    <2> QED OBVIOUS
  <1>6. /\ Missing(<<"certified", "evidence_bundle/certificate_refs">>) <=>
             id # Absent /\ id \notin Items(File(dir, "certified"), "evidence_bundle/certificate_refs")
        /\ Missing(<<"verification", "verified_input/certificate_id">>) <=>
             id # Absent /\ At(File(dir, "verification"), "verified_input/certificate_id") # id
        /\ Missing(<<"signed", "science_claim_bundle/certificates/0/certificate_id">>) <=>
             /\ id # Absent
             /\ At(File(dir, "signed"), "science_claim_bundle/certificates/0/certificate_id") # id
    BY DEF CarriesId
  <1> HIDE DEF places, RuleAt, Missing, Found, embedded, claimed
  <1>7. (\E r \in LabTrustSpec.carried : Found(r)) <=>
          Missing(embedded) \/ Missing(claimed) \/ \E s \in places : Missing(s)
    BY <1>1, <1>2
  <1> QED BY <1>3, <1>4, <1>5, <1>6, <1>7

(* What the hand-written chain of a LabTrust release finds.                *)
LEMMA LegacyLabTrustFound ==
    ASSUME NEW dir, NEW c, c \in LegacyLabTrust(dir)
    PROVE  \/ c \in LegacyLabTrustCommits(dir) \/ c \in LegacyLabTrustImport(dir)
           \/ c \in LegacyLabTrustIds(dir) \/ c \in LegacyLabTrustStatuses(dir)
           \/ c \in LegacyLabTrustIdentities(dir)
  BY DEF LegacyLabTrust

LEMMA LegacyLabTrustHas ==
    ASSUME NEW dir
    PROVE  /\ LegacyLabTrustCommits(dir) \subseteq LegacyLabTrust(dir)
           /\ LegacyLabTrustImport(dir) \subseteq LegacyLabTrust(dir)
           /\ LegacyLabTrustIds(dir) \subseteq LegacyLabTrust(dir)
           /\ LegacyLabTrustStatuses(dir) \subseteq LegacyLabTrust(dir)
           /\ LegacyLabTrustIdentities(dir) \subseteq LegacyLabTrust(dir)
  BY DEF LegacyLabTrust

LEMMA FieldCodesAre ==
    ASSUME NEW dir, NEW spec, NEW c
    PROVE  c \in FieldCodes(dir, spec) <=>
             \/ c \in StatusCodes(dir, spec) \/ c \in PinCodes(dir, spec)
             \/ c \in ProvenanceCodes(dir, spec) \/ c \in CertificateIdCodes(dir, spec)
             \/ c \in ImportCodes(dir, spec) \/ c \in ProofCodes(dir, spec)
             \/ c \in IdentityCodes(dir, spec) \/ c \in SignatureCodes(dir) \/ c \in BanCodes(dir, spec)
  BY DEF FieldCodes

(* Group by group, the two validators of a LabTrust release.               *)
LEMMA LabTrustCommitsAgree ==
    ASSUME NEW dir, NEW c
    PROVE  /\ c \in LegacyLabTrustCommits(dir) =>
                c \in PinCodes(dir, LabTrustSpec) \/ c \in ProvenanceCodes(dir, LabTrustSpec)
           /\ c \in ProvenanceCodes(dir, LabTrustSpec) => c \in LegacyLabTrustCommits(dir)
           /\ (c \in PinCodes(dir, LabTrustSpec) /\ c # "scientific_memory_commit_mismatch") =>
                c \in LegacyLabTrustCommits(dir)
  <1>1. c \in LegacyLabTrustCommits(dir) <=>
          \/ /\ c = "labtrust_commit_mismatch"
             /\ \/ Off(dir, "receipt", "source_commit", "labtrust")
                \/ OffBelow(dir, "pending", "", "labtrust")
                \/ OffBelow(dir, "certified", "", "labtrust")
                \/ OffBelow(dir, "signed", "science_claim_bundle", "labtrust")
          \/ /\ c = "certifyedge_commit_mismatch"
             /\ \/ Off(dir, "certificate", "source_commit", "certifyedge")
                \/ OffBelow(dir, "certified", "", "certifyedge")
                \/ OffBelow(dir, "signed", "", "certifyedge")
          \/ /\ c = "pf_commit_mismatch"
             /\ \E f \in {"verification", "signed"} :
                   Off(dir, f, "source_commit", "pf") \/ OffBelow(dir, f, "", "pf")
    BY DEF LegacyLabTrustCommits, Issue
  <1> QED BY <1>1, LabTrustPinsFound, LabTrustProvenanceFound

LEMMA Loaded ==
    ASSUME NEW dir, NEW f, IsDocument(File(dir, f))
    PROVE  File(dir, f) = dir[f] /\ f \in DOMAIN dir
  BY DEF IsDocument, File

(* What only the engine finds in a LabTrust release.                       *)
LEMMA LabTrustEngineAlone ==
    ASSUME NEW dir
    PROVE  /\ "signature_missing" \in EngineAlone(dir, LabTrust)
           /\ Pinned(dir, "sm") = Absent =>
                /\ "scientific_memory_import_failed" \in EngineAlone(dir, LabTrust)
                /\ "legacy_import_detected" \in EngineAlone(dir, LabTrust)
           /\ At(File(dir, "report"), "scientific_memory_commit") = Absent =>
                "scientific_memory_commit_mismatch" \in EngineAlone(dir, LabTrust)
           /\ At(File(dir, "signed"), "science_claim_bundle") # Object =>
                "certificate_id_mismatch" \in EngineAlone(dir, LabTrust)
           /\ \/ At(File(dir, "signed"), "verification_result") # Object
              \/ \E f \in LabTrustSpec.handoffs : At(File(dir, f), "handoff_kind") = "unknown"
              => "schema_validation_failed" \in EngineAlone(dir, LabTrust)
  BY DEF EngineAlone, Issue

LEMMA LabTrustImportAgrees ==
    ASSUME NEW dir, NEW c
    PROVE  /\ c \in LegacyLabTrustImport(dir) =>
                c \in PinCodes(dir, LabTrustSpec) \/ c \in ImportCodes(dir, LabTrustSpec)
           /\ (c \in PinCodes(dir, LabTrustSpec) /\ c = "scientific_memory_commit_mismatch") =>
                c \in LegacyLabTrustImport(dir) \/ c \in EngineAlone(dir, LabTrust)
           /\ c \in ImportCodes(dir, LabTrustSpec) =>
                c \in LegacyLabTrustImport(dir) \/ c \in EngineAlone(dir, LabTrust)
  <1> DEFINE report == File(dir, "report")
  <1>1. c \in LegacyLabTrustImport(dir) <=>
          /\ Pinned(dir, "sm") # Absent /\ IsDocument(report)
          /\ \/ /\ c = "scientific_memory_commit_mismatch"
                /\ \/ At(report, "source_commit") # Pinned(dir, "sm")
                   \/ At(report, "scientific_memory_commit") \notin {Absent, Pinned(dir, "sm")}
             \/ /\ c = "scientific_memory_import_failed"
                /\ At(report, "verification_status") # "passed" \/ At(report, "strict") # "true"
             \/ /\ c = "legacy_import_detected"
                /\ At(report, "allow_legacy") # "false" \/ At(report, "bundle_shape") # "pcs_core"
    BY DEF LegacyLabTrustImport, Issue
  <1>2. ASSUME NEW pointer
        PROVE  Off(dir, "report", pointer, "sm") <=>
                 /\ Pinned(dir, "sm") # Absent /\ IsDocument(report)
                 /\ At(report, pointer) # Pinned(dir, "sm")
    BY Loaded DEF Off
  <1>3. IsDocument(report) => report = dir["report"]
    BY Loaded
  <1>4. c = "scientific_memory_commit_mismatch" =>
          (c \in PinCodes(dir, LabTrustSpec) <=>
             \/ Off(dir, "report", "source_commit", "sm")
             \/ Off(dir, "report", "scientific_memory_commit", "sm"))
    BY LabTrustPinsFound
  <1> HIDE DEF report
  <1>5. c \in ImportCodes(dir, LabTrustSpec) <=>
             /\ IsDocument(report)
             /\ \/ /\ c = "scientific_memory_import_failed"
                   /\ \/ At(report, "verification_status") # "passed"
                      \/ At(report, "strict") # "true"
                \/ /\ c = "legacy_import_detected"
                   /\ \/ At(report, "allow_legacy") # "false"
                      \/ At(report, "bundle_shape") # "pcs_core"
    BY <1>3, LabTrustImportsFound DEF report
  <1>6. /\ At(report, "scientific_memory_commit") = Absent =>
                "scientific_memory_commit_mismatch" \in EngineAlone(dir, LabTrust)
        /\ Pinned(dir, "sm") = Absent =>
                /\ "scientific_memory_import_failed" \in EngineAlone(dir, LabTrust)
                /\ "legacy_import_detected" \in EngineAlone(dir, LabTrust)
    BY LabTrustEngineAlone DEF report
  <1> QED BY <1>1, <1>2, <1>4, <1>5, <1>6

LEMMA LabTrustIdsAgree ==
    ASSUME NEW dir, NEW c, IsDocument(File(dir, "certified"))
    PROVE  /\ c \in LegacyLabTrustIds(dir) => c \in CertificateIdCodes(dir, LabTrustSpec)
           /\ c \in CertificateIdCodes(dir, LabTrustSpec) =>
                c \in LegacyLabTrustIds(dir) \/ c \in EngineAlone(dir, LabTrust)
  <1> DEFINE id == At(File(dir, "certificate"), "certificate_id")
  <1>1. c \in LegacyLabTrustIds(dir) <=>
          /\ c = "certificate_id_mismatch" /\ id # Absent
          /\ \/ At(File(dir, "certified"), "certificates/0/certificate_id") # id
             \/ id \notin Items(File(dir, "certified"), "claim_artifact/certificate_refs")
             \/ id \notin Items(File(dir, "certified"), "evidence_bundle/certificate_refs")
             \/ At(File(dir, "verification"), "verified_input/certificate_id") # id
             \/ /\ At(File(dir, "signed"), "science_claim_bundle") = Object
                /\ At(File(dir, "signed"), "science_claim_bundle/certificates/0/certificate_id") # id
    BY DEF LegacyLabTrustIds, Issue
  <1> QED BY <1>1, LabTrustIdsFound, LabTrustEngineAlone

LEMMA LabTrustStatusesAgree ==
    ASSUME NEW dir, NEW c, IsDocument(File(dir, "signed")), IsDocument(File(dir, "verification"))
    PROVE  /\ c \in LegacyLabTrustStatuses(dir) =>
                c \in StatusCodes(dir, LabTrustSpec) \/ c \in ProofCodes(dir, LabTrustSpec)
           /\ c \in StatusCodes(dir, LabTrustSpec) \/ c \in ProofCodes(dir, LabTrustSpec) =>
                c \in LegacyLabTrustStatuses(dir) \/ c \in EngineAlone(dir, LabTrust)
  <1> DEFINE verification == File(dir, "verification")
             signed == File(dir, "signed")
  <1>1. c \in LegacyLabTrustStatuses(dir) <=>
          /\ c = "schema_validation_failed"
          /\ \/ IsDocument(verification) /\ At(verification, "status") # "ProofChecked"
             \/ At(signed, "verification_result") = Object
                  /\ At(signed, "verification_result/status") # "ProofChecked"
             \/ At(verification, "verified_input") = Absent
             \/ IsDocument(File(dir, "certificate"))
                  /\ At(dir["certificate"], "status") # "CertificateChecked"
    BY DEF LegacyLabTrustStatuses, Issue
  <1>2. c \in ProofCodes(dir, LabTrustSpec) <=>
          c = "schema_validation_failed" /\ At(verification, "verified_input") = Absent
    <2> DEFINE rule == <<"verification", "verified_input", "schema_validation_failed">>
    <2>1. LabTrustSpec.proofs = {rule}
      BY DEF LabTrustSpec
    <2>2. rule[1] = "verification" /\ rule[2] = "verified_input" /\ rule[3] = "schema_validation_failed"
      OBVIOUS
    <2> HIDE DEF rule
    <2>3. c \in ProofCodes(dir, LabTrustSpec) <=>
            c = rule[3] /\ At(File(dir, rule[1]), rule[2]) = Absent
      BY <2>1 DEF ProofCodes
    <2> QED BY <2>2, <2>3
  <1>3. verification = dir["verification"] /\ signed = dir["signed"]
    BY Loaded
  <1>4. At(signed, "verification_result") # Object =>
          "schema_validation_failed" \in EngineAlone(dir, LabTrust)
    BY LabTrustEngineAlone
  <1> QED BY <1>1, <1>2, <1>3, <1>4, LabTrustStatusesFound

LEMMA LabTrustIdentitiesAgree ==
    ASSUME NEW dir, NEW c, IsDocument(File(dir, "signed")), IsDocument(File(dir, "verification"))
    PROVE  c \in LegacyLabTrustIdentities(dir) <=> c \in IdentityCodes(dir, LabTrustSpec)
  <1> DEFINE verification == File(dir, "verification")
             signed == File(dir, "signed")
  <1>1. c \in LegacyLabTrustIdentities(dir) <=>
          /\ BundleIdentity(dir) # Absent
          /\ \/ /\ c = "verified_input_hash_mismatch"
                /\ At(verification, "verified_input") = Object
                /\ At(verification, "verified_input/bundle_hash") # BundleIdentity(dir)
             \/ /\ c = "signed_input_hash_mismatch"
                /\ IsDocument(signed)
                /\ At(signed, "signed_input_bundle_hash") # BundleIdentity(dir)
    BY DEF LegacyLabTrustIdentities, Issue
  <1> QED BY <1>1, LabTrustIdentitiesFound

LEMMA LabTrustSignatureAndBan ==
    ASSUME NEW dir, NEW c
    PROVE  /\ c \in SignatureCodes(dir) => c = "signature_missing"
           /\ c \notin BanCodes(dir, LabTrustSpec)
  <1>1. LabTrustSpec.banned = {}
    BY DEF LabTrustSpec
  <1> QED BY <1>1 DEF SignatureCodes, Issue, BanCodes

LEMMA LabTrustAgrees ==
    ASSUME NEW dir, NEW c, ~Raises(dir, LabTrustSpec)
    PROVE  /\ c \in LegacyLabTrust(dir) => c \in FieldCodes(dir, LabTrustSpec)
           /\ c \in FieldCodes(dir, LabTrustSpec) =>
                c \in LegacyLabTrust(dir) \/ c \in EngineAlone(dir, LabTrust)
  <1>1. /\ IsDocument(File(dir, "certified")) /\ IsDocument(File(dir, "signed"))
        /\ IsDocument(File(dir, "verification"))
    BY EngineRead DEF Specs
  <1>2. c \in LegacyLabTrust(dir) => c \in FieldCodes(dir, LabTrustSpec)
    <2> SUFFICES ASSUME c \in LegacyLabTrust(dir) PROVE c \in FieldCodes(dir, LabTrustSpec)
      OBVIOUS
    <2>1. CASE c \in LegacyLabTrustCommits(dir)
      BY <2>1, LabTrustCommitsAgree, FieldCodesAre
    <2>2. CASE c \in LegacyLabTrustImport(dir)
      BY <2>2, LabTrustImportAgrees, FieldCodesAre
    <2>3. CASE c \in LegacyLabTrustIds(dir)
      BY <2>3, <1>1, LabTrustIdsAgree, FieldCodesAre
    <2>4. CASE c \in LegacyLabTrustStatuses(dir)
      BY <2>4, <1>1, LabTrustStatusesAgree, FieldCodesAre
    <2>5. CASE c \in LegacyLabTrustIdentities(dir)
      BY <2>5, <1>1, LabTrustIdentitiesAgree, FieldCodesAre
    <2> QED BY <2>1, <2>2, <2>3, <2>4, <2>5, LegacyLabTrustFound
  <1>3. c \in FieldCodes(dir, LabTrustSpec) =>
           c \in LegacyLabTrust(dir) \/ c \in EngineAlone(dir, LabTrust)
    <2> SUFFICES ASSUME c \in FieldCodes(dir, LabTrustSpec)
                 PROVE  c \in LegacyLabTrust(dir) \/ c \in EngineAlone(dir, LabTrust)
      OBVIOUS
    <2>1. CASE c \in StatusCodes(dir, LabTrustSpec) \/ c \in ProofCodes(dir, LabTrustSpec)
      BY <2>1, <1>1, LabTrustStatusesAgree, LegacyLabTrustHas
    <2>2. CASE c \in PinCodes(dir, LabTrustSpec) \/ c \in ProvenanceCodes(dir, LabTrustSpec)
      BY <2>2, LabTrustCommitsAgree, LabTrustImportAgrees, LegacyLabTrustHas
    <2>3. CASE c \in CertificateIdCodes(dir, LabTrustSpec)
      BY <2>3, <1>1, LabTrustIdsAgree, LegacyLabTrustHas
    <2>4. CASE c \in ImportCodes(dir, LabTrustSpec)
      BY <2>4, LabTrustImportAgrees, LegacyLabTrustHas
    <2>5. CASE c \in IdentityCodes(dir, LabTrustSpec)
      BY <2>5, <1>1, LabTrustIdentitiesAgree, LegacyLabTrustHas
    <2>6. CASE c \in SignatureCodes(dir) \/ c \in BanCodes(dir, LabTrustSpec)
      BY <2>6, LabTrustSignatureAndBan, LabTrustEngineAlone
    <2> QED BY <2>1, <2>2, <2>3, <2>4, <2>5, <2>6, FieldCodesAre
  <1> QED BY <1>2, <1>3

(* The two later profiles differ in the documents of the producer and the  *)
(* certifier, and in a few rules of their own.                             *)
BundleHash == Identity("verification", "verified_input", "verified_input/bundle_hash",
                       "verified_input_hash_mismatch", FALSE)

IsLater(spec, producer, produced, certificate, id) ==
    /\ PinsAre(spec, producer, produced, certificate, {})
    /\ spec.provenance = {} /\ spec.proofs = {}
    /\ spec.carried = CarriedId(certificate, id)
    /\ spec.imports = {ImportPassed} /\ spec.identities = {BundleHash}

Recorded == {"tool_trace", "receipt"}
Computed == {"dataset", "environment", "run_receipt", "result"}

LEMMA LaterSpecs ==
    /\ IsLater(ToolUseSpec, "agent_runtime", Recorded, "certificate", "certificate_id")
    /\ IsLater(ComputationSpec, "scientific_computation", Computed, "witness", "witness_id")
  <1>1. IsLater(ToolUseSpec, "agent_runtime", Recorded, "certificate", "certificate_id")
    BY DEF IsLater, ToolUseSpec, PinsAre, BundleHash, Recorded
  <1>2. IsLater(ComputationSpec, "scientific_computation", Computed, "witness", "witness_id")
    BY DEF IsLater, ComputationSpec, PinsAre, BundleHash, Computed
  <1> QED BY <1>1, <1>2

LEMMA LaterEngineAlone ==
    ASSUME NEW dir, NEW id, id # LabTrust
    PROVE  /\ "signature_missing" \in EngineAlone(dir, id)
           /\ Pinned(dir, "sm") = Absent =>
                "scientific_memory_import_failed" \in EngineAlone(dir, id)
  BY DEF EngineAlone, Issue

LEMMA LaterCommitsAgree ==
    ASSUME NEW dir, NEW spec, NEW producer, NEW produced, NEW certificate, NEW id, NEW c,
           IsLater(spec, producer, produced, certificate, id)
    PROVE  /\ c \in LegacyCommits(dir, producer, produced, certificate) =>
                c \in PinCodes(dir, spec) \/ c \in ImportCodes(dir, spec)
           /\ c \in PinCodes(dir, spec) => c \in LegacyCommits(dir, producer, produced, certificate)
           /\ c \in ImportCodes(dir, spec) =>
                \/ c \in LegacyCommits(dir, producer, produced, certificate)
                \/ Pinned(dir, "sm") = Absent /\ c = "scientific_memory_import_failed"
           /\ c \notin ProvenanceCodes(dir, spec) /\ c \notin ProofCodes(dir, spec)
  <1>1. c \in LegacyCommits(dir, producer, produced, certificate) <=>
          \/ c = Mismatch(producer) /\ \E f \in produced : Off(dir, f, "source_commit", producer)
          \/ c = "certifyedge_commit_mismatch" /\ Off(dir, certificate, "source_commit", "certifyedge")
          \/ /\ c = "pf_commit_mismatch"
             /\ \E f \in {"verification", "signed"} : Off(dir, f, "source_commit", "pf")
          \/ c = "scientific_memory_commit_mismatch" /\ Off(dir, "report", "source_commit", "sm")
          \/ /\ c = "scientific_memory_import_failed"
             /\ Pinned(dir, "sm") # Absent
             /\ IsDocument(File(dir, "report"))
             /\ At(dir["report"], "verification_status") # "passed"
    BY DEF LegacyCommits, Issue
  <1> DEFINE none == {}
  <1>2. PinsAre(spec, producer, produced, certificate, none)
    BY DEF IsLater
  <1>3. c \in PinCodes(dir, spec) <=> SourcePinOff(dir, producer, produced, certificate, c)
    <2>1. \A r \in none : FALSE
      OBVIOUS
    <2> HIDE DEF none
    <2> QED BY <1>2, <2>1, SourcePinsFound
  <1>4. c \in ImportCodes(dir, spec) <=>
          /\ c = "scientific_memory_import_failed" /\ IsDocument(File(dir, "report"))
          /\ At(dir["report"], "verification_status") # "passed"
    <2>1. spec.imports = {ImportPassed}
      BY DEF IsLater
    <2>2. c \in ImportCodes(dir, spec) <=> FieldOff(dir, ImportPassed, c)
      BY <2>1, ImportsFound DEF FieldOff
    <2> QED BY <2>2, FieldOffMeans DEF ImportPassed
  <1>5. c \notin ProvenanceCodes(dir, spec) /\ c \notin ProofCodes(dir, spec)
    <2>1. spec.provenance = {} /\ spec.proofs = {}
      BY DEF IsLater
    <2> QED BY <2>1 DEF ProvenanceCodes, ProofCodes
  <1> QED BY <1>1, <1>3, <1>4, <1>5 DEF SourcePinOff

LEMMA LaterBindingAgrees ==
    ASSUME NEW dir, NEW spec, NEW producer, NEW produced, NEW certificate, NEW id, NEW c,
           IsLater(spec, producer, produced, certificate, id),
           IsDocument(File(dir, "certified")), IsDocument(File(dir, "verification"))
    PROVE  c \in LegacyBinding(dir, At(File(dir, certificate), id)) <=>
             \/ c \in CertificateIdCodes(dir, spec) \/ c \in IdentityCodes(dir, spec)
             \/ c = "schema_validation_failed" /\ At(dir["verification"], "status") # "ProofChecked"
  <1> DEFINE stated == At(File(dir, certificate), id)
             input  == At(File(dir, "verification"), "verified_input/bundle_hash")
  <1>1. c \in LegacyBinding(dir, stated) <=>
          \/ /\ c = "certificate_id_mismatch" /\ stated # Absent
             /\ \/ At(File(dir, "certified"), "certificates/0/certificate_id") # stated
                \/ stated \notin Items(File(dir, "certified"), "claim_artifact/certificate_refs")
          \/ c = "schema_validation_failed" /\ At(File(dir, "verification"), "status") # "ProofChecked"
          \/ /\ c = "verified_input_hash_mismatch"
             /\ At(File(dir, "verification"), "verified_input") = Object
             /\ input # Absent /\ BundleIdentity(dir) \notin {Absent, input}
    BY DEF LegacyBinding, Issue
  <1>2. c \in CertificateIdCodes(dir, spec) <=>
          /\ c = "certificate_id_mismatch" /\ stated # Absent
          /\ \/ At(File(dir, "certified"), "certificates/0/certificate_id") # stated
             \/ stated \notin Items(File(dir, "certified"), "claim_artifact/certificate_refs")
    <2> DEFINE Found(r) == /\ At(File(dir, r.source), r.id) # Absent
                           /\ ~CarriesId(File(dir, r.carrier), r.at, At(File(dir, r.source), r.id))
               embedded == Carries(certificate, id, "certified", "certificates/0/certificate_id")
               claimed  == Carries(certificate, id, "certified", "claim_artifact/certificate_refs")
    <2>1. spec.carried = {embedded, claimed}
      BY DEF IsLater, CarriedId
    <2>2. c \in CertificateIdCodes(dir, spec) <=>
            c = "certificate_id_mismatch" /\ \E r \in spec.carried : Found(r)
      BY IdsFound
    <2>3. /\ embedded.source = certificate /\ embedded.id = id /\ embedded.carrier = "certified"
          /\ embedded.at = "certificates/0/certificate_id"
          /\ claimed.source = certificate /\ claimed.id = id /\ claimed.carrier = "certified"
          /\ claimed.at = "claim_artifact/certificate_refs"
      BY DEF Carries
    <2> HIDE DEF embedded, claimed
    <2>4. Found(embedded) <=>
            /\ stated # Absent
            /\ At(File(dir, "certified"), "certificates/0/certificate_id") # stated
      BY <2>3 DEF CarriesId
    <2>5. Found(claimed) <=>
            /\ stated # Absent
            /\ stated \notin Items(File(dir, "certified"), "claim_artifact/certificate_refs")
      BY <2>3 DEF CarriesId
    <2> HIDE DEF Found
    <2> QED BY <2>1, <2>2, <2>4, <2>5
  <1>3. c \in IdentityCodes(dir, spec) <=>
          /\ c = "verified_input_hash_mismatch"
          /\ At(File(dir, "verification"), "verified_input") = Object
          /\ input # Absent /\ BundleIdentity(dir) \notin {Absent, input}
    <2>1. spec.identities = {BundleHash}
      BY DEF IsLater
    <2>2. /\ BundleHash.file = "verification" /\ BundleHash.parent = "verified_input"
          /\ BundleHash.at = "verified_input/bundle_hash" /\ ~BundleHash.required
          /\ BundleHash.code = "verified_input_hash_mismatch"
      BY DEF BundleHash, Identity
    <2>3. c \in IdentityCodes(dir, spec) <=> c = BundleHash.code /\ Misstated(dir, BundleHash)
      BY <2>1, IdentitiesFound
    <2>4. Misstated(dir, BundleHash) <=>
            /\ At(File(dir, "verification"), "verified_input") = Object
            /\ input # Absent /\ BundleIdentity(dir) \notin {Absent, input}
      BY <2>2 DEF Misstated
    <2> QED BY <2>2, <2>3, <2>4
  <1>4. File(dir, "verification") = dir["verification"]
    BY Loaded
  <1> QED BY <1>1, <1>2, <1>3, <1>4

LEMMA ToolUseOwn ==
    ASSUME NEW dir, NEW c
    PROVE  /\ c \in StatusCodes(dir, ToolUseSpec) <=>
                \/ /\ c = "schema_validation_failed" /\ IsDocument(File(dir, "verification"))
                   /\ At(dir["verification"], "status") # "ProofChecked"
                \/ /\ c = "rejected_certificate" /\ IsDocument(File(dir, "certificate"))
                   /\ At(dir["certificate"], "status") # "CertificateChecked"
           /\ c \in BanCodes(dir, ToolUseSpec) <=>
                /\ c = "unauthorized_tool_call"
                /\ "rejected" \in Items(File(dir, "tool_trace"), "tool_calls")
  <1> DEFINE checked == Field("certificate", "status", "CertificateChecked", "rejected_certificate")
             ban == <<"tool_trace", "tool_calls", "rejected", "unauthorized_tool_call">>
  <1>1. ToolUseSpec.statuses = {VerifierReady, checked} /\ ToolUseSpec.banned = {ban}
    BY DEF ToolUseSpec
  <1>2. /\ ban[1] = "tool_trace" /\ ban[2] = "tool_calls" /\ ban[3] = "rejected"
        /\ ban[4] = "unauthorized_tool_call"
    OBVIOUS
  <1> HIDE DEF checked, ban
  <1>3. c \in StatusCodes(dir, ToolUseSpec) <=>
          FieldOff(dir, VerifierReady, c) \/ FieldOff(dir, checked, c)
    BY <1>1, StatusesFound DEF FieldOff
  <1>4. c \in BanCodes(dir, ToolUseSpec) <=>
          c = ban[4] /\ ban[3] \in Items(File(dir, ban[1]), ban[2])
    BY <1>1 DEF BanCodes
  <1> QED BY <1>2, <1>3, <1>4, FieldOffMeans DEF VerifierReady, checked

LEMMA ComputationOwn ==
    ASSUME NEW dir, NEW c
    PROVE  /\ c \in StatusCodes(dir, ComputationSpec) <=>
                /\ c = "schema_validation_failed" /\ IsDocument(File(dir, "verification"))
                /\ At(dir["verification"], "status") # "ProofChecked"
           /\ c \notin BanCodes(dir, ComputationSpec)
  <1>1. ComputationSpec.statuses = {VerifierReady} /\ ComputationSpec.banned = {}
    BY DEF ComputationSpec
  <1>2. c \in StatusCodes(dir, ComputationSpec) <=> FieldOff(dir, VerifierReady, c)
    BY <1>1, StatusesFound DEF FieldOff
  <1> QED BY <1>1, <1>2, FieldOffMeans DEF VerifierReady, BanCodes

LEMMA SignatureIsMissing ==
    ASSUME NEW dir, NEW c, c \in SignatureCodes(dir)
    PROVE  c = "signature_missing"
  BY DEF SignatureCodes, Issue

LEMMA ToolUseAgrees ==
    ASSUME NEW dir, NEW c, ~Raises(dir, ToolUseSpec)
    PROVE  /\ c \in LegacyToolUse(dir) => c \in FieldCodes(dir, ToolUseSpec)
           /\ c \in FieldCodes(dir, ToolUseSpec) =>
                c \in LegacyToolUse(dir) \/ c \in EngineAlone(dir, ToolUse)
  <1> DEFINE commits == LegacyCommits(dir, "agent_runtime", Recorded, "certificate")
             binding == LegacyBinding(dir, At(File(dir, "certificate"), "certificate_id"))
  <1>1. IsDocument(File(dir, "certified")) /\ IsDocument(File(dir, "verification"))
    BY EngineRead DEF Specs
  <1>2. c \in LegacyToolUse(dir) <=>
          \/ c \in commits \/ c \in binding
          \/ /\ c = "rejected_certificate" /\ IsDocument(File(dir, "certificate"))
             /\ At(dir["certificate"], "status") # "CertificateChecked"
          \/ c = "unauthorized_tool_call" /\ "rejected" \in Items(File(dir, "tool_trace"), "tool_calls")
    BY DEF LegacyToolUse, Issue, Recorded
  <1>3. /\ c \in commits => c \in PinCodes(dir, ToolUseSpec) \/ c \in ImportCodes(dir, ToolUseSpec)
        /\ c \in PinCodes(dir, ToolUseSpec) => c \in commits
        /\ c \in ImportCodes(dir, ToolUseSpec) =>
             c \in commits \/ (Pinned(dir, "sm") = Absent /\ c = "scientific_memory_import_failed")
        /\ c \notin ProvenanceCodes(dir, ToolUseSpec) /\ c \notin ProofCodes(dir, ToolUseSpec)
    <2>1. IsLater(ToolUseSpec, "agent_runtime", Recorded, "certificate", "certificate_id")
      BY LaterSpecs
    <2> QED BY <2>1, LaterCommitsAgree
  <1>4. c \in binding <=>
          \/ c \in CertificateIdCodes(dir, ToolUseSpec) \/ c \in IdentityCodes(dir, ToolUseSpec)
          \/ c = "schema_validation_failed" /\ At(dir["verification"], "status") # "ProofChecked"
    BY <1>1, LaterSpecs, LaterBindingAgrees
  <1>5. ToolUse # LabTrust
    BY DEF ToolUse, LabTrust
  <1> HIDE DEF commits, binding
  <1> QED
    BY <1>1, <1>2, <1>3, <1>4, <1>5, ToolUseOwn, SignatureIsMissing, LaterEngineAlone, FieldCodesAre

LEMMA ComputationAgrees ==
    ASSUME NEW dir, NEW c, ~Raises(dir, ComputationSpec)
    PROVE  /\ c \in LegacyComputation(dir) => c \in FieldCodes(dir, ComputationSpec)
           /\ c \in FieldCodes(dir, ComputationSpec) =>
                c \in LegacyComputation(dir) \/ c \in EngineAlone(dir, Computation)
  <1> DEFINE commits == LegacyCommits(dir, "scientific_computation", Computed, "witness")
             binding == LegacyBinding(dir, At(File(dir, "witness"), "witness_id"))
  <1>1. IsDocument(File(dir, "certified")) /\ IsDocument(File(dir, "verification"))
    BY EngineRead DEF Specs
  <1>2. c \in LegacyComputation(dir) <=> c \in commits \/ c \in binding
    BY DEF LegacyComputation, Computed
  <1>3. /\ c \in commits =>
             c \in PinCodes(dir, ComputationSpec) \/ c \in ImportCodes(dir, ComputationSpec)
        /\ c \in PinCodes(dir, ComputationSpec) => c \in commits
        /\ c \in ImportCodes(dir, ComputationSpec) =>
             c \in commits \/ (Pinned(dir, "sm") = Absent /\ c = "scientific_memory_import_failed")
        /\ c \notin ProvenanceCodes(dir, ComputationSpec) /\ c \notin ProofCodes(dir, ComputationSpec)
    <2>1. IsLater(ComputationSpec, "scientific_computation", Computed, "witness", "witness_id")
      BY LaterSpecs
    <2> QED BY <2>1, LaterCommitsAgree
  <1>4. c \in binding <=>
          \/ c \in CertificateIdCodes(dir, ComputationSpec) \/ c \in IdentityCodes(dir, ComputationSpec)
          \/ c = "schema_validation_failed" /\ At(dir["verification"], "status") # "ProofChecked"
    BY <1>1, LaterSpecs, LaterBindingAgrees
  <1>5. Computation # LabTrust
    BY DEF Computation, LabTrust
  <1> HIDE DEF commits, binding
  <1> QED
    BY <1>1, <1>2, <1>3, <1>4, <1>5, ComputationOwn, SignatureIsMissing, LaterEngineAlone, FieldCodesAre

LEMMA IdsDiffer == LabTrust # ToolUse /\ LabTrust # Computation /\ ToolUse # Computation
  BY DEF LabTrust, ToolUse, Computation

LEMMA SpecIds ==
    /\ LabTrustSpec.id = LabTrust /\ ToolUseSpec.id = ToolUse /\ ComputationSpec.id = Computation
    /\ SpecOf(LabTrust) = LabTrustSpec /\ SpecOf(ToolUse) = ToolUseSpec
    /\ SpecOf(Computation) = ComputationSpec
  <1>1. LabTrustSpec.id = LabTrust
    BY DEF LabTrustSpec
  <1>2. ToolUseSpec.id = ToolUse
    BY DEF ToolUseSpec
  <1>3. ComputationSpec.id = Computation
    BY DEF ComputationSpec
  <1> QED BY <1>1, <1>2, <1>3, IdsDiffer DEF SpecOf, Specs

(* What a legacy chain writes out, and the handoffs it reads.              *)
LegacyBody(dir, id) ==
    CASE id = LabTrust    -> LegacyLabTrust(dir)
      [] id = ToolUse     -> LegacyToolUse(dir)
      [] id = Computation -> LegacyComputation(dir)

LegacyHandoffCodes(dir, spec) ==
    HandoffCodes(dir, [spec EXCEPT !.handoffs = LegacyHandoffs(spec)])

LEMMA BodiesAgree ==
    ASSUME NEW dir, NEW spec \in Specs, NEW c, ~Raises(dir, spec)
    PROVE  /\ c \in LegacyBody(dir, spec.id) => c \in FieldCodes(dir, spec)
           /\ c \in FieldCodes(dir, spec) =>
                c \in LegacyBody(dir, spec.id) \/ c \in EngineAlone(dir, spec.id)
  <1>1. CASE spec = LabTrustSpec
    BY <1>1, SpecIds, IdsDiffer, LabTrustAgrees DEF LegacyBody
  <1>2. CASE spec = ToolUseSpec
    BY <1>2, SpecIds, IdsDiffer, ToolUseAgrees DEF LegacyBody
  <1>3. CASE spec = ComputationSpec
    BY <1>3, SpecIds, IdsDiffer, ComputationAgrees DEF LegacyBody
  <1> QED BY <1>1, <1>2, <1>3 DEF Specs

LEMMA HandoffsAgree ==
    ASSUME NEW dir, NEW spec \in Specs, NEW c
    PROVE  /\ c \in LegacyHandoffCodes(dir, spec) => c \in HandoffCodes(dir, spec)
           /\ c \in HandoffCodes(dir, spec) =>
                c \in LegacyHandoffCodes(dir, spec) \/ c \in EngineAlone(dir, spec.id)
  <1> DEFINE Unknown(files) == \E f \in files \cap DOMAIN dir : At(dir[f], "handoff_kind") = "unknown"
             read == [spec EXCEPT !.handoffs = LegacyHandoffs(spec)]
  <1>1. read.handoffs = LegacyHandoffs(spec)
    BY DEF Specs, LabTrustSpec, ToolUseSpec, ComputationSpec
  <1>2. /\ c \in HandoffCodes(dir, spec) <=> c = "schema_validation_failed" /\ Unknown(spec.handoffs)
        /\ c \in HandoffCodes(dir, read) <=> c = "schema_validation_failed" /\ Unknown(read.handoffs)
    BY DEF HandoffCodes, Issue
  <1> HIDE DEF read
  <1>3. CASE spec = LabTrustSpec
    <2>1. LegacyHandoffs(spec) = {}
      BY <1>3, SpecIds DEF LegacyHandoffs
    <2>2. Unknown(spec.handoffs) =>
            \E f \in LabTrustSpec.handoffs : At(File(dir, f), "handoff_kind") = "unknown"
      BY <1>3 DEF File
    <2> HIDE DEF Unknown
    <2>3. ~Unknown({})
      BY DEF Unknown
    <2> QED
      BY <1>1, <1>2, <1>3, <2>1, <2>2, <2>3, SpecIds, LabTrustEngineAlone
      DEF LegacyHandoffCodes, read
  <1>4. CASE spec # LabTrustSpec
    <2>1. LegacyHandoffs(spec) = spec.handoffs
      BY <1>4, SpecIds, IdsDiffer DEF LegacyHandoffs, Specs
    <2> QED BY <1>1, <1>2, <2>1 DEF LegacyHandoffCodes, read
  <1> QED BY <1>3, <1>4

(* The stages that the chains and the engine have in common.               *)
CommonCodes(dir, spec) ==
    UNION {ManifestCodes(dir, spec), PresenceCodes(dir, spec), DigestCodes(dir, spec),
           ScanCodes(dir, spec), AlignmentCodes(spec.id, dir), ValidateFileCodes(dir, spec),
           DomainCodes(spec.id, dir)}

(* Of any directory and each profile: the two validators differ only where *)
(* EngineAlone says so.                                                    *)
LEMMA ChainsAgree ==
    ASSUME NEW dir, NEW spec \in Specs,
           ProfileCodes(dir, spec) # Raised, LegacyCodes(dir, spec) # Raised
    PROVE  /\ LegacyCodes(dir, spec) \subseteq ProfileCodes(dir, spec)
           /\ ProfileCodes(dir, spec) \ LegacyCodes(dir, spec) \subseteq EngineAlone(dir, spec.id)
  <1> DEFINE read == Manifest(dir) \notin {NoFile, Garbled} /\ Listed(dir) # Absent
  <1>1. CASE ~read
    <2>1. ProfileCodes(dir, spec) = LegacyCodes(dir, spec)
      BY <1>1 DEF ProfileCodes, LegacyCodes
    <2> QED BY <2>1
  <1>2. CASE read
    <2>1. /\ ~Raises(dir, spec)
          /\ ProfileCodes(dir, spec) =
               UNION {ManifestCodes(dir, spec), PresenceCodes(dir, spec),
                     DigestCodes(dir, spec), ScanCodes(dir, spec),
                     AlignmentCodes(spec.id, dir), ValidateFileCodes(dir, spec),
                     HandoffCodes(dir, spec), FieldCodes(dir, spec),
                     DomainCodes(spec.id, dir)}
      BY <1>2 DEF ProfileCodes
    <2>2. ProfileCodes(dir, spec) =
            CommonCodes(dir, spec) \cup HandoffCodes(dir, spec) \cup FieldCodes(dir, spec)
      BY <2>1 DEF CommonCodes
    <2>3. LegacyCodes(dir, spec) =
            UNION {ManifestCodes(dir, spec), PresenceCodes(dir, spec),
                     DigestCodes(dir, spec), ScanCodes(dir, spec),
                     AlignmentCodes(spec.id, dir), ValidateFileCodes(dir, spec),
                     DomainCodes(spec.id, dir), LegacyHandoffCodes(dir, spec),
                     LegacyBody(dir, spec.id)}
      BY <1>2 DEF LegacyCodes, LegacyHandoffCodes, LegacyBody
    <2>4. LegacyCodes(dir, spec) =
            CommonCodes(dir, spec) \cup LegacyHandoffCodes(dir, spec) \cup LegacyBody(dir, spec.id)
      BY <2>3 DEF CommonCodes
    <2>5. ASSUME NEW c \in LegacyCodes(dir, spec) PROVE c \in ProfileCodes(dir, spec)
      BY <2>1, <2>2, <2>4, BodiesAgree, HandoffsAgree
    <2>6. ASSUME NEW c \in ProfileCodes(dir, spec), c \notin LegacyCodes(dir, spec)
          PROVE  c \in EngineAlone(dir, spec.id)
      BY <2>1, <2>2, <2>4, <2>6, BodiesAgree, HandoffsAgree
    <2> QED BY <2>5, <2>6
  <1> QED BY <1>1, <1>2

-----------------------------------------------------------------------------
(* The types of the variables.                                             *)

LEMMA WithShape ==
    ASSUME NEW doc, NEW p, NEW v
    PROVE  /\ DOMAIN With(doc, p, v) = DOMAIN doc \cup {p}
           /\ With(doc, p, v)[p] = v
           /\ \A q \in DOMAIN doc : q # p => With(doc, p, v)[q] = doc[q]
  BY DEF With

LEMMA MergeShape ==
    ASSUME NEW f, NEW g
    PROVE  /\ DOMAIN Merge(f, g) = DOMAIN f \cup DOMAIN g
           /\ \A q \in DOMAIN f \ DOMAIN g : Merge(f, g)[q] = f[q]
           /\ \A q \in DOMAIN g : Merge(f, g)[q] = g[q]
  BY DEF Merge

LEMMA WithoutShape ==
    ASSUME NEW doc, NEW ps
    PROVE  /\ DOMAIN Without(doc, ps) = DOMAIN doc \ ps
           /\ \A q \in DOMAIN doc \ ps : Without(doc, ps)[q] = doc[q]
  BY DEF Without

LEMMA ChainShape ==
    /\ Len(ChainArtifacts) = 7 /\ DOMAIN ChainArtifacts = 1..7
    /\ \A i \in 1..7 : ChainArtifacts[i] \in ToSet(ChainArtifacts)
    /\ ToSet(ChainArtifacts) = {"trace", "receipt", "certificate", "pending", "certified",
                                "verification", "signed"}
  <1>1. /\ Len(ChainArtifacts) = 7 /\ DOMAIN ChainArtifacts = 1..7
        /\ ChainArtifacts[1] = "trace" /\ ChainArtifacts[2] = "receipt"
        /\ ChainArtifacts[3] = "certificate" /\ ChainArtifacts[4] = "pending"
        /\ ChainArtifacts[5] = "certified" /\ ChainArtifacts[6] = "verification"
        /\ ChainArtifacts[7] = "signed"
    BY DEF ChainArtifacts
  <1>2. ToSet(ChainArtifacts) = {ChainArtifacts[i] : i \in 1..7}
    BY <1>1 DEF ToSet
  <1> HIDE DEF ChainArtifacts
  <1>3. \A i \in 1..7 : i = 1 \/ i = 2 \/ i = 3 \/ i = 4 \/ i = 5 \/ i = 6 \/ i = 7
    OBVIOUS
  <1>4. /\ 1 \in 1..7 /\ 2 \in 1..7 /\ 3 \in 1..7 /\ 4 \in 1..7 /\ 5 \in 1..7 /\ 6 \in 1..7
        /\ 7 \in 1..7
    OBVIOUS
  <1> QED BY <1>1, <1>2, <1>3, <1>4

LEMMA SpecIdsAre == {s.id : s \in Specs} = {LabTrust, ToolUse, Computation}
  BY SpecIds DEF Specs

LEMMA InitTyped == Init => TypeOK
  <1> SUFFICES ASSUME Init PROVE TypeOK
    OBVIOUS
  <1>1. profile \in {LabTrust, ToolUse, Computation} /\ phase \in {"chain", "audit"}
    BY DEF Init
  <1>2. heads \in Heads
    BY DEF Init, OldHeads, Heads, HeadCommits
  <1>3. stage \in 0..6 /\ step = Idle /\ step \in 0..Len(ChainArtifacts) \cup {Idle} /\ touched = {}
    BY DEF Init
  <1>4. DOMAIN work \subseteq ToSet(ChainArtifacts)
    BY DEF Init, NoDirectory
  <1>5. phase = "chain" => target = NoDirectory
    BY DEF Init
  <1> QED BY <1>1, <1>2, <1>3, <1>4, <1>5, SpecIdsAre, IdleAssumption DEF TypeOK

LEMMA ProducersTyped ==
    ASSUME TypeOK, RunLab \/ Certify \/ Assemble \/ Verify \/ Sign \/ Import
    PROVE  TypeOK'
  <1>1. ASSUME NEW n \in 0..4, NEW files, DOMAIN files \subseteq ToSet(ChainArtifacts),
               Stage(n, files)
        PROVE  TypeOK'
    <2>1. DOMAIN work' \subseteq ToSet(ChainArtifacts)
      <3>1. work' = Merge(work, files) /\ DOMAIN work \subseteq ToSet(ChainArtifacts)
        BY <1>1 DEF Stage, TypeOK
      <3>2. DOMAIN work' = DOMAIN work \cup DOMAIN files
        BY <3>1, MergeShape
      <3> QED BY <1>1, <3>1, <3>2
    <2>2. stage' \in 0..6
      BY <1>1 DEF Stage
    <2> QED BY <1>1, <2>1, <2>2 DEF Stage, TypeOK, targetVars
  <1>2. CASE RunLab
    BY <1>1, <1>2, ChainShape DEF RunLab
  <1>3. CASE Certify
    BY <1>1, <1>3, ChainShape DEF Certify
  <1>4. CASE Assemble
    BY <1>1, <1>4, ChainShape DEF Assemble
  <1>5. CASE Verify
    BY <1>1, <1>5, ChainShape DEF Verify
  <1>6. CASE Sign
    BY <1>1, <1>6, ChainShape DEF Sign
  <1>7. CASE Import
    BY <1>7 DEF Import, TypeOK, targetVars
  <1> QED BY <1>2, <1>3, <1>4, <1>5, <1>6, <1>7

LEMMA HeadsTyped ==
    ASSUME TypeOK, NEW repo \in DOMAIN OldHeads, NEW commit \in {"new", "zero"},
           MoveHead(repo, commit)
    PROVE  TypeOK'
  BY DEF MoveHead, TypeOK, targetVars, Heads, HeadCommits

LEMMA BuildTyped ==
    ASSUME TypeOK, StartBuild \/ CopyNext \/ FinishBuild \/ AbandonBuild
    PROVE  TypeOK'
  <1>1. CASE StartBuild
    <2>1. step' = 0 /\ DOMAIN run' = {}
      BY <1>1 DEF StartBuild, NoDirectory
    <2>2. {ChainArtifacts[i] : i \in 1..step'} = {}
      BY <2>1
    <2> QED BY <1>1, <2>1, <2>2, ChainShape DEF StartBuild, TypeOK, chainVars, targetVars
  <1>2. CASE CopyNext
    <2>1. step \in 0..6 /\ step' = step + 1 /\ step' \in 0..7
      BY <1>2, ChainShape DEF CopyNext, TypeOK
    <2>2. DOMAIN run' = DOMAIN run \cup {ChainArtifacts[step + 1]}
      <3> DEFINE f == ChainArtifacts[step + 1]
      <3>1. run' = With(run, f, work[f])
        BY <1>2 DEF CopyNext
      <3> HIDE DEF f
      <3>2. DOMAIN run' = DOMAIN run \cup {f}
        BY <3>1, WithShape
      <3> QED BY <3>2 DEF f
    <2>3. DOMAIN run = {ChainArtifacts[i] : i \in 1..step}
      BY <2>1 DEF TypeOK
    <2>4. \A i : i \in 1..(step + 1) <=> i \in 1..step \/ i = step + 1
      BY <2>1
    <2>5. DOMAIN run' = {ChainArtifacts[i] : i \in 1..step'}
      BY <2>1, <2>2, <2>3, <2>4
    <2> QED BY <1>2, <2>1, <2>5, ChainShape DEF CopyNext, TypeOK, chainVars, targetVars
  <1>3. CASE FinishBuild
    BY <1>3, IdleAssumption DEF FinishBuild, TypeOK, chainVars, targetVars
  <1>4. CASE AbandonBuild
    BY <1>4, IdleAssumption DEF AbandonBuild, TypeOK, chainVars, targetVars
  <1> QED BY <1>1, <1>2, <1>3, <1>4

LEMMA AuditTyped ==
    ASSUME TypeOK, Promote \/ Maintain \/ Edit \/ Materialize \/ CheckObligations \/ WriteResult
    PROVE  TypeOK'
  <1>1. CASE Promote
    <2>1. phase' = "audit" /\ stage' = 0 /\ step' = step /\ step = Idle
      BY <1>1 DEF Promote
    <2>2. heads' \in Heads
      BY <1>1 DEF Promote, OldHeads, Heads, HeadCommits
    <2>3. DOMAIN work' \subseteq ToSet(ChainArtifacts)
      BY <1>1 DEF Promote, NoDirectory
    <2>4. profile' = profile /\ touched' = touched
      BY <1>1 DEF Promote
    <2> QED BY <2>1, <2>2, <2>3, <2>4, IdleAssumption DEF TypeOK
  <1>2. ASSUME phase = "audit", UNCHANGED <<chainVars, run, step, phase, profile>>,
               touched' \in {{"edited"}, {"pinned"}, touched}
        PROVE  TypeOK'
    BY <1>2 DEF TypeOK, chainVars
  <1>3. CASE Maintain
    <2>1. /\ phase = "audit" /\ UNCHANGED <<chainVars, run, step, phase, profile>>
          /\ touched' = {"pinned"}
      BY <1>3 DEF Maintain
    <2> QED BY <1>2, <2>1
  <1>4. CASE Edit
    <2>1. /\ phase = "audit" /\ UNCHANGED <<chainVars, run, step, phase, profile>>
          /\ touched' = {"edited"}
      BY <1>4 DEF Edit
    <2> QED BY <1>2, <2>1
  <1>5. CASE Materialize \/ CheckObligations \/ WriteResult
    <2>1. PICK dir : Audit(dir)
      BY <1>5 DEF Materialize, CheckObligations, WriteResult
    <2> QED BY <1>2, <2>1 DEF Audit
  <1> QED BY <1>1, <1>3, <1>4, <1>5

(* Each variable of a release directory's life has the type it should, and *)
(* the build has copied what its counter says, whatever the producers do.  *)
THEOREM TypeCorrect == Spec => []TypeOK
  <1>1. Init => TypeOK
    BY InitTyped
  <1>2. TypeOK /\ [Next]_vars => TypeOK'
    <2>1. CASE UNCHANGED vars
      BY <2>1 DEF TypeOK, vars
    <2>2. ASSUME TypeOK, Next PROVE TypeOK'
      BY <2>2, ProducersTyped, HeadsTyped, BuildTyped, AuditTyped DEF Next
    <2> QED BY <2>1, <2>2
  <1> QED BY <1>1, <1>2, PTL DEF Spec

(* Where neither raises, the declarative engine finds all that the chains  *)
(* written by hand find, and beyond that only what EngineAlone lists: for  *)
(* any directory that edits, promotions and maintenance can leave.         *)
THEOREM ValidatorsAgree == Spec => []LegacyAgrees
  <1>1. TypeOK => LegacyAgrees
    <2> SUFFICES ASSUME TypeOK PROVE LegacyAgrees
      OBVIOUS
    <2>1. /\ SpecOf(profile) \in Specs /\ SpecOf(profile).id = profile
      BY SpecIds, SpecIdsAre DEF TypeOK, Specs
    <2> QED BY <2>1, ChainsAgree DEF LegacyAgrees
  <1> QED BY <1>1, TypeCorrect, PTL

-----------------------------------------------------------------------------
(* Obligations that replay are current.                                    *)

LEMMA EntriesEqual ==
    ASSUME NEW v, NEW a, NEW w, NEW b,
           [value |-> v, digest |-> a] = [value |-> w, digest |-> b]
    PROVE  a = b
  <1>1. [value |-> v, digest |-> a].digest = [value |-> w, digest |-> b].digest
    BY Zenon
  <1> QED BY <1>1

(* The digests of a projection that agrees fix the documents it was read   *)
(* from.                                                                   *)
LEMMA EntryFixes ==
    ASSUME NEW d, NEW dir, NEW s, s # Resolved, s # PayloadBytes, Entry(d, s) = Entry(dir, s)
    PROVE  d[s[1]] = dir[s[1]]
  <1>1. /\ Entry(d, s) = [value |-> At(d[s[1]], s[2]), digest |-> Digest(d[s[1]])]
        /\ Entry(dir, s) = [value |-> At(dir[s[1]], s[2]), digest |-> Digest(dir[s[1]])]
    BY DEF Entry
  <1>2. Digest(d[s[1]]) = Digest(dir[s[1]])
    <2>1. [value |-> At(d[s[1]], s[2]), digest |-> Digest(d[s[1]])]
            = [value |-> At(dir[s[1]], s[2]), digest |-> Digest(dir[s[1]])]
      BY <1>1, Zenon
    <2> QED BY <2>1, EntriesEqual
  <1>3. Digest(d[s[1]])[1] = d[s[1]] /\ Digest(dir[s[1]])[1] = dir[s[1]]
    BY DEF Digest
  <1> QED BY <1>2, <1>3

LEMMA ResolvedFixes ==
    ASSUME NEW d, NEW dir, Entry(d, Resolved) = Entry(dir, Resolved)
    PROVE  BundleIdentity(d) = BundleIdentity(dir)
  <1>1. /\ Entry(d, Resolved) = [value |-> BundleIdentity(d), digest |-> BundleIdentity(d)]
        /\ Entry(dir, Resolved) = [value |-> BundleIdentity(dir), digest |-> BundleIdentity(dir)]
    BY DEF Entry, Resolved, PayloadBytes
  <1>2. [value |-> BundleIdentity(d), digest |-> BundleIdentity(d)]
          = [value |-> BundleIdentity(dir), digest |-> BundleIdentity(dir)]
    BY <1>1, Zenon
  <1> QED BY <1>2, EntriesEqual

(* The fields that each profile's projection has.                          *)
LEMMA ProjectedAre ==
    ASSUME NEW id \in {LabTrust, ToolUse, Computation}
    PROVE  /\ Resolved \in ProjectedFields(id)
           /\ <<"verification", "verified_input/bundle_hash">> \in ProjectedFields(id)
           /\ <<"signed", "signed_input_bundle_hash">> \in ProjectedFields(id)
           /\ id # Computation =>
                /\ <<"certificate", "certificate_id">> \in ProjectedFields(id)
                /\ <<"receipt", "trace_hash">> \in ProjectedFields(id)
           /\ id = ToolUse => <<"tool_trace", "trace_hash">> \in ProjectedFields(id)
           /\ id = Computation =>
                /\ <<"witness", "witness_id">> \in ProjectedFields(id)
                /\ <<"result", "sha256">> \in ProjectedFields(id)
  <1> DEFINE known(s) == s \in EnvelopeFields(id) /\ s[2] # "status"
  <1>1. \A s : known(s) => s \in ProjectedFields(id)
    BY DEF ProjectedFields
  <1>2. /\ known(<<"verification", "verified_input/bundle_hash">>)
        /\ known(<<"signed", "signed_input_bundle_hash">>)
    BY DEF EnvelopeFields
  <1>3. ASSUME id # Computation
        PROVE  known(<<"certificate", "certificate_id">>) /\ known(<<"receipt", "trace_hash">>)
    <2>1. LabTrustFields \subseteq EnvelopeFields(id)
      BY <1>3, IdsDiffer DEF EnvelopeFields, ToolUseFields
    <2> QED BY <2>1 DEF LabTrustFields
  <1>4. ASSUME id = ToolUse PROVE known(<<"tool_trace", "trace_hash">>)
    BY <1>4, IdsDiffer DEF EnvelopeFields, ToolUseFields
  <1>5. ASSUME id = Computation
        PROVE  /\ known(<<"witness", "witness_id">>)
               /\ <<"result", "sha256">> \in ProjectedFields(id)
    BY <1>5, IdsDiffer DEF EnvelopeFields, ComputationFields, ProjectedFields
  <1>6. Resolved \in ProjectedFields(id)
    BY DEF ProjectedFields
  <1> HIDE DEF known
  <1> QED BY <1>1, <1>2, <1>3, <1>4, <1>5, <1>6

(* The bytes that a verified payload has are those its result declares.    *)
LEMMA PayloadIsDeclared ==
    ASSUME NEW dir, PayloadCodes(dir) = {}
    PROVE  Digest(dir[At(dir["result"], "path")]) = At(dir["result"], "sha256")
  <1> DEFINE result == File(dir, "result")
             bytes  == File(dir, At(result, "path"))
  <1>1. IsDocument(result) /\ bytes # NoFile
    BY DEF PayloadCodes
  <1>2. Digest(bytes) = At(result, "sha256")
    BY <1>1 DEF PayloadCodes, Issue
  <1>3. result = dir["result"]
    BY <1>1, Loaded
  <1>4. bytes = dir[At(result, "path")]
    BY <1>1 DEF File
  <1> QED BY <1>2, <1>3, <1>4

(* Extractions of one profile whose projections agree are equal: whatever  *)
(* an obligation compares, a status too, is of a file whose digest the     *)
(* projection states.                                                      *)
LEMMA ProjectionFixes ==
    ASSUME NEW d, NEW dir, EnvelopeId(d) = EnvelopeId(dir),
           Extract(d) # Refused, Extract(dir) # Refused,
           \A s \in ProjectedFields(EnvelopeId(d)) : Entry(d, s) = Entry(dir, s)
    PROVE  Extract(d) = Extract(dir)
  <1> DEFINE id == EnvelopeId(d)
  <1>1. id \in {LabTrust, ToolUse, Computation}
    BY ExtractShape
  <1>2. Extractable(d, id) /\ Extractable(dir, id)
    BY ExtractShape
  <1>3. ASSUME NEW s, s \in ProjectedFields(id), s # Resolved, s # PayloadBytes
        PROVE  d[s[1]] = dir[s[1]]
    BY <1>3, EntryFixes
  <1>4. BundleIdentity(d) = BundleIdentity(dir)
    BY <1>1, ProjectedAre, ResolvedFixes
  <1>5. d["verification"] = dir["verification"] /\ d["signed"] = dir["signed"]
    <2> DEFINE v == <<"verification", "verified_input/bundle_hash">>
               w == <<"signed", "signed_input_bundle_hash">>
    <2>1. /\ v # Resolved /\ v # PayloadBytes /\ v[1] = "verification"
          /\ w # Resolved /\ w # PayloadBytes /\ w[1] = "signed"
      BY DEF Resolved, PayloadBytes
    <2>2. v \in ProjectedFields(id) /\ w \in ProjectedFields(id)
      BY <1>1, ProjectedAre
    <2> HIDE DEF v, w, id
    <2> QED BY <1>3, <2>1, <2>2
  <1>6. BundleObligations(d) = BundleObligations(dir)
    BY <1>4, <1>5 DEF BundleObligations
  <1>7. ProfileObligations(d, id) = ProfileObligations(dir, id)
    <2>1. CASE id # Computation
      <3> DEFINE c == <<"certificate", "certificate_id">>
                 r == <<"receipt", "trace_hash">>
                 t == <<"tool_trace", "trace_hash">>
      <3>1. /\ c # Resolved /\ c # PayloadBytes /\ c[1] = "certificate"
            /\ r # Resolved /\ r # PayloadBytes /\ r[1] = "receipt"
            /\ t # Resolved /\ t # PayloadBytes /\ t[1] = "tool_trace"
        BY DEF Resolved, PayloadBytes
      <3>2. /\ c \in ProjectedFields(id) /\ r \in ProjectedFields(id)
            /\ id = ToolUse => t \in ProjectedFields(id)
        BY <1>1, <2>1, ProjectedAre
      <3> HIDE DEF c, r, t, id
      <3>3. d["certificate"] = dir["certificate"] /\ d["receipt"] = dir["receipt"]
        BY <1>3, <3>1, <3>2
      <3>4. id = ToolUse => d["tool_trace"] = dir["tool_trace"]
        BY <1>3, <3>1, <3>2
      <3>5. RuntimeObligation(d) = RuntimeObligation(dir)
        BY <3>3 DEF RuntimeObligation
      <3>6. id = ToolUse => ToolObligation(d) = ToolObligation(dir)
        BY <3>3, <3>4 DEF ToolObligation
      <3> QED BY <1>1, <2>1, <3>5, <3>6, IdsDiffer DEF ProfileObligations
    <2>2. CASE id = Computation
      <3> DEFINE w == <<"witness", "witness_id">>
                 r == <<"result", "sha256">>
      <3>1. /\ w # Resolved /\ w # PayloadBytes /\ w[1] = "witness"
            /\ r # Resolved /\ r # PayloadBytes /\ r[1] = "result"
        BY DEF Resolved, PayloadBytes
      <3>2. w \in ProjectedFields(id) /\ r \in ProjectedFields(id)
        BY <1>1, <2>2, ProjectedAre
      <3>3. PayloadCodes(d) = {} /\ PayloadCodes(dir) = {}
        BY <1>2, <2>2 DEF Extractable
      <3> HIDE DEF w, r, id
      <3>4. d["witness"] = dir["witness"] /\ d["result"] = dir["result"]
        BY <1>3, <3>1, <3>2
      <3>5. Digest(d[At(d["result"], "path")]) = Digest(dir[At(dir["result"], "path")])
        BY <3>3, <3>4, PayloadIsDeclared
      <3>6. WitnessObligation(d) = WitnessObligation(dir)
        BY <3>4, <3>5 DEF WitnessObligation
      <3> QED BY <2>2, <3>6, IdsDiffer DEF ProfileObligations
    <2> QED BY <2>1, <2>2
  <1>8. ObligationsOf(d) = ObligationsOf(dir)
    BY <1>6, <1>7 DEF ObligationsOf
  <1>9. [s \in ProjectedFields(id) |-> Entry(d, s)] = [s \in ProjectedFields(id) |-> Entry(dir, s)]
    OBVIOUS
  <1> HIDE DEF id
  <1> QED BY <1>8, <1>9, ExtractShape DEF id

(* Obligations of some extraction that replay against a directory are what *)
(* an extraction gives there.                                              *)
LEMMA ReplayFixes ==
    ASSUME NEW d, NEW dir, Extract(d) # Refused, Extract(dir) # Refused,
           Replays(Extract(d), dir), Extract(dir).workflow = Extract(d).workflow
    PROVE  Extract(d) = Extract(dir)
  <1> DEFINE fields == ProjectedFields(EnvelopeId(d))
             doc == Extract(d)
  <1>1. /\ doc.workflow = EnvelopeId(d) /\ Extract(dir).workflow = EnvelopeId(dir)
        /\ doc.projection = [s \in fields |-> Entry(d, s)]
    BY ExtractShape
  <1>2. DOMAIN doc.projection = fields /\ \A s \in fields : doc.projection[s] = Entry(d, s)
    BY <1>1
  <1>3. \A s \in DOMAIN doc.projection : doc.projection[s] = Entry(dir, s)
    BY DEF Replays
  <1>4. \A s \in fields : Entry(d, s) = Entry(dir, s)
    BY <1>2, <1>3
  <1> QED BY <1>1, <1>4, ProjectionFixes

(* The obligations in a directory, if they can be read, are of some        *)
(* extraction.                                                             *)
Extracted(dir) ==
    "proof_obligation" \in DOMAIN dir =>
      \/ dir["proof_obligation"] = Garbled
      \/ \E d : Extract(d) # Refused /\ dir["proof_obligation"] = Extract(d)

LEMMA ExtractedMeans ==
    ASSUME NEW dir, Extracted(dir), IsDocument(File(dir, "proof_obligation"))
    PROVE  \E d : Extract(d) # Refused /\ File(dir, "proof_obligation") = Extract(d)
  BY Loaded DEF Extracted, IsDocument

LEMMA WithKeeps ==
    ASSUME NEW dir, NEW f, NEW v, Extracted(dir),
           \/ f # "proof_obligation" \/ v = Garbled
           \/ \E d : Extract(d) # Refused /\ v = Extract(d)
    PROVE  Extracted(With(dir, f, v))
  <1> DEFINE w == With(dir, f, v)
  <1>1. /\ DOMAIN w = DOMAIN dir \cup {f} /\ w[f] = v
        /\ \A q \in DOMAIN dir : q # f => w[q] = dir[q]
    BY DEF With
  <1> HIDE DEF w
  <1>2. Extracted(w)
    BY <1>1 DEF Extracted
  <1> QED BY <1>2 DEF w

LEMMA MergeKeeps ==
    ASSUME NEW f, NEW g, Extracted(f), "proof_obligation" \notin DOMAIN g
    PROVE  Extracted(Merge(f, g))
  <1> DEFINE m == Merge(f, g)
  <1>1. DOMAIN m = DOMAIN f \cup DOMAIN g /\ \A q \in DOMAIN f \ DOMAIN g : m[q] = f[q]
    BY MergeShape
  <1> HIDE DEF m
  <1>2. Extracted(m)
    BY <1>1 DEF Extracted
  <1> QED BY <1>2 DEF m

LEMMA WithoutKeeps ==
    ASSUME NEW dir, NEW fs, Extracted(dir)
    PROVE  Extracted(Without(dir, fs))
  <1> DEFINE w == Without(dir, fs)
  <1>1. DOMAIN w = DOMAIN dir \ fs /\ \A q \in DOMAIN dir \ fs : w[q] = dir[q]
    BY WithoutShape
  <1> HIDE DEF w
  <1>2. Extracted(w)
    BY <1>1 DEF Extracted
  <1> QED BY <1>2 DEF w

LEMMA NoneExtracted ==
    ASSUME NEW dir, "proof_obligation" \notin DOMAIN dir
    PROVE  Extracted(dir)
  BY DEF Extracted

LEMMA MaterializeKeeps ==
    ASSUME NEW dir, NEW build, NEW skip, Extracted(dir)
    PROVE  Extracted(MaterializeLean(dir, build, skip))
  <1> DEFINE doc     == Extract(dir)
             result  == LeanResult(doc, build, "none")
             written == With(dir, "proof_obligation", doc)
  <1>1. CASE LeanArtifactsKept(dir, skip) \/ doc = Refused
    BY <1>1 DEF MaterializeLean
  <1>2. CASE ~(LeanArtifactsKept(dir, skip) \/ doc = Refused)
    <2>1. Extracted(written)
      BY <1>2, WithKeeps
    <2> HIDE DEF result, written
    <2>2. Extracted(With(written, "lean_check", result))
      BY <2>1, WithKeeps
    <2>3. MaterializeLean(dir, build, skip) \in {written, With(written, "lean_check", result)}
      BY <1>2 DEF MaterializeLean, written, result
    <2> QED BY <2>1, <2>2, <2>3
  <1> QED BY <1>1, <1>2

(* The directories a promotion leaves.                                     *)
LEMMA ArtifactsShape ==
    ASSUME NEW dir
    PROVE  "proof_obligation" \notin DOMAIN ProtocolArtifacts(dir)
  <1>1. DOMAIN ProtocolArtifacts(dir) = {"manifest_v0", "handoff_verifier", "handoff_pf"}
    BY DEF ProtocolArtifacts
  <1> QED BY <1>1

LEMMA PromotionKeeps ==
    ASSUME NEW dir, "proof_obligation" \notin DOMAIN dir, NEW left \in PromotionStops(dir)
    PROVE  Extracted(left)
  <1> DEFINE reported == With(dir, "result_v0", BuildResult(dir))
             final    == Merge(reported, ProtocolArtifacts(dir))
             unhanded == Without(final, {"handoff_verifier", "handoff_pf"})
  <1>1. Extracted(dir)
    BY NoneExtracted
  <1>2. Extracted(reported)
    BY <1>1, WithKeeps
  <1> HIDE DEF reported
  <1>3. Extracted(final)
    BY <1>2, ArtifactsShape, MergeKeeps
  <1> HIDE DEF final
  <1>4. Extracted(unhanded)
    BY <1>3, WithoutKeeps
  <1> HIDE DEF unhanded
  <1>5. ASSUME NEW copied \in PartialCopies(dir) PROVE Extracted(copied)
    <2>1. CASE copied = NoDirectory
      <3>1. DOMAIN copied = {}
        BY <2>1 DEF NoDirectory
      <3> QED BY <3>1, NoneExtracted
    <2>2. ASSUME NEW f, copied = Without(dir, {f}) PROVE Extracted(copied)
      BY <1>1, <2>2, WithoutKeeps
    <2>3. ASSUME NEW f \in DOMAIN dir, copied = [g \in {f} |-> dir[g]] PROVE Extracted(copied)
      <3>1. DOMAIN copied = {f}
        BY <2>3
      <3> QED BY <2>3, <3>1, NoneExtracted
    <2> QED BY <2>1, <2>2, <2>3 DEF PartialCopies
  <1>6. left \in PartialCopies(dir) \cup {dir, reported, unhanded, final}
    BY DEF PromotionStops, reported, final, unhanded
  <1> QED BY <1>1, <1>2, <1>3, <1>4, <1>5, <1>6

(* The directories that maintenance leaves.                                *)
LEMMA PinnedKeeps ==
    ASSUME NEW dir, Extracted(dir)
    PROVE  Extracted(PinCommits(dir)) /\ Extracted(PinIdentity(dir)) /\ Extracted(WithManifest(dir))
  <1>1. "proof_obligation" \notin LabTrustSpec.artifacts
    BY DEF LabTrustSpec
  <1>2. Extracted(PinCommits(dir))
    BY <1>1 DEF PinCommits, Extracted
  <1>3. Extracted(PinIdentity(dir))
    BY <1>1 DEF PinIdentity, Extracted
  <1>4. Extracted(WithManifest(dir))
    BY WithKeeps DEF WithManifest
  <1> QED BY <1>2, <1>3, <1>4

LEMMA MaintenanceKeeps ==
    ASSUME NEW dir, Extracted(dir), NEW left \in MaintenanceStops(dir)
    PROVE  Extracted(left)
  <1> DEFINE pinned   == With(dir, "manifest", Merge(dir["manifest"], OldPins(LabTrustSpec)))
             commits  == PinCommits(pinned)
             identity == PinIdentity(commits)
             digests  == WithManifest(identity)
             lean     == MaterializeLean(digests, TRUE, FALSE)
             reported == With(lean, "result_v0", BuildResult(lean))
             final    == Merge(reported, ProtocolArtifacts(lean))
  <1>1. left \in {pinned, commits, identity, digests, lean, reported, final}
    BY DEF MaintenanceStops
  <1>2. Extracted(pinned)
    BY WithKeeps
  <1> HIDE DEF pinned
  <1>3. Extracted(commits)
    BY <1>2, PinnedKeeps
  <1> HIDE DEF commits
  <1>4. Extracted(identity)
    BY <1>3, PinnedKeeps
  <1> HIDE DEF identity
  <1>5. Extracted(digests)
    BY <1>4, PinnedKeeps
  <1> HIDE DEF digests
  <1>6. Extracted(lean)
    BY <1>5, MaterializeKeeps
  <1> HIDE DEF lean
  <1>7. Extracted(reported)
    BY <1>6, WithKeeps
  <1> HIDE DEF reported
  <1>8. Extracted(final)
    BY <1>7, ArtifactsShape, MergeKeeps
  <1> QED BY <1>1, <1>2, <1>3, <1>4, <1>5, <1>6, <1>7, <1>8

(* The directories that an edit leaves.                                    *)
LEMMA EditKeeps ==
    ASSUME NEW dir, Extracted(dir), NEW left \in Edited(dir)
    PROVE  Extracted(left) /\ Extracted(Redigested(left))
  <1>1. Extracted(left)
    <2>1. ASSUME NEW f, left = Without(dir, {f}) PROVE Extracted(left)
      BY <2>1, WithoutKeeps
    <2>2. ASSUME NEW f, left = With(dir, f, Garbled) PROVE Extracted(left)
      BY <2>2, WithKeeps
    <2>3. ASSUME NEW e \in Edits, NEW doc, left = With(dir, e[1], doc) PROVE Extracted(left)
      BY <2>3, EditsAssumption, WithKeeps
    <2> QED BY <2>1, <2>2, <2>3 DEF Edited
  <1>2. Redigested(left) = left \/ \E doc : Redigested(left) = With(left, "manifest", doc)
    BY DEF Redigested
  <1> QED BY <1>1, <1>2, WithKeeps

(* The run directory holds no obligations, and the target those of some    *)
(* extraction.                                                             *)
ReplayInv ==
    /\ "proof_obligation" \notin DOMAIN run
    /\ Extracted(target)

LEMMA MixedHasNone ==
    ASSUME NEW id \in {LabTrust, ToolUse, Computation}, NEW second, NEW handoff
    PROVE  "proof_obligation" \notin DOMAIN MixedFrom(id, second, handoff)
  <1> DEFINE Of(f) == IF f \in second THEN "r2" ELSE "r1"
             dir == [f \in SpecOf(id).artifacts |-> DocumentsOf(id, Of(f))[f]]
             full == IF id = Computation
                       THEN Merge(dir, [payload |-> Payload(Of("result"))]) ELSE dir
             handed == IF handoff = "none" THEN NoDirectory
                       ELSE [handoff_verifier |-> HandoffOf(DocumentsOf(id, handoff).certified)]
  <1>1. "proof_obligation" \notin DOMAIN dir
    <2>1. /\ "proof_obligation" \notin LabTrustSpec.artifacts
          /\ "proof_obligation" \notin ToolUseSpec.artifacts
          /\ "proof_obligation" \notin ComputationSpec.artifacts
      BY DEF LabTrustSpec, ToolUseSpec, ComputationSpec
    <2>2. DOMAIN dir = SpecOf(id).artifacts
      OBVIOUS
    <2> QED BY <2>1, <2>2, SpecIds
  <1> HIDE DEF dir
  <1>2. "proof_obligation" \notin DOMAIN full
    <2> DEFINE bytes == [payload |-> Payload(Of("result"))]
    <2>1. DOMAIN bytes = {"payload"}
      OBVIOUS
    <2>2. full \in {dir, Merge(dir, bytes)}
      OBVIOUS
    <2> HIDE DEF bytes, full
    <2>3. DOMAIN Merge(dir, bytes) = DOMAIN dir \cup DOMAIN bytes
      BY MergeShape
    <2> QED BY <1>1, <2>1, <2>2, <2>3
  <1> HIDE DEF full
  <1>3. DOMAIN Companions(full, id) = {"manifest", "manifest_v0", "result_v0"}
    BY DEF Companions
  <1>4. "proof_obligation" \notin DOMAIN handed
    BY DEF NoDirectory
  <1> HIDE DEF handed
  <1>5. "proof_obligation" \notin DOMAIN Merge(Merge(full, Companions(full, id)), handed)
    <2> DEFINE accompanied == Merge(full, Companions(full, id))
    <2>1. DOMAIN accompanied = DOMAIN full \cup DOMAIN Companions(full, id)
      BY MergeShape
    <2> HIDE DEF accompanied
    <2>2. DOMAIN Merge(accompanied, handed) = DOMAIN accompanied \cup DOMAIN handed
      BY MergeShape
    <2>3. "proof_obligation" \notin DOMAIN Merge(accompanied, handed)
      BY <1>2, <1>3, <1>4, <2>1, <2>2
    <2> QED BY <2>3 DEF accompanied
  <1>6. MixedFrom(id, second, handoff) = Merge(Merge(full, Companions(full, id)), handed)
    BY DEF MixedFrom, full, dir, handed
  <1> QED BY <1>5, <1>6

LEMMA InitReplay == Init => ReplayInv
  <1> SUFFICES ASSUME Init PROVE ReplayInv
    OBVIOUS
  <1>1. "proof_obligation" \notin DOMAIN run
    BY DEF Init, NoDirectory
  <1>2. CASE phase = "chain"
    <2>1. DOMAIN target = {}
      BY <1>2 DEF Init, NoDirectory
    <2> QED BY <1>1, <2>1, NoneExtracted DEF ReplayInv
  <1>3. CASE phase # "chain"
    <2>1. PICK second, handoff : target = MixedFrom(profile, second, handoff)
      BY <1>3 DEF Init
    <2>2. profile \in {LabTrust, ToolUse, Computation}
      BY <1>3 DEF Init
    <2> QED BY <1>1, <2>1, <2>2, MixedHasNone, NoneExtracted DEF ReplayInv
  <1> QED BY <1>2, <1>3

LEMMA ChainKeepsReplay ==
    ASSUME TypeOK, ReplayInv,
           \/ RunLab \/ Certify \/ Assemble \/ Verify \/ Sign \/ Import
           \/ \E repo \in DOMAIN OldHeads, commit \in {"new", "zero"} : MoveHead(repo, commit)
           \/ StartBuild \/ CopyNext \/ FinishBuild \/ AbandonBuild
    PROVE  ReplayInv'
  <1>1. ASSUME UNCHANGED <<run, target>> PROVE ReplayInv'
    BY <1>1 DEF ReplayInv, Extracted
  <1>2. ASSUME target' = target, "proof_obligation" \notin DOMAIN run' PROVE ReplayInv'
    BY <1>2 DEF ReplayInv, Extracted
  <1>3. CASE RunLab \/ Certify \/ Assemble \/ Verify \/ Sign \/ Import
    BY <1>1, <1>3 DEF RunLab, Certify, Assemble, Verify, Sign, Import, Stage, targetVars
  <1>4. CASE \E repo \in DOMAIN OldHeads, commit \in {"new", "zero"} : MoveHead(repo, commit)
    BY <1>1, <1>4 DEF MoveHead, targetVars
  <1>5. CASE StartBuild
    <2>1. target' = target /\ DOMAIN run' = {}
      BY <1>5 DEF StartBuild, NoDirectory, targetVars
    <2> QED BY <1>2, <2>1
  <1>6. CASE CopyNext
    <2> DEFINE f == ChainArtifacts[step + 1]
    <2>1. step \in 0..6
      BY <1>6, ChainShape DEF CopyNext, TypeOK
    <2>2. f # "proof_obligation"
      BY <2>1, ChainShape
    <2>3. run' = With(run, f, work[f]) /\ target' = target
      BY <1>6 DEF CopyNext, targetVars
    <2> HIDE DEF f
    <2>4. DOMAIN run' = DOMAIN run \cup {f}
      BY <2>3, WithShape
    <2> QED BY <1>2, <2>2, <2>3, <2>4 DEF ReplayInv
  <1>7. CASE FinishBuild
    <2> DEFINE dir == With(run, "report", Normalized(corpus, heads.sm))
    <2>1. target' = target /\ run' \in {dir, WithManifest(dir)}
      BY <1>7 DEF FinishBuild, targetVars
    <2>2. "proof_obligation" \notin DOMAIN dir
      <3>1. DOMAIN dir = DOMAIN run \cup {"report"}
        BY WithShape
      <3> QED BY <3>1 DEF ReplayInv
    <2> HIDE DEF dir
    <2>3. "proof_obligation" \notin DOMAIN WithManifest(dir)
      <3>1. DOMAIN WithManifest(dir) = DOMAIN dir \cup {"manifest"}
        BY WithShape DEF WithManifest
      <3> QED BY <2>2, <3>1
    <2> QED BY <1>2, <2>1, <2>2, <2>3
  <1>8. CASE AbandonBuild
    BY <1>1, <1>8 DEF AbandonBuild, targetVars
  <1> QED BY <1>3, <1>4, <1>5, <1>6, <1>7, <1>8

LEMMA AuditKeepsReplay ==
    ASSUME ReplayInv, Promote \/ Maintain \/ Edit \/ Materialize \/ CheckObligations \/ WriteResult
    PROVE  ReplayInv'
  <1>1. ASSUME run' = run, Extracted(target') PROVE ReplayInv'
    BY <1>1 DEF ReplayInv, Extracted
  <1>2. CASE Promote
    <2>1. target' \in PromotionStops(run) /\ run' = NoDirectory
      BY <1>2 DEF Promote
    <2>2. Extracted(target')
      BY <2>1, PromotionKeeps DEF ReplayInv
    <2>3. DOMAIN run' = {}
      BY <2>1 DEF NoDirectory
    <2> QED BY <2>2, <2>3 DEF ReplayInv, Extracted
  <1>3. CASE Maintain
    <2>1. target' \in MaintenanceStops(target) /\ run' = run
      BY <1>3 DEF Maintain
    <2> QED BY <1>1, <2>1, MaintenanceKeeps DEF ReplayInv
  <1>4. CASE Edit
    <2>1. run' = run /\ \E dir \in Edited(target) : target' \in {dir, Redigested(dir)}
      BY <1>4 DEF Edit
    <2> QED BY <1>1, <2>1, EditKeeps DEF ReplayInv
  <1>5. CASE Materialize
    <2>1. run' = run /\ \E build, skip \in BOOLEAN : target' = MaterializeLean(target, build, skip)
      BY <1>5 DEF Materialize, Audit
    <2> QED BY <1>1, <2>1, MaterializeKeeps DEF ReplayInv
  <1>6. CASE CheckObligations
    <2>1. run' = run /\ \E result : target' = With(target, "lean_check", result)
      BY <1>6 DEF CheckObligations, Audit
    <2> QED BY <1>1, <2>1, WithKeeps DEF ReplayInv
  <1>7. CASE WriteResult
    <2>1. run' = run /\ target' = With(target, "result_v0", BuildResult(target))
      BY <1>7 DEF WriteResult, Audit
    <2> QED BY <1>1, <2>1, WithKeeps DEF ReplayInv
  <1> QED BY <1>2, <1>3, <1>4, <1>5, <1>6, <1>7

(* Obligations that replay against a directory, of the same profile, are   *)
(* those an extraction gives there now: no edit of what they compare goes  *)
(* by a replay.                                                            *)
THEOREM ReplaysAreCurrent == Spec => []ReplayIsCurrent
  <1>1. Init => ReplayInv
    BY InitReplay
  <1>2. TypeOK /\ ReplayInv /\ [Next]_vars => ReplayInv'
    <2>1. ASSUME ReplayInv, UNCHANGED vars PROVE ReplayInv'
      BY <2>1 DEF ReplayInv, Extracted, vars
    <2>2. ASSUME TypeOK, ReplayInv, Next PROVE ReplayInv'
      BY <2>2, ChainKeepsReplay, AuditKeepsReplay DEF Next
    <2> QED BY <2>1, <2>2
  <1>3. ReplayInv => ReplayIsCurrent
    <2> SUFFICES ASSUME ReplayInv, IsDocument(File(target, "proof_obligation")),
                        Replays(File(target, "proof_obligation"), target),
                        Extract(target) # Refused,
                        Extract(target).workflow = File(target, "proof_obligation").workflow
                 PROVE  Extract(target) = File(target, "proof_obligation")
      BY DEF ReplayIsCurrent
    <2>1. PICK d : Extract(d) # Refused /\ File(target, "proof_obligation") = Extract(d)
      BY ExtractedMeans DEF ReplayInv
    <2> QED BY <2>1, ReplayFixes
  <1> QED BY <1>1, <1>2, <1>3, TypeCorrect, PTL DEF Spec

-----------------------------------------------------------------------------
(* The documents of the chains, field by field.                            *)

ProducedFields == {"run", "source_repo", "source_commit", "nested"}

IsProduced(doc, r, repo, commit, fields) ==
    /\ DOMAIN doc = ProducedFields \cup DOMAIN fields
    /\ doc["run"] = r /\ doc["source_repo"] = repo /\ doc["source_commit"] = commit
    /\ "nested" \notin DOMAIN fields => doc["nested"] = {}
    /\ \A p \in DOMAIN fields : doc[p] = fields[p]

LEMMA ProducedStates ==
    ASSUME NEW r, NEW repo, NEW commit, NEW fields, "run" \notin DOMAIN fields,
           "source_repo" \notin DOMAIN fields, "source_commit" \notin DOMAIN fields
    PROVE  IsProduced(Produced(r, repo, commit, fields), r, repo, commit, fields)
  <1> DEFINE base == [run |-> r, source_repo |-> repo, source_commit |-> commit, nested |-> {}]
             made == Merge(base, fields)
  <1>1. DOMAIN base = ProducedFields
    BY DEF ProducedFields
  <1>2. base["run"] = r /\ base["source_repo"] = repo /\ base["source_commit"] = commit /\ base["nested"] = {}
    OBVIOUS
  <1>3. Produced(r, repo, commit, fields) = made
    BY DEF Produced
  <1> HIDE DEF base
  <1>4. /\ DOMAIN made = DOMAIN base \cup DOMAIN fields
        /\ \A q \in DOMAIN base \ DOMAIN fields : made[q] = base[q]
        /\ \A q \in DOMAIN fields : made[q] = fields[q]
    BY MergeShape
  <1> HIDE DEF made
  <1>5. made["run"] = r /\ made["source_repo"] = repo /\ made["source_commit"] = commit
    BY <1>1, <1>2, <1>4 DEF ProducedFields
  <1>6. "nested" \notin DOMAIN fields => made["nested"] = {}
    BY <1>1, <1>2, <1>4 DEF ProducedFields
  <1> QED BY <1>1, <1>3, <1>4, <1>5, <1>6 DEF IsProduced

BundleFields ==
    {"certificates/0", "certificates/0/certificate_id", "certificates/0/trace_hash",
     "runtime_receipts/0", "runtime_receipts/0/trace_hash",
     "claim_artifact/certificate_refs", "evidence_bundle/certificate_refs"}

(* A bundle that carries a certificate.                                    *)
Carrying(doc, id, hash) ==
    /\ BundleFields \subseteq DOMAIN doc
    /\ doc["certificates/0"] = Object /\ doc["runtime_receipts/0"] = Object
    /\ doc["certificates/0/certificate_id"] = id
    /\ doc["certificates/0/trace_hash"] = hash /\ doc["runtime_receipts/0/trace_hash"] = hash
    /\ doc["claim_artifact/certificate_refs"] = {id}
    /\ doc["evidence_bundle/certificate_refs"] = {id}

LEMMA BundleStates ==
    ASSUME NEW id, NEW hash
    PROVE  DOMAIN BundleWith(id, hash) = BundleFields /\ Carrying(BundleWith(id, hash), id, hash)
  BY DEF BundleWith, BundleFields, Carrying

ResultFields ==
    {"status", "checks", "verified_input", "verified_input/bundle_hash",
     "verified_input/certificate_id", "verified_input/trace_hash"}

IsVerification(doc, certified, commit) ==
    /\ DOMAIN doc = ProducedFields \cup ResultFields
    /\ doc["run"] = certified["run"] /\ doc["source_repo"] = "pf"
    /\ doc["source_commit"] = commit /\ doc["nested"] = {}
    /\ doc["status"] = "ProofChecked" /\ doc["checks"] = {"passed"}
    /\ doc["verified_input"] = Object
    /\ doc["verified_input/bundle_hash"] = Digest(certified)
    /\ doc["verified_input/certificate_id"] = certified["certificates/0/certificate_id"]
    /\ doc["verified_input/trace_hash"] = certified["certificates/0/trace_hash"]

LEMMA VerificationStates ==
    ASSUME NEW certified, NEW commit
    PROVE  IsVerification(VerificationOf(certified, commit), certified, commit)
  <1> DEFINE fields ==
        [p \in {"status", "checks", "verified_input", "verified_input/bundle_hash",
                "verified_input/certificate_id", "verified_input/trace_hash"} |->
           CASE p = "status"         -> "ProofChecked"
             [] p = "checks"         -> {"passed"}
             [] p = "verified_input" -> Object
             [] p = "verified_input/bundle_hash"    -> Digest(certified)
             [] p = "verified_input/certificate_id" -> certified["certificates/0/certificate_id"]
             [] p = "verified_input/trace_hash"     -> certified["certificates/0/trace_hash"]]
  <1>1. DOMAIN fields = ResultFields
    BY DEF ResultFields
  <1>2. /\ fields["status"] = "ProofChecked" /\ fields["checks"] = {"passed"}
        /\ fields["verified_input"] = Object
        /\ fields["verified_input/bundle_hash"] = Digest(certified)
        /\ fields["verified_input/certificate_id"] = certified["certificates/0/certificate_id"]
        /\ fields["verified_input/trace_hash"] = certified["certificates/0/trace_hash"]
    OBVIOUS
  <1>3. VerificationOf(certified, commit) = Produced(certified.run, "pf", commit, fields)
    BY DEF VerificationOf
  <1> DEFINE doc == VerificationOf(certified, commit)
  <1> HIDE DEF fields
  <1>4. IsProduced(doc, certified.run, "pf", commit, fields)
    BY <1>1, <1>3, ProducedStates DEF ResultFields
  <1> HIDE DEF doc
  <1>5. /\ doc["status"] = fields["status"] /\ doc["checks"] = fields["checks"]
        /\ doc["verified_input"] = fields["verified_input"]
        /\ doc["verified_input/bundle_hash"] = fields["verified_input/bundle_hash"]
        /\ doc["verified_input/certificate_id"] = fields["verified_input/certificate_id"]
        /\ doc["verified_input/trace_hash"] = fields["verified_input/trace_hash"]
    BY <1>1, <1>4 DEF ResultFields, IsProduced
  <1>6. "nested" \notin ResultFields
    BY DEF ResultFields
  <1> QED BY <1>1, <1>2, <1>4, <1>5, <1>6 DEF doc, IsProduced, IsVerification

EmbeddedFields ==
    {"science_claim_bundle", "science_claim_bundle/certificates/0",
     "science_claim_bundle/certificates/0/certificate_id",
     "science_claim_bundle/certificates/0/trace_hash",
     "science_claim_bundle/runtime_receipts/0",
     "science_claim_bundle/runtime_receipts/0/trace_hash",
     "verification_result", "verification_result/status", "verification_result/checks",
     "verification_result/verified_input", "verification_result/verified_input/trace_hash"}

SigningFields == {"signed_input_bundle_hash", "signature_or_digest", "nested"}

IsSigned(doc, certified, verification, commit) ==
    /\ DOMAIN doc = ProducedFields \cup EmbeddedFields \cup SigningFields
    /\ doc["run"] = verification["run"] /\ doc["source_repo"] = "pf"
    /\ doc["source_commit"] = commit
    /\ doc["nested"] = EmbeddedNodes(certified, verification)
    /\ doc["signed_input_bundle_hash"] = verification["verified_input/bundle_hash"]
    /\ doc["signature_or_digest"] = "sealed"
    /\ doc["science_claim_bundle"] = Object
    /\ doc["science_claim_bundle/certificates/0"] = certified["certificates/0"]
    /\ doc["science_claim_bundle/certificates/0/certificate_id"] =
         certified["certificates/0/certificate_id"]
    /\ doc["science_claim_bundle/certificates/0/trace_hash"] =
         certified["certificates/0/trace_hash"]
    /\ doc["science_claim_bundle/runtime_receipts/0"] = certified["runtime_receipts/0"]
    /\ doc["science_claim_bundle/runtime_receipts/0/trace_hash"] =
         certified["runtime_receipts/0/trace_hash"]
    /\ doc["verification_result"] = Object
    /\ doc["verification_result/status"] = verification["status"]
    /\ doc["verification_result/checks"] = verification["checks"]
    /\ doc["verification_result/verified_input"] = verification["verified_input"]
    /\ doc["verification_result/verified_input/trace_hash"] =
         verification["verified_input/trace_hash"]

LEMMA SignedStates ==
    ASSUME NEW certified, NEW verification, NEW commit
    PROVE  IsSigned(SignedOf(certified, verification, commit), certified, verification, commit)
  <1> DEFINE bundle == EmbeddedBundle(certified)
             result == EmbeddedResult(verification)
             signing == [signed_input_bundle_hash |-> verification["verified_input/bundle_hash"],
                         signature_or_digest |-> "sealed",
                         nested |-> EmbeddedNodes(certified, verification)]
             both   == Merge(bundle, result)
             fields == Merge(both, signing)
             doc    == SignedOf(certified, verification, commit)
  <1>1. /\ DOMAIN bundle = {"science_claim_bundle", "science_claim_bundle/certificates/0",
              "science_claim_bundle/certificates/0/certificate_id",
              "science_claim_bundle/certificates/0/trace_hash",
              "science_claim_bundle/runtime_receipts/0",
              "science_claim_bundle/runtime_receipts/0/trace_hash"}
        /\ bundle["science_claim_bundle"] = Object
        /\ bundle["science_claim_bundle/certificates/0"] = certified["certificates/0"]
        /\ bundle["science_claim_bundle/certificates/0/certificate_id"] =
             certified["certificates/0/certificate_id"]
        /\ bundle["science_claim_bundle/certificates/0/trace_hash"] =
             certified["certificates/0/trace_hash"]
        /\ bundle["science_claim_bundle/runtime_receipts/0"] = certified["runtime_receipts/0"]
        /\ bundle["science_claim_bundle/runtime_receipts/0/trace_hash"] =
             certified["runtime_receipts/0/trace_hash"]
    BY DEF EmbeddedBundle
  <1>2. /\ DOMAIN result = {"verification_result", "verification_result/status",
              "verification_result/checks", "verification_result/verified_input",
              "verification_result/verified_input/trace_hash"}
        /\ result["verification_result"] = Object
        /\ result["verification_result/status"] = verification["status"]
        /\ result["verification_result/checks"] = verification["checks"]
        /\ result["verification_result/verified_input"] = verification["verified_input"]
        /\ result["verification_result/verified_input/trace_hash"] =
             verification["verified_input/trace_hash"]
    BY DEF EmbeddedResult
  <1>3. DOMAIN signing = SigningFields
    BY DEF SigningFields
  <1>4. /\ signing["signed_input_bundle_hash"] = verification["verified_input/bundle_hash"]
        /\ signing["signature_or_digest"] = "sealed"
        /\ signing["nested"] = EmbeddedNodes(certified, verification)
    OBVIOUS
  <1>5. doc = Produced(verification.run, "pf", commit, fields)
    BY DEF SignedOf
  <1> HIDE DEF bundle, result, signing, doc
  <1>6. /\ DOMAIN both = EmbeddedFields
        /\ \A p \in DOMAIN bundle : both[p] = bundle[p]
        /\ \A p \in DOMAIN result : both[p] = result[p]
    <2>1. DOMAIN both = DOMAIN bundle \cup DOMAIN result
      BY MergeShape
    <2>2. DOMAIN bundle \cap DOMAIN result = {}
      BY <1>1, <1>2
    <2>3. DOMAIN bundle \cup DOMAIN result = EmbeddedFields
      BY <1>1, <1>2 DEF EmbeddedFields
    <2>4. /\ \A p \in DOMAIN bundle \ DOMAIN result : both[p] = bundle[p]
          /\ \A p \in DOMAIN result : both[p] = result[p]
      BY MergeShape, ZenonT(60)
    <2> HIDE DEF both
    <2> QED BY <2>1, <2>2, <2>3, <2>4
  <1> HIDE DEF both
  <1>7. /\ DOMAIN fields = EmbeddedFields \cup SigningFields
        /\ \A p \in EmbeddedFields : fields[p] = both[p]
        /\ \A p \in SigningFields : fields[p] = signing[p]
    <2>1. EmbeddedFields \cap SigningFields = {}
      BY DEF EmbeddedFields, SigningFields
    <2>2. /\ DOMAIN fields = DOMAIN both \cup DOMAIN signing
          /\ \A p \in DOMAIN both \ DOMAIN signing : fields[p] = both[p]
          /\ \A p \in DOMAIN signing : fields[p] = signing[p]
      BY MergeShape, ZenonT(60)
    <2> HIDE DEF fields
    <2> QED BY <1>3, <1>6, <2>1, <2>2
  <1> HIDE DEF fields
  <1>8. /\ DOMAIN doc = ProducedFields \cup EmbeddedFields \cup SigningFields
        /\ doc["run"] = verification.run /\ doc["source_repo"] = "pf"
        /\ doc["source_commit"] = commit
        /\ \A p \in EmbeddedFields \cup SigningFields : doc[p] = fields[p]
    <2>1. /\ "run" \notin DOMAIN fields /\ "source_repo" \notin DOMAIN fields
          /\ "source_commit" \notin DOMAIN fields
      BY <1>7 DEF EmbeddedFields, SigningFields
    <2>2. IsProduced(doc, verification.run, "pf", commit, fields)
      BY <1>5, <2>1, ProducedStates
    <2>3. DOMAIN doc = ProducedFields \cup EmbeddedFields \cup SigningFields
      BY <1>7, <2>2 DEF IsProduced
    <2> QED BY <1>7, <2>2, <2>3 DEF IsProduced
  <1>9. /\ \A p \in EmbeddedFields : doc[p] = both[p]
        /\ \A p \in SigningFields : doc[p] = signing[p]
    BY <1>7, <1>8
  <1>10. /\ doc["nested"] = EmbeddedNodes(certified, verification)
         /\ doc["signed_input_bundle_hash"] = verification["verified_input/bundle_hash"]
         /\ doc["signature_or_digest"] = "sealed"
    BY <1>4, <1>9 DEF SigningFields
  <1>11. /\ \A p \in DOMAIN bundle : doc[p] = bundle[p]
         /\ \A p \in DOMAIN result : doc[p] = result[p]
    <2>1. DOMAIN bundle \subseteq EmbeddedFields /\ DOMAIN result \subseteq EmbeddedFields
      BY <1>1, <1>2 DEF EmbeddedFields
    <2> QED BY <1>6, <1>9, <2>1
  <1> QED BY <1>1, <1>2, <1>8, <1>10, <1>11 DEF doc, IsSigned

(* The documents of a LabTrust release.                                    *)
IsTrace(doc, r) ==
    /\ DOMAIN doc = {"run", "nested", "trace_hash", "events"}
    /\ doc["run"] = r /\ doc["nested"] = {} /\ doc["events"] = {"event"}
    /\ doc["trace_hash"] = <<"trace", r>>

IsReceipt(doc, r, commit) ==
    /\ DOMAIN doc = ProducedFields \cup {"trace_hash", "signature_or_digest"}
    /\ doc["run"] = r /\ doc["nested"] = {}
    /\ doc["source_repo"] = "labtrust" /\ doc["source_commit"] = commit
    /\ doc["trace_hash"] = <<"trace", r>> /\ doc["signature_or_digest"] = "sealed"

IsCertificate(doc, r, commit) ==
    /\ DOMAIN doc = ProducedFields
         \cup {"trace_hash", "certificate_id", "status", "signature_or_digest"}
    /\ doc["run"] = r /\ doc["nested"] = {}
    /\ doc["source_repo"] = "certifyedge" /\ doc["source_commit"] = commit
    /\ doc["trace_hash"] = <<"trace", r>> /\ doc["certificate_id"] = CertificateId(r)
    /\ doc["status"] = "CertificateChecked" /\ doc["signature_or_digest"] = "sealed"

IsPending(doc, r, commit) ==
    /\ DOMAIN doc = ProducedFields \cup {"runtime_receipts/0", "runtime_receipts/0/trace_hash"}
    /\ doc["run"] = r /\ doc["nested"] = {}
    /\ doc["source_repo"] = "labtrust" /\ doc["source_commit"] = commit
    /\ doc["runtime_receipts/0"] = Object /\ doc["runtime_receipts/0/trace_hash"] = <<"trace", r>>

IsCertified(doc, r, labtrust, certifyedge) ==
    /\ DOMAIN doc = ProducedFields \cup BundleFields
    /\ doc["run"] = r /\ doc["nested"] = {Node("certificates", "certifyedge", certifyedge)}
    /\ doc["source_repo"] = "labtrust" /\ doc["source_commit"] = labtrust
    /\ Carrying(doc, CertificateId(r), <<"trace", r>>)

LEMMA TraceStates ==
    ASSUME NEW r
    PROVE  IsTrace(LabTrace(r), r)
  BY DEF LabTrace, IsTrace

LEMMA ReceiptStates ==
    ASSUME NEW r, NEW h
    PROVE  IsReceipt(LabReceipt(r, h), r, h.labtrust)
  <1> DEFINE fields == [trace_hash |-> <<"trace", r>>, signature_or_digest |-> "sealed"]
             doc    == LabReceipt(r, h)
  <1>1. DOMAIN fields = {"trace_hash", "signature_or_digest"}
    OBVIOUS
  <1>2. fields["trace_hash"] = <<"trace", r>> /\ fields["signature_or_digest"] = "sealed"
    OBVIOUS
  <1>3. doc = Produced(r, "labtrust", h.labtrust, fields)
    BY DEF LabReceipt
  <1> HIDE DEF fields, doc
  <1>4. IsProduced(doc, r, "labtrust", h.labtrust, fields)
    BY <1>1, <1>3, ProducedStates
  <1>5. IsReceipt(doc, r, h.labtrust)
    BY <1>1, <1>2, <1>4 DEF IsProduced, IsReceipt
  <1> QED BY <1>5 DEF doc

LEMMA CertificateStates ==
    ASSUME NEW r, NEW h
    PROVE  IsCertificate(LabCertificate(LabTrace(r), h), r, h.certifyedge)
  <1> DEFINE fields == [trace_hash |-> LabTrace(r).trace_hash,
                        certificate_id |-> CertificateId(LabTrace(r).run),
                        status |-> "CertificateChecked", signature_or_digest |-> "sealed"]
             doc    == LabCertificate(LabTrace(r), h)
  <1>1. LabTrace(r).run = r /\ LabTrace(r).trace_hash = <<"trace", r>>
    BY DEF LabTrace
  <1>2. DOMAIN fields = {"trace_hash", "certificate_id", "status", "signature_or_digest"}
    OBVIOUS
  <1>3. /\ fields["trace_hash"] = <<"trace", r>> /\ fields["certificate_id"] = CertificateId(r)
        /\ fields["status"] = "CertificateChecked" /\ fields["signature_or_digest"] = "sealed"
    BY <1>1
  <1>4. doc = Produced(r, "certifyedge", h.certifyedge, fields)
    BY <1>1 DEF LabCertificate
  <1> HIDE DEF fields, doc
  <1>5. IsProduced(doc, r, "certifyedge", h.certifyedge, fields)
    BY <1>2, <1>4, ProducedStates
  <1>6. IsCertificate(doc, r, h.certifyedge)
    BY <1>2, <1>3, <1>5 DEF IsProduced, IsCertificate
  <1> QED BY <1>6 DEF doc

LEMMA PendingStates ==
    ASSUME NEW r, NEW h
    PROVE  IsPending(LabPending(r, h), r, h.labtrust)
  <1> DEFINE fields == [p \in {"runtime_receipts/0", "runtime_receipts/0/trace_hash"} |->
                          IF p = "runtime_receipts/0" THEN Object ELSE <<"trace", r>>]
             doc    == LabPending(r, h)
  <1>1. DOMAIN fields = {"runtime_receipts/0", "runtime_receipts/0/trace_hash"}
    OBVIOUS
  <1>2. /\ fields["runtime_receipts/0"] = Object
        /\ fields["runtime_receipts/0/trace_hash"] = <<"trace", r>>
    OBVIOUS
  <1>3. doc = Produced(r, "labtrust", h.labtrust, fields)
    BY DEF LabPending
  <1> HIDE DEF fields, doc
  <1>4. IsProduced(doc, r, "labtrust", h.labtrust, fields)
    BY <1>1, <1>3, ProducedStates
  <1>5. IsPending(doc, r, h.labtrust)
    BY <1>1, <1>2, <1>4 DEF IsProduced, IsPending
  <1> QED BY <1>5 DEF doc

LEMMA CertifiedStates ==
    ASSUME NEW r, NEW pending, NEW certificate, NEW labtrust, NEW certifyedge,
           IsPending(pending, r, labtrust), IsCertificate(certificate, r, certifyedge)
    PROVE  IsCertified(LabCertified(pending, certificate), r, labtrust, certifyedge)
  <1> DEFINE id     == CertificateId(r)
             bundle == BundleWith(id, <<"trace", r>>)
             last   == [nested |-> {Node("certificates", "certifyedge", certifyedge)}]
             both   == Merge(pending, bundle)
             doc    == Merge(both, last)
  <1>1. LabCertified(pending, certificate) = doc
    BY DEF LabCertified, IsCertificate
  <1>2. DOMAIN bundle = BundleFields /\ Carrying(bundle, id, <<"trace", r>>)
    BY BundleStates
  <1>3. DOMAIN last = {"nested"} /\ last["nested"] = {Node("certificates", "certifyedge", certifyedge)}
    OBVIOUS
  <1> HIDE DEF bundle, last
  <1>4. /\ DOMAIN both = DOMAIN pending \cup DOMAIN bundle
        /\ \A p \in DOMAIN pending \ DOMAIN bundle : both[p] = pending[p]
        /\ \A p \in DOMAIN bundle : both[p] = bundle[p]
    BY MergeShape, ZenonT(60)
  <1> HIDE DEF both
  <1>5. /\ DOMAIN doc = DOMAIN both \cup DOMAIN last
        /\ \A p \in DOMAIN both \ DOMAIN last : doc[p] = both[p]
        /\ \A p \in DOMAIN last : doc[p] = last[p]
    BY MergeShape, ZenonT(60)
  <1> HIDE DEF doc
  <1>6. DOMAIN doc = ProducedFields \cup BundleFields
    BY <1>2, <1>3, <1>4, <1>5 DEF IsPending, ProducedFields, BundleFields
  <1>7. /\ doc["run"] = r /\ doc["source_repo"] = "labtrust" /\ doc["source_commit"] = labtrust
        /\ doc["nested"] = {Node("certificates", "certifyedge", certifyedge)}
    BY <1>2, <1>3, <1>4, <1>5 DEF IsPending, ProducedFields, BundleFields
  <1>8. \A p \in BundleFields : doc[p] = bundle[p]
    <2>1. "nested" \notin BundleFields
      BY DEF BundleFields
    <2> QED BY <2>1, <1>2, <1>3, <1>4, <1>5
  <1>9. Carrying(doc, id, <<"trace", r>>)
    <2>1. \A p \in BundleFields : p \in DOMAIN doc
      BY <1>6
    <2> HIDE DEF id
    <2> QED BY <1>2, <1>8, <2>1 DEF Carrying, BundleFields
  <1> QED BY <1>1, <1>6, <1>7, <1>9 DEF IsCertified

IsLabTrust(docs, r, h, signer) ==
    /\ DOMAIN docs = LabTrustSpec.artifacts
    /\ IsTrace(docs["trace"], r) /\ IsReceipt(docs["receipt"], r, h.labtrust)
    /\ IsCertificate(docs["certificate"], r, h.certifyedge)
    /\ IsPending(docs["pending"], r, h.labtrust)
    /\ IsCertified(docs["certified"], r, h.labtrust, h.certifyedge)
    /\ IsVerification(docs["verification"], docs["certified"], h.pf)
    /\ IsSigned(docs["signed"], docs["certified"], docs["verification"], signer)

LEMMA LabTrustStates ==
    ASSUME NEW r, NEW h, NEW signer
    PROVE  IsLabTrust(LabTrustDocuments(r, h, signer), r, h, signer)
  <1> DEFINE certificate == LabCertificate(LabTrace(r), h)
             pending     == LabPending(r, h)
             certified   == LabCertified(pending, certificate)
             verification == VerificationOf(certified, h.pf)
             docs        == LabTrustDocuments(r, h, signer)
  <1>1. /\ DOMAIN docs = LabTrustSpec.artifacts
        /\ docs["trace"] = LabTrace(r) /\ docs["receipt"] = LabReceipt(r, h)
        /\ docs["certificate"] = certificate /\ docs["pending"] = pending
        /\ docs["certified"] = certified /\ docs["verification"] = verification
        /\ docs["signed"] = SignedOf(certified, verification, signer)
    BY DEF LabTrustDocuments, LabTrustSpec
  <1> HIDE DEF docs
  <1>2. IsCertificate(certificate, r, h.certifyedge) /\ IsPending(pending, r, h.labtrust)
    BY CertificateStates, PendingStates
  <1> HIDE DEF certificate, pending
  <1>3. IsCertified(certified, r, h.labtrust, h.certifyedge)
    BY <1>2, CertifiedStates
  <1> HIDE DEF certified
  <1>4. IsVerification(verification, certified, h.pf)
    BY VerificationStates
  <1> HIDE DEF verification
  <1>5. IsSigned(SignedOf(certified, verification, signer), certified, verification, signer)
    BY SignedStates
  <1>6. IsTrace(LabTrace(r), r) /\ IsReceipt(LabReceipt(r, h), r, h.labtrust)
    BY TraceStates, ReceiptStates
  <1>7. IsLabTrust(docs, r, h, signer)
    BY <1>1, <1>2, <1>3, <1>4, <1>5, <1>6 DEF IsLabTrust
  <1> QED BY <1>7 DEF docs

(* The documents of a tool-use release, as far as they name their run.     *)
IsToolUse(docs, r) ==
    /\ docs["tool_trace"] = ToolTrace(r)
    /\ DOMAIN docs = ToolUseSpec.artifacts
    /\ \A f \in {"tool_trace", "receipt", "certificate", "certified"} :
         "run" \in DOMAIN docs[f] /\ docs[f]["run"] = r
    /\ \A f \in {"tool_trace", "receipt", "certificate"} :
         "trace_hash" \in DOMAIN docs[f] /\ docs[f]["trace_hash"] = ToolTrace(r)["trace_hash"]
    /\ "certificate_id" \in DOMAIN docs["certificate"]
    /\ docs["certificate"]["certificate_id"] = CertificateId(r)
    /\ Carrying(docs["certified"], CertificateId(r), ToolTrace(r)["trace_hash"])
    /\ IsVerification(docs["verification"], docs["certified"], "old")
    /\ IsSigned(docs["signed"], docs["certified"], docs["verification"], "old")

ToolBody(r) == Produced(r, "agent_runtime", "old",
                 [policy_hash |-> "policy", tool_calls |-> {"authorized"}, call |-> r])

(* Whoever hashes the traces of two runs finds them different.             *)
LEMMA ToolTraceStates ==
    ASSUME NEW r
    PROVE  /\ DOMAIN ToolTrace(r) = ProducedFields \cup {"policy_hash", "tool_calls", "call", "trace_hash"}
           /\ ToolTrace(r)["run"] = r /\ ToolTrace(r)["trace_hash"] = Digest(ToolBody(r))
           /\ ToolTrace(r)["policy_hash"] = "policy" /\ ToolBody(r)["run"] = r
  <1> DEFINE fields == [policy_hash |-> "policy", tool_calls |-> {"authorized"}, call |-> r]
             body   == ToolBody(r)
             hashed == [trace_hash |-> Digest(body)]
             doc    == Merge(body, hashed)
  <1>1. ToolTrace(r) = doc
    BY DEF ToolTrace, ToolBody
  <1>2. DOMAIN fields = {"policy_hash", "tool_calls", "call"}
    OBVIOUS
  <1>3. fields["policy_hash"] = "policy"
    OBVIOUS
  <1>4. body = Produced(r, "agent_runtime", "old", fields)
    BY DEF ToolBody
  <1> HIDE DEF fields, body
  <1>5. IsProduced(body, r, "agent_runtime", "old", fields)
    BY <1>2, <1>4, ProducedStates
  <1>6. /\ DOMAIN body = ProducedFields \cup {"policy_hash", "tool_calls", "call"}
        /\ body["run"] = r /\ body["policy_hash"] = "policy"
    BY <1>2, <1>3, <1>5 DEF IsProduced
  <1>7. DOMAIN hashed = {"trace_hash"} /\ hashed["trace_hash"] = Digest(body)
    OBVIOUS
  <1> HIDE DEF hashed
  <1>8. /\ DOMAIN doc = DOMAIN body \cup DOMAIN hashed
        /\ \A p \in DOMAIN body \ DOMAIN hashed : doc[p] = body[p]
        /\ \A p \in DOMAIN hashed : doc[p] = hashed[p]
    BY MergeShape, ZenonT(60)
  <1> HIDE DEF doc
  <1>9. DOMAIN doc = ProducedFields \cup {"policy_hash", "tool_calls", "call", "trace_hash"}
    BY <1>6, <1>7, <1>8
  <1>10. doc["run"] = r /\ doc["policy_hash"] = "policy" /\ doc["trace_hash"] = Digest(body)
    BY <1>6, <1>7, <1>8 DEF ProducedFields
  <1> QED BY <1>1, <1>6, <1>9, <1>10 DEF body

LEMMA DigestFixes ==
    ASSUME NEW a, NEW b, Digest(a) = Digest(b)
    PROVE  a = b
  BY DEF Digest

LEMMA ToolHashesDiffer ==
    ASSUME NEW r, NEW q, ToolTrace(r)["trace_hash"] = ToolTrace(q)["trace_hash"]
    PROVE  r = q
  <1>1. Digest(ToolBody(r)) = Digest(ToolBody(q))
    BY ToolTraceStates
  <1>2. ToolBody(r) = ToolBody(q)
    BY <1>1, DigestFixes
  <1> QED BY <1>2, ToolTraceStates

LEMMA CertificateIdsDiffer ==
    ASSUME NEW r, NEW q, CertificateId(r) = CertificateId(q)
    PROVE  r = q
  BY DEF CertificateId

(* The bundle of the later profiles, and what is made of it.               *)
LEMMA AdaptedStates ==
    ASSUME NEW r, NEW id, NEW hash
    PROVE  /\ "run" \in DOMAIN Adapted(r, id, hash) /\ Adapted(r, id, hash)["run"] = r
           /\ Carrying(Adapted(r, id, hash), id, hash)
  <1> DEFINE fields == [signature_or_digest |-> "sealed"]
             base   == Produced(r, "labtrust", "old", fields)
             bundle == BundleWith(id, hash)
             doc    == Merge(base, bundle)
  <1>1. Adapted(r, id, hash) = doc
    BY DEF Adapted
  <1>2. DOMAIN fields = {"signature_or_digest"}
    OBVIOUS
  <1> HIDE DEF fields
  <1>3. IsProduced(base, r, "labtrust", "old", fields)
    BY <1>2, ProducedStates
  <1>4. "run" \in DOMAIN base /\ base["run"] = r
    BY <1>3 DEF IsProduced, ProducedFields
  <1>5. DOMAIN bundle = BundleFields /\ Carrying(bundle, id, hash)
    BY BundleStates
  <1> HIDE DEF base, bundle
  <1>6. /\ DOMAIN doc = DOMAIN base \cup DOMAIN bundle
        /\ \A p \in DOMAIN base \ DOMAIN bundle : doc[p] = base[p]
        /\ \A p \in DOMAIN bundle : doc[p] = bundle[p]
    BY MergeShape
  <1> HIDE DEF doc
  <1>7. "run" \in DOMAIN doc /\ doc["run"] = r
    BY <1>4, <1>5, <1>6 DEF BundleFields
  <1>8. Carrying(doc, id, hash)
    BY <1>5, <1>6 DEF Carrying, BundleFields
  <1> QED BY <1>1, <1>7, <1>8

LEMMA VerifiedStates ==
    ASSUME NEW certified
    PROVE  LET docs == Verified(certified)
           IN  /\ DOMAIN docs = {"certified", "verification", "signed"}
               /\ docs["certified"] = certified
               /\ IsVerification(docs["verification"], certified, "old")
               /\ IsSigned(docs["signed"], certified, docs["verification"], "old")
  <1> DEFINE verification == VerificationOf(certified, "old")
             signed == SignedOf(certified, verification, "old")
             docs   == Verified(certified)
  <1>1. /\ DOMAIN docs = {"certified", "verification", "signed"}
        /\ docs["certified"] = certified /\ docs["verification"] = verification
        /\ docs["signed"] = signed
    BY DEF Verified
  <1>2. IsVerification(verification, certified, "old")
    BY VerificationStates
  <1>3. IsSigned(signed, certified, verification, "old")
    BY SignedStates
  <1> HIDE DEF docs, verification, signed
  <1>4. /\ DOMAIN docs = {"certified", "verification", "signed"}
        /\ docs["certified"] = certified
        /\ IsVerification(docs["verification"], certified, "old")
        /\ IsSigned(docs["signed"], certified, docs["verification"], "old")
    BY <1>1, <1>2, <1>3
  <1> QED BY <1>4 DEF docs

LEMMA ToolReceiptStates ==
    ASSUME NEW r
    PROVE  LET doc == ToolReceipt(ToolTrace(r))
           IN  /\ {"run", "trace_hash"} \subseteq DOMAIN doc
               /\ doc["run"] = r /\ doc["trace_hash"] = ToolTrace(r)["trace_hash"]
  <1> DEFINE hash   == ToolTrace(r)["trace_hash"]
             fields == [trace_hash |-> hash, signature_or_digest |-> "sealed"]
             doc    == ToolReceipt(ToolTrace(r))
  <1>1. DOMAIN fields = {"trace_hash", "signature_or_digest"} /\ fields["trace_hash"] = hash
    OBVIOUS
  <1>2. doc = Produced(r, "agent_runtime", "old", fields)
    BY ToolTraceStates DEF ToolReceipt
  <1> HIDE DEF fields, doc, hash
  <1>3. IsProduced(doc, r, "agent_runtime", "old", fields)
    BY <1>1, <1>2, ProducedStates
  <1>4. {"run", "trace_hash"} \subseteq DOMAIN doc /\ doc["run"] = r /\ doc["trace_hash"] = hash
    BY <1>1, <1>3 DEF IsProduced, ProducedFields
  <1> QED BY <1>4 DEF doc, hash

LEMMA ToolCertificateStates ==
    ASSUME NEW r
    PROVE  LET doc == ToolCertificate(ToolTrace(r))
           IN  /\ {"run", "trace_hash", "certificate_id"} \subseteq DOMAIN doc
               /\ doc["run"] = r /\ doc["trace_hash"] = ToolTrace(r)["trace_hash"]
               /\ doc["certificate_id"] = CertificateId(r)
  <1> DEFINE hash   == ToolTrace(r)["trace_hash"]
             policy == ToolTrace(r)["policy_hash"]
             fields == [certificate_id |-> CertificateId(r), trace_hash |-> hash,
                        policy_hash |-> policy, status |-> "CertificateChecked",
                        violations |-> {}, signature_or_digest |-> "sealed"]
             doc    == ToolCertificate(ToolTrace(r))
  <1>1. /\ DOMAIN fields = {"certificate_id", "trace_hash", "policy_hash", "status",
                            "violations", "signature_or_digest"}
        /\ fields["trace_hash"] = hash /\ fields["certificate_id"] = CertificateId(r)
    OBVIOUS
  <1>2. doc = Produced(r, "certifyedge", "old", fields)
    BY ToolTraceStates DEF ToolCertificate
  <1> HIDE DEF fields, doc, hash
  <1>3. IsProduced(doc, r, "certifyedge", "old", fields)
    BY <1>1, <1>2, ProducedStates
  <1>4. /\ {"run", "trace_hash", "certificate_id"} \subseteq DOMAIN doc
        /\ doc["run"] = r /\ doc["trace_hash"] = hash /\ doc["certificate_id"] = CertificateId(r)
    BY <1>1, <1>3 DEF IsProduced, ProducedFields
  <1> QED BY <1>4 DEF doc, hash

LEMMA ToolUseStates ==
    ASSUME NEW r
    PROVE  IsToolUse(ToolUseDocuments(r), r)
  <1> DEFINE trace     == ToolTrace(r)
             certified == Adapted(r, CertificateId(r), trace["trace_hash"])
             bundled   == Verified(certified)
             others    == [tool_trace |-> trace, receipt |-> ToolReceipt(trace),
                           certificate |-> ToolCertificate(trace),
                           report |-> ProfileReport(r, ToolUse)]
             docs      == Merge(bundled, others)
  <1>1. ToolUseDocuments(r) = docs
    BY DEF ToolUseDocuments
  <1>2. /\ DOMAIN others = {"tool_trace", "receipt", "certificate", "report"}
        /\ others["tool_trace"] = trace /\ others["receipt"] = ToolReceipt(trace)
        /\ others["certificate"] = ToolCertificate(trace)
    OBVIOUS
  <1>3. /\ DOMAIN bundled = {"certified", "verification", "signed"}
        /\ bundled["certified"] = certified
        /\ IsVerification(bundled["verification"], certified, "old")
        /\ IsSigned(bundled["signed"], certified, bundled["verification"], "old")
    BY VerifiedStates
  <1>4. /\ "run" \in DOMAIN certified /\ certified["run"] = r
        /\ Carrying(certified, CertificateId(r), trace["trace_hash"])
    BY AdaptedStates
  <1> HIDE DEF others, bundled, certified
  <1>5. /\ DOMAIN docs = DOMAIN bundled \cup DOMAIN others
        /\ \A p \in DOMAIN bundled \ DOMAIN others : docs[p] = bundled[p]
        /\ \A p \in DOMAIN others : docs[p] = others[p]
    BY MergeShape
  <1> HIDE DEF docs
  <1>6. /\ docs["certified"] = certified /\ docs["verification"] = bundled["verification"]
        /\ docs["signed"] = bundled["signed"] /\ docs["tool_trace"] = trace
        /\ docs["receipt"] = ToolReceipt(trace) /\ docs["certificate"] = ToolCertificate(trace)
    BY <1>2, <1>3, <1>5
  <1>7. DOMAIN docs = ToolUseSpec.artifacts
    BY <1>2, <1>3, <1>5 DEF ToolUseSpec
  <1>8. \A f \in {"tool_trace", "receipt", "certificate", "certified"} :
           "run" \in DOMAIN docs[f] /\ docs[f]["run"] = r
    BY <1>4, <1>6, ToolTraceStates, ToolReceiptStates, ToolCertificateStates DEF ProducedFields
  <1>9. \A f \in {"tool_trace", "receipt", "certificate"} :
           "trace_hash" \in DOMAIN docs[f] /\ docs[f]["trace_hash"] = trace["trace_hash"]
    BY <1>6, ToolTraceStates, ToolReceiptStates, ToolCertificateStates
  <1>10. /\ "certificate_id" \in DOMAIN docs["certificate"]
         /\ docs["certificate"]["certificate_id"] = CertificateId(r)
    BY <1>6, ToolCertificateStates
  <1> QED BY <1>1, <1>3, <1>4, <1>6, <1>7, <1>8, <1>9, <1>10 DEF IsToolUse

(* The documents of a computation, as far as they name their run.          *)
IsWitness(doc, r) ==
    /\ {"run", "witness_id", "dataset_hash", "environment_hash", "run_receipt_hash",
        "result_hashes"} \subseteq DOMAIN doc
    /\ doc["run"] = r /\ doc["witness_id"] = CertificateId(r)
    /\ doc["dataset_hash"] = Digest({r}) /\ doc["environment_hash"] = Digest(Environment(r))
    /\ doc["run_receipt_hash"] = Digest(RunReceipt(r))
    /\ doc["result_hashes"] = {Digest(Payload(r))}

IsComputation(docs, r) ==
    /\ ComputationSpec.artifacts \subseteq DOMAIN docs
    /\ \A f \in {"dataset", "environment", "run_receipt", "result", "witness", "certified"} :
         "run" \in DOMAIN docs[f] /\ docs[f]["run"] = r
    /\ "aggregate_hash" \in DOMAIN docs["dataset"] /\ docs["dataset"]["aggregate_hash"] = Digest({r})
    /\ docs["environment"] = Environment(r) /\ docs["run_receipt"] = RunReceipt(r)
    /\ "sha256" \in DOMAIN docs["result"] /\ docs["result"]["sha256"] = Digest(Payload(r))
    /\ IsWitness(docs["witness"], r)
    /\ Carrying(docs["certified"], CertificateId(r), Digest(RunReceipt(r)))
    /\ IsVerification(docs["verification"], docs["certified"], "old")
    /\ IsSigned(docs["signed"], docs["certified"], docs["verification"], "old")

LEMMA EvidenceStates ==
    ASSUME NEW r
    PROVE  /\ {"run", "aggregate_hash"} \subseteq DOMAIN Dataset(r)
           /\ Dataset(r)["run"] = r /\ Dataset(r)["aggregate_hash"] = Digest({r})
           /\ "run" \in DOMAIN Environment(r) /\ Environment(r)["run"] = r
           /\ "run" \in DOMAIN RunReceipt(r) /\ RunReceipt(r)["run"] = r
           /\ {"run", "sha256"} \subseteq DOMAIN ResultOf(r)
           /\ ResultOf(r)["run"] = r /\ ResultOf(r)["sha256"] = Digest(Payload(r))
  <1> DEFINE repo == "scientific_computation"
  <1>1. /\ {"run", "aggregate_hash"} \subseteq DOMAIN Dataset(r)
        /\ Dataset(r)["run"] = r /\ Dataset(r)["aggregate_hash"] = Digest({r})
    <2> DEFINE fields == [files |-> {r}, aggregate_hash |-> Digest({r})]
    <2>1. DOMAIN fields = {"files", "aggregate_hash"} /\ fields["aggregate_hash"] = Digest({r})
      OBVIOUS
    <2>2. Dataset(r) = Produced(r, repo, "old", fields)
      BY DEF Dataset
    <2> HIDE DEF fields
    <2>3. IsProduced(Dataset(r), r, repo, "old", fields)
      BY <2>1, <2>2, ProducedStates
    <2> QED BY <2>1, <2>3 DEF IsProduced, ProducedFields
  <1>2. "run" \in DOMAIN Environment(r) /\ Environment(r)["run"] = r
    <2> DEFINE fields == [image |-> r]
    <2>1. DOMAIN fields = {"image"}
      OBVIOUS
    <2>2. Environment(r) = Produced(r, repo, "old", fields)
      BY DEF Environment
    <2> HIDE DEF fields
    <2>3. IsProduced(Environment(r), r, repo, "old", fields)
      BY <2>1, <2>2, ProducedStates
    <2> QED BY <2>3 DEF IsProduced, ProducedFields
  <1>3. "run" \in DOMAIN RunReceipt(r) /\ RunReceipt(r)["run"] = r
    <2> DEFINE fields == [exit_code |-> "zero", code_commit |-> "old"]
    <2>1. DOMAIN fields = {"exit_code", "code_commit"}
      OBVIOUS
    <2>2. RunReceipt(r) = Produced(r, repo, "old", fields)
      BY DEF RunReceipt
    <2> HIDE DEF fields
    <2>3. IsProduced(RunReceipt(r), r, repo, "old", fields)
      BY <2>1, <2>2, ProducedStates
    <2> QED BY <2>3 DEF IsProduced, ProducedFields
  <1>4. /\ {"run", "sha256"} \subseteq DOMAIN ResultOf(r)
        /\ ResultOf(r)["run"] = r /\ ResultOf(r)["sha256"] = Digest(Payload(r))
    <2> DEFINE fields == [path |-> "payload", sha256 |-> Digest(Payload(r))]
    <2>1. DOMAIN fields = {"path", "sha256"} /\ fields["sha256"] = Digest(Payload(r))
      OBVIOUS
    <2>2. ResultOf(r) = Produced(r, repo, "old", fields)
      BY DEF ResultOf
    <2> HIDE DEF fields
    <2>3. IsProduced(ResultOf(r), r, repo, "old", fields)
      BY <2>1, <2>2, ProducedStates
    <2> QED BY <2>1, <2>3 DEF IsProduced, ProducedFields
  <1> QED BY <1>1, <1>2, <1>3, <1>4

LEMMA WitnessStates ==
    ASSUME NEW r
    PROVE  IsWitness(Witness(r), r)
  <1> DEFINE fields ==
        [witness_id |-> CertificateId(r), status |-> "CertificateChecked", violations |-> {},
         dataset_hash |-> Dataset(r).aggregate_hash,
         environment_hash |-> Digest(Environment(r)),
         run_receipt_hash |-> Digest(RunReceipt(r)),
         result_hashes |-> {ResultOf(r).sha256}, code_commit |-> "old"]
             doc == Witness(r)
  <1>1. /\ DOMAIN fields = {"witness_id", "status", "violations", "dataset_hash",
                            "environment_hash", "run_receipt_hash", "result_hashes", "code_commit"}
        /\ fields["witness_id"] = CertificateId(r)
        /\ fields["dataset_hash"] = Dataset(r)["aggregate_hash"]
        /\ fields["environment_hash"] = Digest(Environment(r))
        /\ fields["run_receipt_hash"] = Digest(RunReceipt(r))
        /\ fields["result_hashes"] = {ResultOf(r)["sha256"]}
    OBVIOUS
  <1>2. doc = Produced(r, "certifyedge", "old", fields)
    BY DEF Witness
  <1> HIDE DEF fields, doc
  <1>3. IsProduced(doc, r, "certifyedge", "old", fields)
    BY <1>1, <1>2, ProducedStates
  <1>4. Dataset(r)["aggregate_hash"] = Digest({r}) /\ ResultOf(r)["sha256"] = Digest(Payload(r))
    BY EvidenceStates
  <1>5. IsWitness(doc, r)
    BY <1>1, <1>3, <1>4 DEF IsProduced, ProducedFields, IsWitness
  <1> QED BY <1>5 DEF doc

LEMMA ComputationStates ==
    ASSUME NEW r
    PROVE  IsComputation(ComputationDocuments(r), r)
  <1> DEFINE hash      == Digest(RunReceipt(r))
             certified == Adapted(r, CertificateId(r), hash)
             bundled   == Verified(certified)
             others    == [dataset |-> Dataset(r), environment |-> Environment(r),
                           run_receipt |-> RunReceipt(r), result |-> ResultOf(r),
                           payload |-> Payload(r), witness |-> Witness(r),
                           report |-> ProfileReport(r, Computation)]
             docs      == Merge(bundled, others)
  <1>1. ComputationDocuments(r) = docs
    BY DEF ComputationDocuments
  <1>2. /\ DOMAIN others = {"dataset", "environment", "run_receipt", "result", "payload",
                            "witness", "report"}
        /\ others["dataset"] = Dataset(r) /\ others["environment"] = Environment(r)
        /\ others["run_receipt"] = RunReceipt(r) /\ others["result"] = ResultOf(r)
        /\ others["witness"] = Witness(r)
    OBVIOUS
  <1>3. /\ DOMAIN bundled = {"certified", "verification", "signed"}
        /\ bundled["certified"] = certified
        /\ IsVerification(bundled["verification"], certified, "old")
        /\ IsSigned(bundled["signed"], certified, bundled["verification"], "old")
    BY VerifiedStates
  <1>4. /\ "run" \in DOMAIN certified /\ certified["run"] = r
        /\ Carrying(certified, CertificateId(r), hash)
    BY AdaptedStates
  <1> HIDE DEF others, bundled, certified
  <1>5. /\ DOMAIN docs = DOMAIN bundled \cup DOMAIN others
        /\ \A p \in DOMAIN bundled \ DOMAIN others : docs[p] = bundled[p]
        /\ \A p \in DOMAIN others : docs[p] = others[p]
    BY MergeShape
  <1> HIDE DEF docs
  <1>6. /\ docs["certified"] = certified /\ docs["verification"] = bundled["verification"]
        /\ docs["signed"] = bundled["signed"] /\ docs["dataset"] = Dataset(r)
        /\ docs["environment"] = Environment(r) /\ docs["run_receipt"] = RunReceipt(r)
        /\ docs["result"] = ResultOf(r) /\ docs["witness"] = Witness(r)
    BY <1>2, <1>3, <1>5
  <1>7. ComputationSpec.artifacts \subseteq DOMAIN docs
    BY <1>2, <1>3, <1>5 DEF ComputationSpec
  <1>8. IsWitness(docs["witness"], r)
    BY <1>6, WitnessStates
  <1>9. \A f \in {"dataset", "environment", "run_receipt", "result", "witness", "certified"} :
           "run" \in DOMAIN docs[f] /\ docs[f]["run"] = r
    BY <1>4, <1>6, <1>8, EvidenceStates DEF IsWitness
  <1> QED BY <1>1, <1>3, <1>4, <1>6, <1>7, <1>8, <1>9, EvidenceStates DEF IsComputation

-----------------------------------------------------------------------------
(* What a directory that passes validation holds.                          *)

(* A document of the run r: a LabTrust release is made while the           *)
(* repositories move on, and signed at a commit of its own.                *)
OfRun(id, r, f, doc) ==
    IF id = LabTrust
    THEN \E h \in Heads, signer \in HeadCommits : doc = LabTrustDocuments(r, h, signer)[f]
    ELSE doc = DocumentsOf(id, r)[f]

(* The artifacts whose run a release stands for: all but the import report. *)
Judged(id) == SpecOf(id).artifacts \ {"report"}

LEMMA JudgedAre ==
    /\ Judged(LabTrust) = {"trace", "receipt", "certificate", "pending", "certified",
                           "verification", "signed"}
    /\ Judged(ToolUse) = {"tool_trace", "receipt", "certificate", "certified", "verification", "signed"}
    /\ Judged(Computation) = {"dataset", "environment", "run_receipt", "result", "witness",
                              "certified", "verification", "signed"}
  <1>1. LabTrustSpec.artifacts = {"trace", "receipt", "certificate", "pending", "certified",
                                  "verification", "signed", "report"}
    BY DEF LabTrustSpec
  <1>2. ToolUseSpec.artifacts = {"tool_trace", "receipt", "certificate", "certified",
                                 "verification", "signed", "report"}
    BY DEF ToolUseSpec
  <1>3. ComputationSpec.artifacts = {"dataset", "environment", "run_receipt", "result", "witness",
                                     "certified", "verification", "signed", "report"}
    BY DEF ComputationSpec
  <1> QED BY <1>1, <1>2, <1>3, SpecIds DEF Judged

LEMMA AtMeans ==
    ASSUME NEW doc, IsDocument(doc)
    PROVE  /\ \A p \in DOMAIN doc : At(doc, p) = doc[p]
           /\ \A p : p \notin DOMAIN doc => At(doc, p) = Absent
  BY DEF At

(* Every document of a run is one, and tells which it is of.               *)
LEMMA OfRunTagged ==
    ASSUME NEW id \in {LabTrust, ToolUse, Computation}, NEW f \in Judged(id), NEW r \in Runs,
           NEW doc, OfRun(id, r, f, doc)
    PROVE  IsDocument(doc) /\ "run" \in DOMAIN doc /\ doc["run"] = r
  <1>1. CASE id = LabTrust
    <2>1. PICK h \in Heads, signer \in HeadCommits : doc = LabTrustDocuments(r, h, signer)[f]
      BY <1>1 DEF OfRun
    <2> DEFINE docs == LabTrustDocuments(r, h, signer)
    <2>2. Distinct(docs)
      <3>1. "old" \in HeadCommits
        BY DEF HeadCommits
      <3> QED BY <3>1, SentinelAssumption
    <2>3. IsLabTrust(docs, r, h, signer)
      BY LabTrustStates
    <2> HIDE DEF docs
    <2>4. f \in {"trace", "receipt", "certificate", "pending", "certified", "verification", "signed"}
      BY <1>1, JudgedAre
    <2>5. f \in DOMAIN docs
      BY <2>3, <2>4 DEF IsLabTrust, LabTrustSpec
    <2>6. IsDocument(docs[f])
      BY <2>2, <2>5 DEF Distinct
    <2>7. "run" \in DOMAIN docs[f] /\ docs[f]["run"] = r
      BY <2>3, <2>4
      DEF IsLabTrust, IsTrace, IsReceipt, IsCertificate, IsPending, IsCertified, IsVerification,
          IsSigned, ProducedFields
    <2> QED BY <2>1, <2>6, <2>7 DEF docs
  <1>2. CASE id = ToolUse
    <2> DEFINE docs == ToolUseDocuments(r)
    <2>1. docs = DocumentsOf(ToolUse, r)
      BY IdsDiffer DEF DocumentsOf
    <2>2. Distinct(docs)
      BY <2>1, SentinelAssumption
    <2>3. IsToolUse(docs, r)
      BY ToolUseStates
    <2> HIDE DEF docs
    <2>4. f \in {"tool_trace", "receipt", "certificate", "certified", "verification", "signed"}
      BY <1>2, JudgedAre
    <2>5. f \in DOMAIN docs
      BY <2>3, <2>4 DEF IsToolUse, ToolUseSpec
    <2>6. IsDocument(docs[f])
      BY <2>2, <2>5 DEF Distinct
    <2>7. "run" \in DOMAIN docs[f] /\ docs[f]["run"] = r
      BY <2>3, <2>4 DEF IsToolUse, IsVerification, IsSigned, ProducedFields
    <2>8. doc = docs[f]
      BY <1>2, <2>1, IdsDiffer DEF OfRun
    <2> QED BY <2>6, <2>7, <2>8
  <1>3. CASE id = Computation
    <2> DEFINE docs == ComputationDocuments(r)
    <2>1. docs = DocumentsOf(Computation, r)
      BY IdsDiffer DEF DocumentsOf
    <2>2. Distinct(docs)
      BY <2>1, SentinelAssumption
    <2>3. IsComputation(docs, r)
      BY ComputationStates
    <2> HIDE DEF docs
    <2>4. f \in {"dataset", "environment", "run_receipt", "result", "witness", "certified",
                 "verification", "signed"}
      BY <1>3, JudgedAre
    <2>5. f \in DOMAIN docs
      BY <2>3, <2>4 DEF IsComputation, ComputationSpec
    <2>6. IsDocument(docs[f])
      BY <2>2, <2>5 DEF Distinct
    <2>7. "run" \in DOMAIN docs[f] /\ docs[f]["run"] = r
      BY <2>3, <2>4 DEF IsComputation, IsVerification, IsSigned, ProducedFields
    <2>8. doc = docs[f]
      BY <1>3, <2>1, IdsDiffer DEF OfRun
    <2> QED BY <2>6, <2>7, <2>8
  <1> QED BY <1>1, <1>2, <1>3

(* What every stage of the engine says when it has nothing to say.         *)
Clean(dir, spec) ==
    /\ IsDocument(Manifest(dir)) /\ ~Raises(dir, spec)
    /\ \A f \in spec.artifacts :
         /\ f \in DOMAIN dir /\ IsDocument(dir[f])
         /\ SemanticCodes(spec.id, f, dir[f]) = {}
         /\ f \in DOMAIN Listed(dir) /\ Listed(dir)[f] = Digest(dir[f])
    /\ AlignmentCodes(spec.id, dir) = {} /\ DomainCodes(spec.id, dir) = {}
    /\ FieldCodes(dir, spec) = {}

LEMMA NoCodesMeans ==
    ASSUME NEW dir, NEW spec, ProfileCodes(dir, spec) = {}
    PROVE  Clean(dir, spec)
  <1> DEFINE codes == UNION {ManifestCodes(dir, spec), PresenceCodes(dir, spec),
                     DigestCodes(dir, spec), ScanCodes(dir, spec),
                     AlignmentCodes(spec.id, dir), ValidateFileCodes(dir, spec),
                     HandoffCodes(dir, spec), FieldCodes(dir, spec),
                     DomainCodes(spec.id, dir)}
  <1>1. IsDocument(Manifest(dir)) /\ ~Raises(dir, spec) /\ codes = {}
    <2>1. Manifest(dir) # NoFile
      BY DEF ProfileCodes
    <2>2. Manifest(dir) # Garbled
      BY <2>1 DEF ProfileCodes
    <2>3. Listed(dir) # Absent
      BY <2>1, <2>2 DEF ProfileCodes
    <2>4. ProfileCodes(dir, spec) = IF Raises(dir, spec) THEN Raised ELSE codes
      BY <2>1, <2>2, <2>3 DEF ProfileCodes
    <2>5. ~Raises(dir, spec)
      BY <2>4 DEF Raised
    <2> QED BY <2>1, <2>2, <2>4, <2>5 DEF IsDocument
  <1>2. /\ PresenceCodes(dir, spec) = {} /\ DigestCodes(dir, spec) = {} /\ ScanCodes(dir, spec) = {}
        /\ AlignmentCodes(spec.id, dir) = {} /\ DomainCodes(spec.id, dir) = {}
        /\ FieldCodes(dir, spec) = {}
    BY <1>1
  <1>3. spec.artifacts \subseteq DOMAIN dir
    BY <1>2 DEF PresenceCodes, Issue
  <1>4. \A f \in spec.artifacts : f \in DOMAIN Listed(dir) /\ Listed(dir)[f] = Digest(dir[f])
    BY <1>2, <1>3 DEF DigestCodes, Issue
  <1> DEFINE present == spec.artifacts \cap DOMAIN dir
             loaded  == {f \in present : IsDocument(dir[f])}
  <1>5. /\ Issue(loaded # present, "schema_validation_failed") = {}
        /\ UNION {SemanticCodes(spec.id, f, dir[f]) \cup ForbiddenCodes(dir[f]) : f \in loaded} = {}
    BY <1>2 DEF ScanCodes
  <1>6. \A f \in spec.artifacts : IsDocument(dir[f]) /\ f \in loaded
    BY <1>3, <1>5 DEF Issue
  <1>7. \A f \in spec.artifacts : SemanticCodes(spec.id, f, dir[f]) = {}
    BY <1>5, <1>6
  <1> QED BY <1>1, <1>2, <1>3, <1>4, <1>6, <1>7 DEF Clean

LEMMA ValidatesMeans ==
    ASSUME NEW dir, Validates(dir)
    PROVE  \E id \in {LabTrust, ToolUse, Computation} : Clean(dir, SpecOf(id))
  <1> DEFINE id == DetectProfile(dir)
  <1>1. ValidateRelease(dir) = {}
    BY DEF Validates
  <1>2. id # Absent
    BY <1>1 DEF ValidateRelease
  <1>3. id \in {LabTrust, ToolUse, Computation}
    BY <1>1, <1>2, SpecIdsAre DEF ValidateRelease
  <1>4. ProfileCodes(dir, SpecOf(id)) = {}
    BY <1>1, <1>2, <1>3, SpecIdsAre DEF ValidateRelease
  <1> HIDE DEF id
  <1> QED BY <1>3, <1>4, NoCodesMeans

(* What the documents of a LabTrust release say of the trace hash.         *)
HashStated(doc, f, hash) ==
    /\ f \in {"trace", "receipt", "certificate"} => At(doc, "trace_hash") = hash
    /\ f = "certified" => /\ At(doc, "certificates/0") = Object
                          /\ At(doc, "certificates/0/trace_hash") = hash
    /\ f = "verification" => /\ At(doc, "verified_input") = Object
                             /\ At(doc, "verified_input/trace_hash") = hash
    /\ f = "signed" => /\ At(doc, "verification_result/verified_input") = Object
                       /\ At(doc, "verification_result/verified_input/trace_hash") = hash

LEMMA LabTrustHashes ==
    ASSUME NEW f \in Judged(LabTrust), NEW r \in Runs, NEW doc, OfRun(LabTrust, r, f, doc)
    PROVE  HashStated(doc, f, <<"trace", r>>)
  <1> DEFINE hash == <<"trace", r>>
  <1>1. PICK h \in Heads, signer \in HeadCommits : doc = LabTrustDocuments(r, h, signer)[f]
    BY DEF OfRun
  <1> DEFINE docs == LabTrustDocuments(r, h, signer)
  <1>2. IsLabTrust(docs, r, h, signer)
    BY LabTrustStates
  <1>3. IsDocument(doc)
    BY OfRunTagged
  <1> HIDE DEF docs, hash
  <1>4. f \in {"trace", "receipt", "certificate"} => "trace_hash" \in DOMAIN docs[f] /\ docs[f]["trace_hash"] = hash
    BY <1>2 DEF IsLabTrust, IsTrace, IsReceipt, IsCertificate, hash
  <1>5. /\ {"certificates/0", "certificates/0/trace_hash"} \subseteq DOMAIN docs["certified"]
        /\ docs["certified"]["certificates/0"] = Object
        /\ docs["certified"]["certificates/0/trace_hash"] = hash
    BY <1>2 DEF IsLabTrust, IsCertified, Carrying, BundleFields, hash
  <1>6. /\ {"verified_input", "verified_input/trace_hash"} \subseteq DOMAIN docs["verification"]
        /\ docs["verification"]["verified_input"] = Object
        /\ docs["verification"]["verified_input/trace_hash"] = hash
    BY <1>2, <1>5 DEF IsLabTrust, IsVerification, ResultFields
  <1>7. /\ {"verification_result/verified_input", "verification_result/verified_input/trace_hash"}
             \subseteq DOMAIN docs["signed"]
        /\ docs["signed"]["verification_result/verified_input"] = Object
        /\ docs["signed"]["verification_result/verified_input/trace_hash"] = hash
    BY <1>2, <1>6 DEF IsLabTrust, IsSigned, EmbeddedFields
  <1>8. doc = docs[f]
    BY <1>1 DEF docs
  <1>9. HashStated(doc, f, hash)
    BY <1>3, <1>4, <1>5, <1>6, <1>7, <1>8, AtMeans DEF HashStated
  <1> QED BY <1>9 DEF hash

(* The stated trace hashes agree.                                          *)
LEMMA LabTrustAligned ==
    ASSUME NEW dir, LabTrustAlignment(dir) = {},
           \A f \in {"trace", "receipt", "certificate"} : IsDocument(File(dir, f)),
           NEW hash, hash = At(File(dir, "trace"), "trace_hash")
    PROVE  /\ At(File(dir, "receipt"), "trace_hash") = hash
           /\ At(File(dir, "certificate"), "trace_hash") = hash
           /\ At(File(dir, "certified"), "certificates/0") = Object =>
                At(File(dir, "certified"), "certificates/0/trace_hash") = hash
           /\ (hash # Absent /\ At(File(dir, "verification"), "verified_input") = Object) =>
                At(File(dir, "verification"), "verified_input/trace_hash") = hash
           /\ (hash # Absent /\ At(File(dir, "signed"), "verification_result/verified_input") = Object) =>
                At(File(dir, "signed"), "verification_result/verified_input/trace_hash") = hash
  <1> DEFINE Stated(f, pointer) == At(File(dir, f), pointer)
             bundled ==
               {<<"certified", "certificates/0", "certificates/0/trace_hash">>,
                <<"certified", "runtime_receipts/0", "runtime_receipts/0/trace_hash">>,
                <<"signed", "science_claim_bundle/certificates/0",
                  "science_claim_bundle/certificates/0/trace_hash">>,
                <<"signed", "science_claim_bundle/runtime_receipts/0",
                  "science_claim_bundle/runtime_receipts/0/trace_hash">>}
             verified ==
               {<<"verification", "verified_input", "verified_input/trace_hash">>,
                <<"signed", "verification_result/verified_input",
                  "verification_result/verified_input/trace_hash">>}
  <1>1. ~ \/ hash # Stated("receipt", "trace_hash")
          \/ hash # Stated("certificate", "trace_hash")
          \/ \E s \in bundled : /\ Stated(s[1], s[2]) = Object
                                /\ Stated(s[1], s[3]) # hash
          \/ \E s \in verified : /\ hash # Absent
                                 /\ Stated(s[1], s[2]) = Object
                                 /\ Stated(s[1], s[3]) # hash
    BY DEF LabTrustAlignment, Issue
  <1> DEFINE s1 == <<"certified", "certificates/0", "certificates/0/trace_hash">>
             s2 == <<"verification", "verified_input", "verified_input/trace_hash">>
             s3 == <<"signed", "verification_result/verified_input",
                     "verification_result/verified_input/trace_hash">>
  <1>2. s1 \in bundled /\ s2 \in verified /\ s3 \in verified
    OBVIOUS
  <1> HIDE DEF bundled, verified, Stated
  <1>3. /\ Stated("certified", "certificates/0") = Object =>
             Stated("certified", "certificates/0/trace_hash") = hash
        /\ (hash # Absent /\ Stated("verification", "verified_input") = Object) =>
             Stated("verification", "verified_input/trace_hash") = hash
        /\ (hash # Absent /\ Stated("signed", "verification_result/verified_input") = Object) =>
             Stated("signed", "verification_result/verified_input/trace_hash") = hash
    BY <1>1, <1>2
  <1> QED BY <1>1, <1>3 DEF Stated

(* A directory with documents of runs alone, each of any of them.          *)
Accompanied(dir, id) ==
    /\ "handoff_pf" \notin DOMAIN dir
    /\ "manifest_v0" \in DOMAIN dir =>
         /\ "certified" \in DOMAIN dir
         /\ dir["manifest_v0"] = ManifestV0For(dir, SpecOf(id), {"result_v0"})

Single(dir, id) ==
    \A other \in {LabTrust, ToolUse, Computation} \ {id} : FirstEvidence(other) \notin DOMAIN dir

Sound(dir, id) ==
    /\ Single(dir, id)
    /\ \A f \in Judged(id) \cap DOMAIN dir : \E r \in Runs : OfRun(id, r, f, dir[f])
    /\ id # LabTrust => Accompanied(dir, id)

(* It is of its own profile that it validates.                             *)
LEMMA SingleProfile ==
    ASSUME NEW dir, NEW id \in {LabTrust, ToolUse, Computation}, Single(dir, id), Validates(dir)
    PROVE  Clean(dir, SpecOf(id))
  <1>1. PICK other \in {LabTrust, ToolUse, Computation} : Clean(dir, SpecOf(other))
    BY ValidatesMeans
  <1>2. FirstEvidence(other) \in SpecOf(other).artifacts
    <2>1. "trace" \in LabTrustSpec.artifacts
      BY DEF LabTrustSpec
    <2>2. "tool_trace" \in ToolUseSpec.artifacts
      BY DEF ToolUseSpec
    <2>3. "dataset" \in ComputationSpec.artifacts
      BY DEF ComputationSpec
    <2> QED BY <2>1, <2>2, <2>3, SpecIds, IdsDiffer DEF FirstEvidence
  <1>3. FirstEvidence(other) \in DOMAIN dir
    BY <1>1, <1>2 DEF Clean
  <1> QED BY <1>1, <1>3 DEF Single

(* The documents are of one run where each tells of it.                    *)
AllOf(dir, files, r) == \A f \in files : dir[f]["run"] = r

LEMMA AllOfOne ==
    ASSUME NEW dir, NEW files, NEW r, AllOf(dir, files, r)
    PROVE  OneRun(dir, files)
  BY DEF AllOf, OneRun

LEMMA LabTrustOneRun ==
    ASSUME NEW dir, Sound(dir, LabTrust), Clean(dir, LabTrustSpec)
    PROVE  OneRun(dir, {"trace", "receipt", "certificate", "certified", "verification", "signed"})
  <1> DEFINE tied == {"trace", "receipt", "certificate", "certified", "verification", "signed"}
  <1>1. \A f \in Judged(LabTrust) : f \in DOMAIN dir /\ IsDocument(dir[f]) /\ File(dir, f) = dir[f]
    BY SpecIds DEF Clean, Judged, File
  <1>2. tied \subseteq Judged(LabTrust)
    BY JudgedAre
  <1> HIDE DEF tied
  <1>3. PICK r \in Runs : OfRun(LabTrust, r, "trace", dir["trace"])
    BY <1>1, <1>2 DEF Sound, tied
  <1> DEFINE hash == <<"trace", r>>
  <1>4. At(File(dir, "trace"), "trace_hash") = hash
    BY <1>1, <1>2, <1>3, LabTrustHashes DEF HashStated, tied
  <1>5. hash # Absent
    BY <1>3, SentinelAssumption DEF LabTrace
  <1>6. LabTrustAlignment(dir) = {}
    BY SpecIds, IdsDiffer DEF Clean, AlignmentCodes
  <1> HIDE DEF hash
  <1>7. ASSUME NEW f \in tied PROVE dir[f]["run"] = r
    <2>1. PICK q \in Runs : OfRun(LabTrust, q, f, dir[f])
      BY <1>1, <1>2 DEF Sound
    <2> DEFINE own == <<"trace", q>>
    <2>2. HashStated(dir[f], f, own)
      BY <1>2, <2>1, LabTrustHashes
    <2> HIDE DEF own
    <2>3. own = hash
      <3>1. f \in {"trace", "receipt", "certificate", "certified", "verification", "signed"}
        BY DEF tied
      <3>2. \A g \in {"trace", "receipt", "certificate"} : IsDocument(File(dir, g))
        BY <1>1, <1>2 DEF tied
      <3>3. File(dir, f) = dir[f]
        BY <1>1, <1>2
      <3> QED BY <3>1, <3>2, <3>3, <1>4, <1>5, <1>6, <2>2, LabTrustAligned DEF HashStated
    <2>4. q = r
      BY <2>3 DEF own, hash
    <2> QED BY <1>2, <2>1, <2>4, OfRunTagged
  <1> QED BY <1>7, AllOfOne DEF AllOf, tied

(* The documents that the later profiles have in common.                   *)
LEMMA LaterStates ==
    ASSUME NEW id \in {ToolUse, Computation}, NEW r \in Runs, NEW docs, docs = DocumentsOf(id, r)
    PROVE  /\ IsDocument(docs["certified"]) /\ docs["certified"]["run"] = r
           /\ At(docs["certified"], "certificates/0/certificate_id") = CertificateId(r)
           /\ Digest(docs["certified"]) # Absent
           /\ At(docs["verification"], "verified_input") = Object
           /\ At(docs["verification"], "verified_input/bundle_hash") = Digest(docs["certified"])
           /\ At(docs["signed"], "signed_input_bundle_hash") = Digest(docs["certified"])
  <1> DEFINE Alike == /\ docs["certified"]["run"] = r
                      /\ "certificates/0/certificate_id" \in DOMAIN docs["certified"]
                      /\ docs["certified"]["certificates/0/certificate_id"] = CertificateId(r)
                      /\ IsVerification(docs["verification"], docs["certified"], "old")
                      /\ IsSigned(docs["signed"], docs["certified"], docs["verification"], "old")
  <1>1. Alike /\ {"certified", "verification", "signed"} \subseteq DOMAIN docs
    <2>1. CASE id = ToolUse
      <3>1. IsToolUse(docs, r)
        BY <2>1, IdsDiffer, ToolUseStates DEF DocumentsOf
      <3> QED BY <3>1 DEF IsToolUse, ToolUseSpec, Carrying, BundleFields
    <2>2. CASE id = Computation
      <3>1. IsComputation(docs, r)
        BY <2>2, IdsDiffer, ComputationStates DEF DocumentsOf
      <3> QED BY <3>1 DEF IsComputation, ComputationSpec, Carrying, BundleFields
    <2> QED BY <2>1, <2>2
  <1>2. Distinct(docs)
    BY SentinelAssumption
  <1>3. /\ IsDocument(docs["certified"]) /\ IsDocument(docs["verification"])
        /\ IsDocument(docs["signed"]) /\ Digest(docs["certified"]) # Absent
    BY <1>1, <1>2 DEF Distinct
  <1>4. /\ {"verified_input", "verified_input/bundle_hash"} \subseteq DOMAIN docs["verification"]
        /\ docs["verification"]["verified_input"] = Object
        /\ docs["verification"]["verified_input/bundle_hash"] = Digest(docs["certified"])
    BY <1>1 DEF IsVerification, ResultFields
  <1>5. /\ "signed_input_bundle_hash" \in DOMAIN docs["signed"]
        /\ docs["signed"]["signed_input_bundle_hash"] = Digest(docs["certified"])
    BY <1>1, <1>4 DEF IsSigned, SigningFields
  <1> QED BY <1>1, <1>3, <1>4, <1>5, AtMeans

(* The bundle of a directory is what the directory says it is.             *)
LEMMA IdentityOwn ==
    ASSUME NEW dir, NEW id, Accompanied(dir, id), HandoffIsOwn(dir), "certified" \in DOMAIN dir,
           "certified" \in DOMAIN Listed(dir), Listed(dir)["certified"] = Digest(dir["certified"])
    PROVE  BundleIdentity(dir) = Digest(dir["certified"])
  <1> DEFINE v0     == File(dir, "manifest_v0")
             digest == Digest(dir["certified"])
             root   == At(v0, "chain_root/certified_bundle_hash")
             Named(manifest) == IF "certified" \in DOMAIN At(manifest, "artifacts")
                                THEN At(manifest, "artifacts")["certified"] ELSE Absent
             OfManifest(f) == IF At(File(dir, f), "artifacts") = Absent THEN Absent
                              ELSE Named(File(dir, f))
             one   == At(File(dir, "handoff_verifier"), "invariants/certified_bundle_hash")
             two   == At(File(dir, "handoff_pf"), "invariants/certified_bundle_hash")
             three == IF root = At(File(dir, "verification"), "verified_input/bundle_hash")
                      THEN root ELSE Absent
             last  == IF "certified" \in DOMAIN dir THEN digest ELSE Absent
  <1>1. BundleIdentity(dir) =
          OrElse(one, OrElse(two, OrElse(three, OrElse(OfManifest("manifest_v0"),
            OrElse(OfManifest("manifest"), last)))))
    BY DEF BundleIdentity
  <1>2. one \in {Absent, digest}
    BY DEF HandoffIsOwn
  <1>3. two = Absent
    BY DEF Accompanied, File, At, IsDocument
  <1>4. root \in {Absent, digest} /\ OfManifest("manifest_v0") \in {Absent, digest}
    <2> DEFINE spec  == SpecOf(id)
               named == [certified |-> digest]
               base  == [workflow_profile_id |-> spec.id, release_id |-> "release",
                         fixtures |-> {"result_v0"}, artifacts |-> named]
               made  == With(base, "chain_root/certified_bundle_hash", digest)
    <2>1. "manifest_v0" \in DOMAIN dir => dir["manifest_v0"] = made
      BY DEF Accompanied, ManifestV0For
    <2>2. base["artifacts"] = named /\ "artifacts" \in DOMAIN base
      OBVIOUS
    <2>3. "certified" \in DOMAIN named /\ named["certified"] = digest
      OBVIOUS
    <2> HIDE DEF base, named, digest
    <2>4. /\ made["chain_root/certified_bundle_hash"] = digest
          /\ "artifacts" \in DOMAIN base => made["artifacts"] = base["artifacts"]
      BY DEF With
    <2> HIDE DEF made
    <2>5. made["artifacts"] = named
      BY <2>2, <2>4
    <2>6. v0 \in {NoFile, made}
      BY <2>1 DEF File
    <2>7. At(v0, "artifacts") \in {Absent, named}
      BY <2>5, <2>6 DEF At, IsDocument
    <2>8. root \in {Absent, digest}
      BY <2>4, <2>6 DEF At, IsDocument
    <2> HIDE DEF v0, root
    <2>9. OfManifest("manifest_v0") \in {Absent, digest}
      BY <2>3, <2>7 DEF v0
    <2> QED BY <2>8, <2>9
  <1>5. OfManifest("manifest") \in {Absent, digest}
    BY DEF Listed, Manifest
  <1>6. last = digest
    OBVIOUS
  <1>7. three \in {Absent, digest}
    BY <1>4
  <1> HIDE DEF one, two, three, last, OfManifest, digest
  <1> QED BY <1>1, <1>2, <1>3, <1>4, <1>5, <1>6, <1>7 DEF OrElse, digest

(* What binds the bundle to the certificate, and the verification to it.   *)
LEMMA LaterBinds ==
    ASSUME NEW dir, NEW spec, NEW producer, NEW produced, NEW certificate, NEW id,
           IsLater(spec, producer, produced, certificate, id), FieldCodes(dir, spec) = {},
           NEW stated, stated = At(File(dir, certificate), id)
    PROVE  /\ stated # Absent => At(File(dir, "certified"), "certificates/0/certificate_id") = stated
           /\ (/\ BundleIdentity(dir) # Absent /\ IsDocument(File(dir, "verification"))
               /\ At(File(dir, "verification"), "verified_input") = Object
               /\ At(File(dir, "verification"), "verified_input/bundle_hash") # Absent) =>
                At(File(dir, "verification"), "verified_input/bundle_hash") = BundleIdentity(dir)
  <1>1. CertificateIdCodes(dir, spec) = {} /\ IdentityCodes(dir, spec) = {}
    BY FieldCodesAre
  <1> DEFINE carries == Carries(certificate, id, "certified", "certificates/0/certificate_id")
  <1>2. carries \in spec.carried
    BY DEF IsLater, CarriedId
  <1>3. /\ carries.source = certificate /\ carries.id = id /\ carries.carrier = "certified"
        /\ carries.at = "certificates/0/certificate_id"
    BY DEF Carries
  <1> HIDE DEF carries
  <1>4. ~ /\ At(File(dir, carries.source), carries.id) # Absent
          /\ ~CarriesId(File(dir, carries.carrier), carries.at, At(File(dir, carries.source), carries.id))
    BY <1>1, <1>2, IdsFound
  <1>5. stated # Absent => At(File(dir, "certified"), "certificates/0/certificate_id") = stated
    BY <1>3, <1>4 DEF CarriesId
  <1>6. BundleHash \in spec.identities
    BY DEF IsLater
  <1>7. ~Misstated(dir, BundleHash)
    BY <1>1, <1>6, IdentitiesFound
  <1>8. /\ BundleHash.file = "verification" /\ BundleHash.parent = "verified_input"
        /\ BundleHash.at = "verified_input/bundle_hash"
    BY DEF BundleHash, Identity
  <1> QED BY <1>5, <1>7, <1>8 DEF Misstated

LEMMA LaterBundleOneRun ==
    ASSUME NEW id \in {ToolUse, Computation}, NEW dir, Sound(dir, id), Clean(dir, SpecOf(id)),
           NEW r \in Runs, OfRun(id, r, "certified", dir["certified"])
    PROVE  /\ LET certificate == IF id = ToolUse THEN "certificate" ELSE "witness"
                  pointer     == IF id = ToolUse THEN "certificate_id" ELSE "witness_id"
              IN  \A q \in Runs : At(dir[certificate], pointer) = CertificateId(q) => q = r
           /\ HandoffIsOwn(dir) =>
                \A q \in Runs : OfRun(id, q, "verification", dir["verification"]) => q = r
  <1> DEFINE certificate == IF id = ToolUse THEN "certificate" ELSE "witness"
             pointer     == IF id = ToolUse THEN "certificate_id" ELSE "witness_id"
             spec        == SpecOf(id)
             docs        == DocumentsOf(id, r)
  <1>1. \E producer, produced : IsLater(spec, producer, produced, certificate, pointer)
    BY LaterSpecs, SpecIds, IdsDiffer
  <1>2. {certificate, "certified", "verification"} \subseteq spec.artifacts
    <2>1. {"certificate", "certified", "verification"} \subseteq ToolUseSpec.artifacts
      BY DEF ToolUseSpec
    <2>2. {"witness", "certified", "verification"} \subseteq ComputationSpec.artifacts
      BY DEF ComputationSpec
    <2> QED BY <2>1, <2>2, SpecIds, IdsDiffer
  <1>3. FieldCodes(dir, spec) = {}
    BY DEF Clean
  <1> HIDE DEF spec, certificate, pointer, docs
  <1>4. \A f \in {certificate, "certified", "verification"} :
           f \in DOMAIN dir /\ IsDocument(dir[f]) /\ File(dir, f) = dir[f]
    BY <1>2 DEF Clean, File, spec
  <1>5. dir["certified"] = docs["certified"]
    BY IdsDiffer DEF OfRun, docs
  <1>6. /\ docs["certified"]["run"] = r
        /\ At(docs["certified"], "certificates/0/certificate_id") = CertificateId(r)
        /\ Digest(docs["certified"]) # Absent
    BY LaterStates DEF docs
  <1>7. ASSUME NEW q \in Runs, At(dir[certificate], pointer) = CertificateId(q) PROVE q = r
    <2>1. CertificateId(q) # Absent
      BY SentinelAssumption
    <2>2. CertificateId(r) = CertificateId(q)
      BY <1>1, <1>3, <1>4, <1>5, <1>6, <1>7, <2>1, LaterBinds
    <2> QED BY <2>2, CertificateIdsDiffer
  <1>8. ASSUME HandoffIsOwn(dir), NEW q \in Runs, OfRun(id, q, "verification", dir["verification"])
        PROVE  q = r
    <2>1. BundleIdentity(dir) = Digest(dir["certified"])
      <3>1. "certified" \in DOMAIN Listed(dir) /\ Listed(dir)["certified"] = Digest(dir["certified"])
        BY <1>2 DEF Clean, spec
      <3>2. Accompanied(dir, id)
        BY IdsDiffer DEF Sound
      <3> QED BY <1>4, <1>8, <3>1, <3>2, IdentityOwn
    <2> DEFINE others == DocumentsOf(id, q)
    <2>2. dir["verification"] = others["verification"]
      BY <1>8, IdsDiffer DEF OfRun
    <2>3. /\ others["certified"]["run"] = q /\ Digest(others["certified"]) # Absent
          /\ At(others["verification"], "verified_input") = Object
          /\ At(others["verification"], "verified_input/bundle_hash") = Digest(others["certified"])
      BY LaterStates
    <2> HIDE DEF others
    <2>4. Digest(others["certified"]) = Digest(docs["certified"])
      BY <1>1, <1>3, <1>4, <1>5, <1>6, <2>1, <2>2, <2>3, LaterBinds
    <2> QED BY <1>6, <2>3, <2>4, DigestFixes
  <1> QED BY <1>7, <1>8 DEF certificate, pointer

(* Evidence, certificate and certified bundle are of the run r, and with a  *)
(* handoff of this bundle the verification is.                             *)
TiedTo(dir, id, r) ==
    /\ OfRun(id, r, "certified", dir["certified"])
    /\ AllOf(dir, Evidence(id) \cup {"certified"}, r)
    /\ HandoffIsOwn(dir) => dir["verification"]["run"] = r

Held(dir, id) ==
    \A f \in Judged(id) : /\ f \in DOMAIN dir /\ IsDocument(dir[f]) /\ File(dir, f) = dir[f]
                          /\ \E r \in Runs : OfRun(id, r, f, dir[f])

LEMMA SoundHeld ==
    ASSUME NEW dir, NEW id, Sound(dir, id), Clean(dir, SpecOf(id))
    PROVE  Held(dir, id)
  <1>1. \A f \in Judged(id) : f \in DOMAIN dir /\ IsDocument(dir[f]) /\ File(dir, f) = dir[f]
    BY DEF Clean, Judged, File
  <1> QED BY <1>1 DEF Sound, Held

LEMMA ToolStates ==
    ASSUME NEW f \in {"tool_trace", "receipt", "certificate"}, NEW r \in Runs, NEW doc,
           OfRun(ToolUse, r, f, doc)
    PROVE  /\ At(doc, "trace_hash") = ToolTrace(r)["trace_hash"]
           /\ f = "certificate" => At(doc, "certificate_id") = CertificateId(r)
  <1> DEFINE docs == ToolUseDocuments(r)
  <1>1. doc = docs[f]
    BY IdsDiffer DEF OfRun, DocumentsOf
  <1>2. IsToolUse(docs, r)
    BY ToolUseStates
  <1>3. IsDocument(doc)
    <2>1. f \in Judged(ToolUse)
      BY JudgedAre
    <2> QED BY <2>1, OfRunTagged
  <1> HIDE DEF docs
  <1> QED BY <1>1, <1>2, <1>3, AtMeans DEF IsToolUse

LEMMA ToolUseOneRun ==
    ASSUME NEW dir, Sound(dir, ToolUse), Clean(dir, ToolUseSpec)
    PROVE  \E r \in Runs : TiedTo(dir, ToolUse, r)
  <1>1. SpecOf(ToolUse) = ToolUseSpec
    BY SpecIds
  <1>2. Held(dir, ToolUse)
    BY <1>1, SoundHeld
  <1> DEFINE tied == {"tool_trace", "receipt", "certificate", "certified", "verification"}
  <1>3. tied \subseteq Judged(ToolUse)
    BY JudgedAre
  <1>4. \A f \in tied : /\ f \in DOMAIN dir /\ IsDocument(dir[f]) /\ File(dir, f) = dir[f]
                        /\ \E r \in Runs : OfRun(ToolUse, r, f, dir[f])
    BY <1>2, <1>3 DEF Held
  <1>5. PICK r \in Runs : OfRun(ToolUse, r, "certified", dir["certified"])
    BY <1>4
  <1> DEFINE hash == At(File(dir, "tool_trace"), "trace_hash")
  <1>6. hash = At(File(dir, "receipt"), "trace_hash") /\ hash = At(File(dir, "certificate"), "trace_hash")
    <2>1. ToolUseAlignment(dir) = {}
      BY IdsDiffer DEF Clean, AlignmentCodes, ToolUseSpec
    <2> QED BY <1>4, <2>1 DEF ToolUseAlignment, Issue
  <1> HIDE DEF hash
  <1>7. dir["certificate"]["run"] = r /\ OfRun(ToolUse, r, "certificate", dir["certificate"])
    <2>1. PICK q \in Runs : OfRun(ToolUse, q, "certificate", dir["certificate"])
      BY <1>4
    <2>2. At(dir["certificate"], "certificate_id") = CertificateId(q)
      BY <2>1, ToolStates
    <2>3. q = r
      BY <1>1, <1>5, <2>2, LaterBundleOneRun
    <2> QED BY <1>3, <2>1, <2>3, OfRunTagged
  <1>8. ASSUME NEW f \in {"tool_trace", "receipt", "certificate"} PROVE dir[f]["run"] = r
    <2>1. PICK q \in Runs : OfRun(ToolUse, q, f, dir[f])
      BY <1>4
    <2>2. At(dir[f], "trace_hash") = ToolTrace(q)["trace_hash"]
      BY <2>1, ToolStates
    <2>3. At(dir["certificate"], "trace_hash") = ToolTrace(r)["trace_hash"]
      BY <1>7, ToolStates
    <2>4. At(dir[f], "trace_hash") = At(dir["certificate"], "trace_hash")
      BY <1>4, <1>6 DEF hash
    <2>5. q = r
      BY <2>2, <2>3, <2>4, ToolHashesDiffer
    <2> QED BY <1>3, <2>1, <2>5, OfRunTagged
  <1>9. dir["certified"]["run"] = r
    BY <1>3, <1>5, OfRunTagged
  <1>10. ASSUME HandoffIsOwn(dir) PROVE dir["verification"]["run"] = r
    <2>1. PICK q \in Runs : OfRun(ToolUse, q, "verification", dir["verification"])
      BY <1>4
    <2>2. q = r
      BY <1>1, <1>5, <1>10, <2>1, LaterBundleOneRun
    <2> QED BY <1>3, <2>1, <2>2, OfRunTagged
  <1>11. Evidence(ToolUse) = {"tool_trace", "receipt", "certificate"}
    BY IdsDiffer DEF Evidence
  <1> QED BY <1>5, <1>8, <1>9, <1>10, <1>11 DEF TiedTo, AllOf

LEMMA ComputationHeldStates ==
    ASSUME NEW f \in {"dataset", "environment", "run_receipt", "result", "witness"},
           NEW r \in Runs, NEW doc, OfRun(Computation, r, f, doc)
    PROVE  /\ f = "dataset" => At(doc, "aggregate_hash") = Digest({r})
           /\ f = "environment" => doc = Environment(r)
           /\ f = "run_receipt" => doc = RunReceipt(r)
           /\ f = "result" => At(doc, "sha256") = Digest(Payload(r))
           /\ f = "witness" =>
                /\ At(doc, "witness_id") = CertificateId(r)
                /\ At(doc, "dataset_hash") = Digest({r})
                /\ At(doc, "environment_hash") = Digest(Environment(r))
                /\ At(doc, "run_receipt_hash") = Digest(RunReceipt(r))
                /\ At(doc, "result_hashes") = {Digest(Payload(r))}
  <1> DEFINE docs == ComputationDocuments(r)
  <1>1. doc = docs[f]
    BY IdsDiffer DEF OfRun, DocumentsOf
  <1>2. IsComputation(docs, r)
    BY ComputationStates
  <1>3. IsDocument(doc)
    <2>1. f \in Judged(Computation)
      BY JudgedAre
    <2> QED BY <2>1, OfRunTagged
  <1> HIDE DEF docs
  <1>4. f \in {"dataset", "environment", "run_receipt", "result"} =>
          /\ f = "dataset" => At(doc, "aggregate_hash") = Digest({r})
          /\ f = "environment" => doc = Environment(r)
          /\ f = "run_receipt" => doc = RunReceipt(r)
          /\ f = "result" => At(doc, "sha256") = Digest(Payload(r))
    BY <1>1, <1>2, <1>3, AtMeans DEF IsComputation
  <1>5. f = "witness" => IsWitness(doc, r)
    BY <1>1, <1>2 DEF IsComputation
  <1>6. f = "witness" =>
          /\ At(doc, "witness_id") = CertificateId(r)
          /\ At(doc, "dataset_hash") = Digest({r})
          /\ At(doc, "environment_hash") = Digest(Environment(r))
          /\ At(doc, "run_receipt_hash") = Digest(RunReceipt(r))
          /\ At(doc, "result_hashes") = {Digest(Payload(r))}
    BY <1>3, <1>5, AtMeans DEF IsWitness
  <1> QED BY <1>4, <1>6

(* A checked witness that is aligned states what the receipts and the      *)
(* result are.                                                             *)
LEMMA WitnessAligned ==
    ASSUME NEW dir, ComputationAlignment(dir) = {}, WitnessCodes(dir) = {},
           \A f \in {"dataset", "environment", "run_receipt", "result", "witness"} :
              IsDocument(File(dir, f))
    PROVE  LET witness == File(dir, "witness")
           IN  /\ At(witness, "dataset_hash") = At(File(dir, "dataset"), "aggregate_hash")
               /\ At(witness, "environment_hash") = Digest(dir["environment"])
               /\ At(witness, "run_receipt_hash") = Digest(dir["run_receipt"])
               /\ At(witness, "result_hashes") = {At(File(dir, "result"), "sha256")}
  <1>1. At(File(dir, "witness"), "status") = "CertificateChecked"
    BY DEF WitnessCodes
  <1>2. \A f \in ComputationSpec.reads : IsDocument(File(dir, f))
    BY DEF ComputationSpec
  <1> QED BY <1>1, <1>2 DEF ComputationAlignment, Issue

LEMMA ComputationOneRun ==
    ASSUME NEW dir, Sound(dir, Computation), Clean(dir, ComputationSpec)
    PROVE  \E r \in Runs : TiedTo(dir, Computation, r)
  <1>1. SpecOf(Computation) = ComputationSpec
    BY SpecIds
  <1>2. Held(dir, Computation)
    BY <1>1, SoundHeld
  <1> DEFINE judged == {"dataset", "environment", "run_receipt", "result", "witness",
                        "certified", "verification"}
  <1>3. judged \subseteq Judged(Computation)
    BY JudgedAre
  <1>4. \A f \in judged : /\ f \in DOMAIN dir /\ IsDocument(dir[f]) /\ File(dir, f) = dir[f]
                          /\ \E r \in Runs : OfRun(Computation, r, f, dir[f])
    BY <1>2, <1>3 DEF Held
  <1>5. PICK r \in Runs : OfRun(Computation, r, "certified", dir["certified"])
    BY <1>4
  <1>6. /\ At(dir["witness"], "dataset_hash") = At(dir["dataset"], "aggregate_hash")
        /\ At(dir["witness"], "environment_hash") = Digest(dir["environment"])
        /\ At(dir["witness"], "run_receipt_hash") = Digest(dir["run_receipt"])
        /\ At(dir["witness"], "result_hashes") = {At(dir["result"], "sha256")}
    <2>1. ComputationSpec.id = Computation
      BY DEF ComputationSpec
    <2>2. ComputationAlignment(dir) = {} /\ WitnessCodes(dir) = {}
      BY <2>1, IdsDiffer DEF Clean, AlignmentCodes, DomainCodes
    <2> QED BY <1>4, <2>2, WitnessAligned
  <1>7. OfRun(Computation, r, "witness", dir["witness"])
    <2>1. PICK q \in Runs : OfRun(Computation, q, "witness", dir["witness"])
      BY <1>4
    <2>2. At(dir["witness"], "witness_id") = CertificateId(q)
      BY <2>1, ComputationHeldStates
    <2>3. q = r
      BY <1>1, <1>5, <2>2, IdsDiffer, LaterBundleOneRun
    <2> QED BY <2>1, <2>3
  <1> DEFINE payload == Payload(r)
  <1>8. /\ At(dir["witness"], "dataset_hash") = Digest({r})
        /\ At(dir["witness"], "environment_hash") = Digest(Environment(r))
        /\ At(dir["witness"], "run_receipt_hash") = Digest(RunReceipt(r))
        /\ At(dir["witness"], "result_hashes") = {Digest(payload)}
    BY <1>7, ComputationHeldStates, ZenonT(60)
  <1> HIDE DEF payload
  <1>9. dir["dataset"]["run"] = r
    <2>1. PICK q \in Runs : OfRun(Computation, q, "dataset", dir["dataset"])
      BY <1>4
    <2>2. At(dir["dataset"], "aggregate_hash") = Digest({q})
      BY <2>1, ComputationHeldStates
    <2>3. {q} = {r}
      BY <1>6, <1>8, <2>2, DigestFixes
    <2> QED BY <1>3, <2>1, <2>3, OfRunTagged
  <1>10. dir["environment"]["run"] = r
    <2>1. dir["environment"] = Environment(r)
      BY <1>6, <1>8, DigestFixes
    <2> QED BY <2>1, EvidenceStates
  <1>11. dir["run_receipt"]["run"] = r
    <2>1. dir["run_receipt"] = RunReceipt(r)
      BY <1>6, <1>8, DigestFixes
    <2> QED BY <2>1, EvidenceStates
  <1>12. dir["result"]["run"] = r
    <2>1. PICK q \in Runs : OfRun(Computation, q, "result", dir["result"])
      BY <1>4
    <2> DEFINE bytes == Payload(q)
    <2>2. At(dir["result"], "sha256") = Digest(bytes)
      BY <2>1, ComputationHeldStates
    <2> HIDE DEF bytes
    <2>3. {Digest(bytes)} = {Digest(payload)}
      BY <1>6, <1>8, <2>2
    <2>4. bytes = payload
      BY <2>3, DigestFixes
    <2>5. q = r
      BY <2>4 DEF bytes, payload, Payload
    <2> QED BY <1>3, <2>1, <2>5, OfRunTagged
  <1>13. dir["witness"]["run"] = r /\ dir["certified"]["run"] = r
    BY <1>3, <1>5, <1>7, OfRunTagged
  <1>14. ASSUME HandoffIsOwn(dir) PROVE dir["verification"]["run"] = r
    <2>1. PICK q \in Runs : OfRun(Computation, q, "verification", dir["verification"])
      BY <1>4
    <2>2. q = r
      BY <1>1, <1>5, <1>14, <2>1, LaterBundleOneRun
    <2> QED BY <1>3, <2>1, <2>2, OfRunTagged
  <1>15. Evidence(Computation) = {"dataset", "environment", "run_receipt", "result", "witness"}
    BY IdsDiffer DEF Evidence
  <1>16. AllOf(dir, Evidence(Computation) \cup {"certified"}, r)
    BY <1>9, <1>10, <1>11, <1>12, <1>13, <1>15 DEF AllOf
  <1> QED BY <1>5, <1>14, <1>16 DEF TiedTo

(* One document at least is garbled, or all are of the first run.          *)
FirstOrGarbled(dir, id) ==
    /\ Single(dir, id)
    /\ \A f \in Judged(id) \cap DOMAIN dir : dir[f] = Garbled \/ dir[f]["run"] = "r1"

LEMMA Tied ==
    ASSUME NEW id \in {LabTrust, ToolUse, Computation}
    PROVE  Evidence(id) \cup {"certified", "verification", "signed"} \subseteq Judged(id)
  <1>1. /\ Evidence(LabTrust) = {"trace", "receipt", "certificate"}
        /\ Evidence(ToolUse) = {"tool_trace", "receipt", "certificate"}
        /\ Evidence(Computation) = {"dataset", "environment", "run_receipt", "result", "witness"}
    BY IdsDiffer DEF Evidence
  <1> QED BY <1>1, JudgedAre

LEMMA FirstOneRun ==
    ASSUME NEW id \in {LabTrust, ToolUse, Computation}, NEW dir, FirstOrGarbled(dir, id),
           Clean(dir, SpecOf(id))
    PROVE  AllOf(dir, Evidence(id) \cup {"certified", "verification", "signed"}, "r1")
  <1>1. \A f \in Judged(id) : f \in DOMAIN dir /\ IsDocument(dir[f])
    BY DEF Clean, Judged
  <1>2. \A f \in Judged(id) : dir[f]["run"] = "r1"
    BY <1>1 DEF FirstOrGarbled, IsDocument
  <1> QED BY <1>2, Tied DEF AllOf

(* The files whose run the validator settles.                              *)
Settled(dir, id) ==
    Evidence(id) \cup {"certified"}
      \cup (IF id = LabTrust THEN {"verification", "signed"}
            ELSE IF HandoffIsOwn(dir) THEN {"verification"} ELSE {})

LEMMA ValidatedOneRun ==
    ASSUME NEW id \in {LabTrust, ToolUse, Computation}, NEW dir,
           Sound(dir, id) \/ FirstOrGarbled(dir, id), Validates(dir)
    PROVE  OneRun(dir, Settled(dir, id))
  <1>1. Clean(dir, SpecOf(id))
    BY SingleProfile DEF Sound, FirstOrGarbled
  <1>2. CASE FirstOrGarbled(dir, id)
    <2>1. AllOf(dir, Settled(dir, id), "r1")
      BY <1>1, <1>2, FirstOneRun DEF AllOf, Settled
    <2> QED BY <2>1, AllOfOne
  <1>3. CASE Sound(dir, id) /\ id = LabTrust
    <2>1. OneRun(dir, {"trace", "receipt", "certificate", "certified", "verification", "signed"})
      BY <1>1, <1>3, SpecIds, LabTrustOneRun
    <2>2. Evidence(LabTrust) = {"trace", "receipt", "certificate"}
      BY IdsDiffer DEF Evidence
    <2> QED BY <1>3, <2>1, <2>2 DEF OneRun, Settled
  <1>4. CASE Sound(dir, id) /\ id # LabTrust
    <2>1. \E r \in Runs : TiedTo(dir, id, r)
      BY <1>1, <1>4, SpecIds, ToolUseOneRun, ComputationOneRun
    <2>2. PICK r \in Runs : TiedTo(dir, id, r)
      BY <2>1
    <2>3. AllOf(dir, Settled(dir, id), r)
      BY <1>4, <2>2 DEF TiedTo, AllOf, Settled
    <2> QED BY <2>3, AllOfOne
  <1> QED BY <1>2, <1>3, <1>4

(* The obligation on the signature.                                        *)
LEMMA AdmittedSigned ==
    ASSUME NEW dir, Admitted(Extract(dir))
    PROVE  At(dir["signed"], "signed_input_bundle_hash") =
             At(dir["verification"], "verified_input/bundle_hash")
  <1> DEFINE doc     == Extract(dir)
             inputs  == [signed |-> At(dir["signed"], "signed_input_bundle_hash"),
                         verified |-> At(dir["verification"], "verified_input/bundle_hash")]
             signing == Obligation("SignedBundleAdmissible", inputs)
  <1>1. doc # Refused /\ \A o \in doc.obligations : Holds(o)
    BY DEF Admitted, Failing
  <1>2. BundleObligations(dir) \subseteq doc.obligations
    BY <1>1, ExtractShape DEF ObligationsOf
  <1>3. signing \in BundleObligations(dir)
    BY DEF BundleObligations
  <1>4. signing.kind = "SignedBundleAdmissible" /\ signing.inputs = inputs
    BY DEF Obligation
  <1>5. Holds(signing)
    BY <1>1, <1>2, <1>3
  <1>6. inputs.signed = inputs.verified
    BY <1>4, <1>5, HoldsMeans
  <1> QED BY <1>6

LEMMA AdmittedOneRun ==
    ASSUME NEW id \in {LabTrust, ToolUse, Computation}, NEW dir,
           Sound(dir, id) \/ FirstOrGarbled(dir, id), Validates(dir),
           Admitted(Extract(dir)), HandoffIsOwn(dir)
    PROVE  OneRun(dir, Evidence(id) \cup {"certified", "verification", "signed"})
  <1>1. Clean(dir, SpecOf(id))
    BY SingleProfile DEF Sound, FirstOrGarbled
  <1>2. CASE FirstOrGarbled(dir, id)
    BY <1>1, <1>2, FirstOneRun, AllOfOne
  <1>3. CASE Sound(dir, id) /\ id = LabTrust
    <2>1. OneRun(dir, Settled(dir, id))
      BY <1>3, ValidatedOneRun
    <2> QED BY <1>3, <2>1 DEF OneRun, Settled
  <1>4. CASE Sound(dir, id) /\ id # LabTrust
    <2>1. \E r \in Runs : TiedTo(dir, id, r)
      BY <1>1, <1>4, SpecIds, ToolUseOneRun, ComputationOneRun
    <2>2. PICK r \in Runs : TiedTo(dir, id, r)
      BY <2>1
    <2>3. Held(dir, id) /\ {"verification", "signed"} \subseteq Judged(id)
      BY <1>1, <1>4, SoundHeld, Tied
    <2>4. PICK q \in Runs : OfRun(id, q, "verification", dir["verification"])
      BY <2>3 DEF Held
    <2>5. PICK s \in Runs : OfRun(id, s, "signed", dir["signed"])
      BY <2>3 DEF Held
    <2>6. q = r
      BY <2>2, <2>3, <2>4, OfRunTagged DEF TiedTo
    <2> DEFINE own    == DocumentsOf(id, q)
               others == DocumentsOf(id, s)
    <2>7. dir["verification"] = own["verification"] /\ dir["signed"] = others["signed"]
      BY <1>4, <2>4, <2>5 DEF OfRun
    <2>8. /\ own["certified"]["run"] = q
          /\ At(own["verification"], "verified_input/bundle_hash") = Digest(own["certified"])
      BY <1>4, LaterStates
    <2>9. /\ others["certified"]["run"] = s
          /\ At(others["signed"], "signed_input_bundle_hash") = Digest(others["certified"])
      BY <1>4, LaterStates
    <2> HIDE DEF own, others
    <2>10. Digest(own["certified"]) = Digest(others["certified"])
      BY <2>7, <2>8, <2>9, AdmittedSigned
    <2>11. s = r
      BY <2>6, <2>8, <2>9, <2>10, DigestFixes
    <2>12. dir["signed"]["run"] = r /\ dir["verification"]["run"] = r
      BY <2>2, <2>3, <2>5, <2>11, OfRunTagged DEF TiedTo
    <2>13. AllOf(dir, Evidence(id) \cup {"certified", "verification", "signed"}, r)
      BY <2>2, <2>12 DEF TiedTo, AllOf
    <2> QED BY <2>13, AllOfOne
  <1> QED BY <1>2, <1>3, <1>4

-----------------------------------------------------------------------------
(* What the producers and the build have in their directories.             *)

(* The stage of the second run in which a document is made.                *)
RedoneAt(f) ==
    CASE f \in {"trace", "receipt", "pending"} -> 0
      [] f = "certificate"  -> 1
      [] f = "certified"    -> 2
      [] f = "verification" -> 3
      [] f = "signed"       -> 4

Redone(f) == stage > RedoneAt(f)

First == LabTrustDocuments("r1", OldHeads, "old")
Second(h, signer) == LabTrustDocuments("r2", h, signer)

(* What is redone is of the second run, all else of the first; a copy may  *)
(* be older than its original.                                             *)
ChainIs(h, signer) ==
    /\ DOMAIN work = Judged(LabTrust)
    /\ \A f \in Judged(LabTrust) :
         work[f] = IF Redone(f) THEN Second(h, signer)[f] ELSE First[f]
    /\ \A f \in Judged(LabTrust) \cap DOMAIN run :
         run[f] = First[f] \/ (Redone(f) /\ run[f] = Second(h, signer)[f])

ChainInv == phase = "chain" => \E h \in Heads, signer \in HeadCommits : ChainIs(h, signer)

LEMMA RedoneAtAre ==
    /\ RedoneAt("trace") = 0 /\ RedoneAt("receipt") = 0 /\ RedoneAt("pending") = 0
    /\ RedoneAt("certificate") = 1 /\ RedoneAt("certified") = 2
    /\ RedoneAt("verification") = 3 /\ RedoneAt("signed") = 4
  BY DEF RedoneAt

LEMMA RedoneAtIn == \A f \in Judged(LabTrust) : RedoneAt(f) \in 0..4
  BY RedoneAtAre, JudgedAre

(* The documents in terms of one another.                                  *)
LEMMA DocumentsAre ==
    ASSUME NEW r, NEW h, NEW signer, NEW docs, docs = LabTrustDocuments(r, h, signer)
    PROVE  /\ docs["trace"] = LabTrace(r) /\ docs["receipt"] = LabReceipt(r, h)
           /\ docs["pending"] = LabPending(r, h)
           /\ docs["certificate"] = LabCertificate(docs["trace"], h)
           /\ docs["certified"] = LabCertified(docs["pending"], docs["certificate"])
           /\ docs["verification"] = VerificationOf(docs["certified"], h.pf)
           /\ docs["signed"] = SignedOf(docs["certified"], docs["verification"], signer)
  BY DEF LabTrustDocuments

LEMMA CommitsMatter ==
    ASSUME NEW r, NEW trace, NEW h, NEW g
    PROVE  /\ h.labtrust = g.labtrust =>
                LabReceipt(r, h) = LabReceipt(r, g) /\ LabPending(r, h) = LabPending(r, g)
           /\ h.certifyedge = g.certifyedge => LabCertificate(trace, h) = LabCertificate(trace, g)
  BY DEF LabReceipt, LabPending, LabCertificate

Repositories == {"labtrust", "certifyedge", "pf", "sm"}

LEMMA HeadsAre ==
    /\ Heads = [Repositories -> HeadCommits] /\ OldHeads \in Heads
    /\ \A repo \in Repositories : OldHeads[repo] = "old"
    /\ "old" \in HeadCommits /\ "new" \in HeadCommits /\ "zero" \in HeadCommits
  BY DEF Heads, OldHeads, HeadCommits, Repositories

(* A stage, of which the commits that matter to earlier stages are known.  *)
LEMMA StageKeeps ==
    ASSUME TypeOK, NEW n \in 0..4, NEW files, Stage(n, files),
           NEW h \in Heads, NEW signer \in HeadCommits, ChainIs(h, signer),
           NEW g \in Heads, NEW s \in HeadCommits,
           \A f \in Judged(LabTrust) : RedoneAt(f) < n => Second(g, s)[f] = Second(h, signer)[f],
           DOMAIN files = {f \in Judged(LabTrust) : RedoneAt(f) = n},
           \A f \in DOMAIN files : files[f] = Second(g, s)[f]
    PROVE  ChainInv'
  <1>1. stage = n /\ stage' = n + 1 /\ work' = Merge(work, files) /\ run' = run
    BY DEF Stage
  <1>2. /\ DOMAIN work' = DOMAIN work \cup DOMAIN files
        /\ \A f \in DOMAIN work \ DOMAIN files : work'[f] = work[f]
        /\ \A f \in DOMAIN files : work'[f] = files[f]
    <2> DEFINE made == Merge(work, files)
    <2>1. /\ DOMAIN made = DOMAIN work \cup DOMAIN files
          /\ \A f \in DOMAIN work \ DOMAIN files : made[f] = work[f]
          /\ \A f \in DOMAIN files : made[f] = files[f]
      BY DEF Merge
    <2>2. work' = made
      BY <1>1
    <2> HIDE DEF made
    <2> QED BY <2>1, <2>2
  <1> DEFINE second == Second(g, s)
             before == Second(h, signer)
  <1> HIDE DEF second, before
  <1>3. \A f \in Judged(LabTrust) :
          /\ Redone(f)' <=> n + 1 > RedoneAt(f)
          /\ Redone(f) <=> n > RedoneAt(f)
          /\ RedoneAt(f) \in 0..4
    BY <1>1, RedoneAtIn DEF Redone, RedoneAt
  <1>4. \A f \in Judged(LabTrust) : /\ RedoneAt(f) = n => f \in DOMAIN files
                                    /\ f \in DOMAIN files => RedoneAt(f) = n
    OBVIOUS
  <1>5. ASSUME NEW f \in Judged(LabTrust) PROVE work'[f] = IF Redone(f)' THEN second[f] ELSE First[f]
    <2>1. work[f] = IF Redone(f) THEN before[f] ELSE First[f]
      BY DEF ChainIs, before
    <2>2. RedoneAt(f) < n => second[f] = before[f]
      BY DEF second, before
    <2>3. f \in DOMAIN files => work'[f] = second[f]
      BY <1>2 DEF second
    <2>4. f \in DOMAIN work
      BY DEF ChainIs
    <2>5. RedoneAt(f) < n \/ RedoneAt(f) = n \/ RedoneAt(f) > n
      BY <1>3
    <2> QED BY <1>2, <1>3, <1>4, <2>1, <2>2, <2>3, <2>4, <2>5
  <1>6. ASSUME NEW f \in Judged(LabTrust) \cap DOMAIN run'
        PROVE  run'[f] = First[f] \/ (Redone(f)' /\ run'[f] = second[f])
    <2>1. run'[f] = First[f] \/ (Redone(f) /\ run'[f] = before[f])
      BY <1>1 DEF ChainIs, before
    <2>2. RedoneAt(f) < n => second[f] = before[f]
      BY DEF second, before
    <2>3. Redone(f) => RedoneAt(f) < n /\ Redone(f)'
      BY <1>3
    <2> QED BY <2>1, <2>2, <2>3
  <1>7. DOMAIN work' = Judged(LabTrust)
    BY <1>2 DEF ChainIs
  <1>8. ChainIs(g, s)'
    BY <1>5, <1>6, <1>7 DEF ChainIs, second, First, Second
  <1> QED BY <1>8 DEF ChainInv

LEMMA HeadSet ==
    ASSUME NEW h \in Heads, NEW repo \in Repositories, NEW commit \in HeadCommits
    PROVE  \E g \in Heads : /\ g[repo] = commit
                            /\ \A other \in Repositories \ {repo} : g[other] = h[other]
  <1> DEFINE g == [r \in Repositories |-> IF r = repo THEN commit ELSE h[r]]
  <1>1. g \in Heads
    BY HeadsAre
  <1> QED BY <1>1

(* A document that states a commit is the same for all heads that agree.   *)
LEMMA EarlierAgree ==
    ASSUME NEW r, NEW h, NEW g, NEW signer, NEW s,
           NEW docs, docs = LabTrustDocuments(r, h, signer),
           NEW others, others = LabTrustDocuments(r, g, s), h["labtrust"] = g["labtrust"]
    PROVE  /\ others["trace"] = docs["trace"] /\ others["receipt"] = docs["receipt"]
           /\ others["pending"] = docs["pending"]
           /\ h["certifyedge"] = g["certifyedge"] =>
                /\ others["certificate"] = docs["certificate"]
                /\ others["certified"] = docs["certified"]
                /\ h["pf"] = g["pf"] => others["verification"] = docs["verification"]
  BY DocumentsAre, CommitsMatter

LEMMA Producers ==
    ASSUME TypeOK, ChainInv, RunLab \/ Certify \/ Assemble \/ Verify \/ Sign
    PROVE  ChainInv'
  <1>1. phase = "chain"
    BY DEF RunLab, Certify, Assemble, Verify, Sign, Stage
  <1>2. PICK h \in Heads, signer \in HeadCommits : ChainIs(h, signer)
    BY <1>1 DEF ChainInv
  <1>3. PICK now \in Heads : now = heads
    BY DEF TypeOK
  <1>4. /\ now["certifyedge"] \in HeadCommits /\ now["pf"] \in HeadCommits
    BY <1>3, HeadsAre DEF Repositories
  <1> DEFINE docs == Second(h, signer)
  <1>5. /\ docs["trace"] = LabTrace("r2") /\ docs["receipt"] = LabReceipt("r2", h)
        /\ docs["pending"] = LabPending("r2", h)
        /\ docs["certificate"] = LabCertificate(docs["trace"], h)
        /\ docs["certified"] = LabCertified(docs["pending"], docs["certificate"])
        /\ docs["verification"] = VerificationOf(docs["certified"], h.pf)
    BY DocumentsAre DEF Second
  <1> HIDE DEF docs
  <1>6. \A f \in Judged(LabTrust) : Redone(f) => work[f] = docs[f]
    BY <1>2 DEF ChainIs, docs
  <1>7. CASE RunLab
    <2> DEFINE made == [trace |-> LabTrace("r2"), receipt |-> LabReceipt("r2", heads),
                        pending |-> LabPending("r2", heads)]
    <2>1. PICK files : files = made
      OBVIOUS
    <2>2. Stage(0, made)
      BY <1>7 DEF RunLab
    <2>3. /\ DOMAIN made = {"trace", "receipt", "pending"}
          /\ made["trace"] = LabTrace("r2") /\ made["receipt"] = LabReceipt("r2", heads)
          /\ made["pending"] = LabPending("r2", heads)
      OBVIOUS
    <2> DEFINE next == Second(now, signer)
    <2>4. /\ next["trace"] = LabTrace("r2") /\ next["receipt"] = LabReceipt("r2", now)
          /\ next["pending"] = LabPending("r2", now)
      BY DocumentsAre DEF Second
    <2> HIDE DEF made, next
    <2>5. Stage(0, files)
      BY <2>1, <2>2
    <2>6. DOMAIN files = {f \in Judged(LabTrust) : RedoneAt(f) = 0}
      <3>1. DOMAIN files = {"trace", "receipt", "pending"}
        BY <2>1, <2>3
      <3> QED BY <3>1, RedoneAtAre, JudgedAre
    <2>7. \A f \in DOMAIN files : files[f] = next[f]
      BY <1>3, <2>1, <2>3, <2>4
    <2>8. \A f \in Judged(LabTrust) : RedoneAt(f) < 0 => next[f] = docs[f]
      BY RedoneAtIn
    <2> QED BY <1>2, <2>5, <2>6, <2>7, <2>8, StageKeeps DEF next, docs
  <1>8. CASE Certify
    <2> DEFINE made == [certificate |-> LabCertificate(work["trace"], heads)]
    <2>1. PICK files : files = made
      OBVIOUS
    <2>2. Stage(1, made)
      BY <1>8 DEF Certify
    <2>3. DOMAIN made = {"certificate"} /\ made["certificate"] = LabCertificate(work["trace"], heads)
      OBVIOUS
    <2>4. PICK g \in Heads : /\ g["certifyedge"] = now["certifyedge"]
                             /\ \A other \in Repositories \ {"certifyedge"} : g[other] = h[other]
      BY <1>4, HeadSet, ZenonT(60) DEF Repositories
    <2> DEFINE next == Second(g, signer)
    <2>5. /\ next["trace"] = docs["trace"] /\ next["receipt"] = docs["receipt"]
          /\ next["pending"] = docs["pending"]
      <3>1. h["labtrust"] = g["labtrust"]
        BY <2>4 DEF Repositories
      <3> QED BY <3>1, EarlierAgree DEF docs, Second
    <2>6. next["certificate"] = LabCertificate(next["trace"], g)
      BY DocumentsAre DEF Second
    <2> HIDE DEF made, next
    <2>7. LabCertificate(docs["trace"], g) = LabCertificate(docs["trace"], now)
      BY <2>4, CommitsMatter
    <2>8. work["trace"] = docs["trace"]
      <3>1. stage = 1
        BY <1>8 DEF Certify, Stage
      <3> QED BY <1>6, <3>1, RedoneAtAre, JudgedAre DEF Redone
    <2>9. Stage(1, files)
      BY <2>1, <2>2
    <2>10. DOMAIN files = {f \in Judged(LabTrust) : RedoneAt(f) = 1}
      <3>1. DOMAIN files = {"certificate"}
        BY <2>1, <2>3
      <3> QED BY <3>1, RedoneAtAre, JudgedAre
    <2>11. \A f \in DOMAIN files : files[f] = next[f]
      BY <1>3, <2>1, <2>3, <2>5, <2>6, <2>7, <2>8
    <2>12. \A f \in Judged(LabTrust) : RedoneAt(f) < 1 => next[f] = docs[f]
      BY <2>5, RedoneAtAre, JudgedAre
    <2> QED BY <1>2, <2>9, <2>10, <2>11, <2>12, StageKeeps DEF next, docs
  <1>9. CASE Assemble
    <2> DEFINE made == [certified |-> LabCertified(work["pending"], work["certificate"])]
    <2>1. PICK files : files = made
      OBVIOUS
    <2>2. Stage(2, made)
      BY <1>9 DEF Assemble
    <2>3. /\ DOMAIN made = {"certified"}
          /\ made["certified"] = LabCertified(work["pending"], work["certificate"])
      OBVIOUS
    <2> HIDE DEF made
    <2>4. work["pending"] = docs["pending"] /\ work["certificate"] = docs["certificate"]
      <3>1. stage = 2
        BY <1>9 DEF Assemble, Stage
      <3> QED BY <1>6, <3>1, RedoneAtAre, JudgedAre DEF Redone
    <2>5. Stage(2, files)
      BY <2>1, <2>2
    <2>6. DOMAIN files = {f \in Judged(LabTrust) : RedoneAt(f) = 2}
      <3>1. DOMAIN files = {"certified"}
        BY <2>1, <2>3
      <3> QED BY <3>1, RedoneAtAre, JudgedAre
    <2>7. \A f \in DOMAIN files : files[f] = docs[f]
      BY <1>5, <2>1, <2>3, <2>4
    <2>8. \A f \in Judged(LabTrust) : RedoneAt(f) < 2 => docs[f] = docs[f]
      OBVIOUS
    <2> QED BY <1>2, <2>5, <2>6, <2>7, <2>8, StageKeeps DEF docs
  <1>10. CASE Verify
    <2> DEFINE made == [verification |-> VerificationOf(work["certified"], heads.pf)]
    <2>1. PICK files : files = made
      OBVIOUS
    <2>2. Stage(3, made)
      BY <1>10 DEF Verify
    <2>3. /\ DOMAIN made = {"verification"}
          /\ made["verification"] = VerificationOf(work["certified"], heads["pf"])
      OBVIOUS
    <2>4. PICK g \in Heads : /\ g["pf"] = now["pf"]
                             /\ \A other \in Repositories \ {"pf"} : g[other] = h[other]
      BY <1>4, HeadSet, ZenonT(60) DEF Repositories
    <2> DEFINE next == Second(g, signer)
    <2>5. /\ next["trace"] = docs["trace"] /\ next["receipt"] = docs["receipt"]
          /\ next["pending"] = docs["pending"] /\ next["certificate"] = docs["certificate"]
          /\ next["certified"] = docs["certified"]
      <3>1. h["labtrust"] = g["labtrust"] /\ h["certifyedge"] = g["certifyedge"]
        BY <2>4 DEF Repositories
      <3> QED BY <3>1, EarlierAgree DEF docs, Second
    <2>6. next["verification"] = VerificationOf(next["certified"], g["pf"])
      BY DocumentsAre DEF Second
    <2> HIDE DEF made, next
    <2>7. work["certified"] = docs["certified"]
      <3>1. stage = 3
        BY <1>10 DEF Verify, Stage
      <3> QED BY <1>6, <3>1, RedoneAtAre, JudgedAre DEF Redone
    <2>8. Stage(3, files)
      BY <2>1, <2>2
    <2>9. DOMAIN files = {f \in Judged(LabTrust) : RedoneAt(f) = 3}
      <3>1. DOMAIN files = {"verification"}
        BY <2>1, <2>3
      <3> QED BY <3>1, RedoneAtAre, JudgedAre
    <2>10. \A f \in DOMAIN files : files[f] = next[f]
      BY <1>3, <2>1, <2>3, <2>4, <2>5, <2>6, <2>7
    <2>11. \A f \in Judged(LabTrust) : RedoneAt(f) < 3 => next[f] = docs[f]
      BY <2>5, RedoneAtAre, JudgedAre
    <2> QED BY <1>2, <2>8, <2>9, <2>10, <2>11, StageKeeps DEF next, docs
  <1>11. CASE Sign
    <2> DEFINE made == [signed |-> SignedOf(work["certified"], work["verification"], heads.pf)]
    <2>1. PICK files : files = made
      OBVIOUS
    <2>2. Stage(4, made)
      BY <1>11 DEF Sign
    <2>3. /\ DOMAIN made = {"signed"}
          /\ made["signed"] = SignedOf(work["certified"], work["verification"], heads["pf"])
      OBVIOUS
    <2> DEFINE s == now["pf"]
               next == Second(h, s)
    <2>4. /\ next["trace"] = docs["trace"] /\ next["receipt"] = docs["receipt"]
          /\ next["pending"] = docs["pending"] /\ next["certificate"] = docs["certificate"]
          /\ next["certified"] = docs["certified"] /\ next["verification"] = docs["verification"]
      BY EarlierAgree DEF docs, Second
    <2>5. next["signed"] = SignedOf(next["certified"], next["verification"], s)
      BY DocumentsAre DEF Second
    <2> HIDE DEF made, next
    <2>6. work["certified"] = docs["certified"] /\ work["verification"] = docs["verification"]
      <3>1. stage = 4
        BY <1>11 DEF Sign, Stage
      <3> QED BY <1>6, <3>1, RedoneAtAre, JudgedAre DEF Redone
    <2>7. Stage(4, files)
      BY <2>1, <2>2
    <2>8. DOMAIN files = {f \in Judged(LabTrust) : RedoneAt(f) = 4}
      <3>1. DOMAIN files = {"signed"}
        BY <2>1, <2>3
      <3> QED BY <3>1, RedoneAtAre, JudgedAre
    <2>9. \A f \in DOMAIN files : files[f] = next[f]
      BY <1>3, <2>1, <2>3, <2>4, <2>5, <2>6
    <2>10. \A f \in Judged(LabTrust) : RedoneAt(f) < 4 => next[f] = docs[f]
      BY <2>4, RedoneAtAre, JudgedAre
    <2>11. s \in HeadCommits
      BY <1>4
    <2> HIDE DEF s
    <2> QED BY <1>2, <2>7, <2>8, <2>9, <2>10, <2>11, StageKeeps DEF next, docs
  <1> QED BY <1>7, <1>8, <1>9, <1>10, <1>11

(* A run directory whose build was finished.                               *)
Complete(dir) ==
    /\ LabTrustSpec.artifacts \subseteq DOMAIN dir
    /\ \E r \in Runs, made, pinned \in HeadCommits :
         dir["report"] = Normalized(ReportOf(r, made), pinned)
    /\ dir["manifest"] = ManifestFor(dir, LabTrustSpec, PinsOf(dir))
    /\ \A key \in DOMAIN PinsOf(dir) : ~Placeholder(PinsOf(dir)[key])

RunInv ==
    /\ \E r \in Runs, made \in HeadCommits : corpus = ReportOf(r, made)
    /\ phase = "audit" => DOMAIN run = {} /\ step = Idle
    /\ DOMAIN run \subseteq LabTrustSpec.artifacts \cup {"manifest"}
    /\ "manifest" \in DOMAIN run => Complete(run)

LEMMA LabTrustFiles ==
    /\ LabTrustSpec.artifacts = Judged(LabTrust) \cup {"report"}
    /\ Judged(LabTrust) = ToSet(ChainArtifacts)
    /\ "report" \notin Judged(LabTrust) /\ "manifest" \notin LabTrustSpec.artifacts
  <1>1. LabTrustSpec.artifacts = {"trace", "receipt", "certificate", "pending", "certified",
                                  "verification", "signed", "report"}
    BY DEF LabTrustSpec
  <1> QED BY <1>1, JudgedAre, ChainShape

(* The manifest is about the artifacts alone.                              *)
LEMMA ManifestOf ==
    ASSUME NEW dir, NEW other, \A f \in LabTrustSpec.artifacts : dir[f] = other[f]
    PROVE  /\ PinsOf(dir) = PinsOf(other)
           /\ \A pins : ManifestFor(dir, LabTrustSpec, pins) = ManifestFor(other, LabTrustSpec, pins)
  <1>1. {"receipt", "certificate", "verification", "report"} \subseteq LabTrustSpec.artifacts
    BY DEF LabTrustSpec
  <1>2. PinsOf(dir) = PinsOf(other)
    BY <1>1 DEF PinsOf
  <1> DEFINE files == LabTrustSpec.artifacts
             ofDir == [f \in files |-> Digest(dir[f])]
             ofOther == [f \in files |-> Digest(other[f])]
  <1>3. ofDir = ofOther
    OBVIOUS
  <1>4. ASSUME NEW pins PROVE ManifestFor(dir, LabTrustSpec, pins) = ManifestFor(other, LabTrustSpec, pins)
    <2>1. /\ ManifestFor(dir, LabTrustSpec, pins) =
               Merge(pins, IF LabTrustSpec.named
                             THEN [workflow_profile_id |-> LabTrustSpec.id, artifacts |-> ofDir]
                             ELSE [artifacts |-> ofDir])
          /\ ManifestFor(other, LabTrustSpec, pins) =
               Merge(pins, IF LabTrustSpec.named
                             THEN [workflow_profile_id |-> LabTrustSpec.id, artifacts |-> ofOther]
                             ELSE [artifacts |-> ofOther])
      BY DEF ManifestFor
    <2> HIDE DEF ofDir, ofOther
    <2> QED BY <1>3, <2>1
  <1> QED BY <1>2, <1>4

LEMMA InitChain == Init => ChainInv /\ RunInv
  <1> SUFFICES ASSUME Init PROVE ChainInv /\ RunInv
    OBVIOUS
  <1>1. DOMAIN run = {} /\ corpus = ReportOf("r1", "old") /\ stage = 0 /\ step = Idle
    BY DEF Init, NoDirectory
  <1>2. RunInv
    BY <1>1, HeadsAre DEF RunInv, Runs
  <1>3. ASSUME phase = "chain" PROVE ChainIs(OldHeads, "old")
    <2>1. work = [f \in ToSet(ChainArtifacts) |-> DocumentsOf(LabTrust, "r1")[f]]
      BY <1>3 DEF Init
    <2>2. DocumentsOf(LabTrust, "r1") = First
      BY IdsDiffer DEF DocumentsOf, First
    <2>3. \A f \in Judged(LabTrust) : ~Redone(f)
      BY <1>1, RedoneAtIn DEF Redone
    <2>4. DOMAIN work = Judged(LabTrust) /\ \A f \in Judged(LabTrust) : work[f] = First[f]
      BY <2>1, <2>2, LabTrustFiles
    <2> QED BY <1>1, <2>3, <2>4 DEF ChainIs
  <1> QED BY <1>2, <1>3, HeadsAre DEF ChainInv

LEMMA ProducersRun ==
    ASSUME TypeOK, ChainInv, RunInv,
           \/ RunLab \/ Certify \/ Assemble \/ Verify \/ Sign \/ Import
           \/ \E repo \in DOMAIN OldHeads, commit \in {"new", "zero"} : MoveHead(repo, commit)
    PROVE  ChainInv' /\ RunInv'
  <1>1. ASSUME UNCHANGED <<corpus, run, step, phase>> PROVE RunInv'
    BY <1>1 DEF RunInv, Complete
  <1>2. CASE RunLab \/ Certify \/ Assemble \/ Verify \/ Sign
    <2>1. UNCHANGED <<corpus, run, step, phase>>
      BY <1>2 DEF RunLab, Certify, Assemble, Verify, Sign, Stage
    <2> QED BY <1>1, <1>2, <2>1, Producers
  <1>3. CASE \E repo \in DOMAIN OldHeads, commit \in {"new", "zero"} : MoveHead(repo, commit)
    <2>1. UNCHANGED <<stage, work, corpus, run, step, phase>>
      BY <1>3 DEF MoveHead
    <2>2. ASSUME NEW h \in Heads, NEW signer \in HeadCommits, ChainIs(h, signer)
          PROVE  ChainIs(h, signer)'
      BY <2>1, <2>2 DEF ChainIs, Redone, First, Second
    <2> QED BY <1>1, <2>1, <2>2 DEF ChainInv
  <1>4. CASE Import
    <2>1. /\ phase = "chain" /\ stage = 5 /\ stage' = 6 /\ UNCHANGED <<work, run, step, phase>>
          /\ corpus' = ReportOf(work["signed"].run, heads["sm"])
      BY <1>4 DEF Import
    <2>2. PICK h \in Heads, signer \in HeadCommits : ChainIs(h, signer)
      BY <2>1 DEF ChainInv
    <2>3. \A f \in Judged(LabTrust) : Redone(f) /\ Redone(f)'
      BY <2>1, RedoneAtIn DEF Redone
    <2>4. ChainIs(h, signer)'
      BY <2>1, <2>2, <2>3 DEF ChainIs, First, Second
    <2>5. work["signed"] = Second(h, signer)["signed"]
      BY <2>2, <2>3, JudgedAre DEF ChainIs
    <2>6. work["signed"].run = "r2"
      <3>1. OfRun(LabTrust, "r2", "signed", work["signed"])
        BY <2>5 DEF OfRun, Second
      <3> QED BY <3>1, JudgedAre, OfRunTagged DEF Runs
    <2>7. heads["sm"] \in HeadCommits
      BY HeadsAre DEF TypeOK, Repositories
    <2>8. RunInv'
      BY <2>1, <2>6, <2>7 DEF RunInv, Complete, Runs
    <2> QED BY <2>4, <2>8 DEF ChainInv
  <1> QED BY <1>2, <1>3, <1>4

LEMMA BuildRun ==
    ASSUME TypeOK, ChainInv, RunInv, StartBuild \/ CopyNext \/ FinishBuild \/ AbandonBuild
    PROVE  ChainInv' /\ RunInv'
  <1>1. UNCHANGED <<stage, work, corpus, phase>>
    BY DEF StartBuild, CopyNext, FinishBuild, AbandonBuild, chainVars
  <1>2. ASSUME \A h \in Heads, signer \in HeadCommits : ChainIs(h, signer) =>
                 \A f \in Judged(LabTrust) \cap DOMAIN run' :
                   run'[f] = First[f] \/ (Redone(f) /\ run'[f] = Second(h, signer)[f])
        PROVE  ChainInv'
    <2>1. ASSUME NEW h \in Heads, NEW signer \in HeadCommits, ChainIs(h, signer)
          PROVE  ChainIs(h, signer)'
      <3>1. \A f \in Judged(LabTrust) \cap DOMAIN run' :
              run'[f] = First[f] \/ (Redone(f) /\ run'[f] = Second(h, signer)[f])
        BY <1>2, <2>1
      <3>2. /\ DOMAIN work = Judged(LabTrust)
            /\ \A f \in Judged(LabTrust) :
                 work[f] = IF Redone(f) THEN Second(h, signer)[f] ELSE First[f]
        BY <2>1 DEF ChainIs
      <3> QED BY <1>1, <3>1, <3>2 DEF ChainIs, Redone, First, Second
    <2> QED BY <1>1, <2>1 DEF ChainInv
  <1>3. CASE AbandonBuild
    <2>1. run' = run /\ step' = Idle
      BY <1>3 DEF AbandonBuild
    <2> QED BY <1>1, <1>2, <2>1 DEF ChainIs, RunInv, Complete
  <1>4. CASE StartBuild
    <2>1. DOMAIN run' = {} /\ phase # "audit"
      BY <1>4 DEF StartBuild, NoDirectory
    <2> QED BY <1>1, <1>2, <2>1 DEF RunInv
  <1>5. CASE CopyNext
    <2>1. PICK f : f = ChainArtifacts[step + 1]
      OBVIOUS
    <2>2. step \in 0..6 /\ step \in Nat
      BY <1>5, ChainShape DEF CopyNext, TypeOK
    <2>3. f \in Judged(LabTrust)
      BY <2>1, <2>2, ChainShape, LabTrustFiles
    <2>4. PICK made : made = With(run, f, work[f])
      OBVIOUS
    <2>5. run' = made
      BY <1>5, <2>1, <2>4 DEF CopyNext
    <2>6. /\ DOMAIN made = DOMAIN run \cup {f} /\ made[f] = work[f]
          /\ \A q \in DOMAIN run : q # f => made[q] = run[q]
      BY <2>4 DEF With
    <2>7. ChainInv'
      BY <1>2, <2>3, <2>5, <2>6 DEF ChainIs
    <2>8. "manifest" \notin DOMAIN run
      <3>1. DOMAIN run = {ChainArtifacts[i] : i \in 1..step}
        BY <2>2 DEF TypeOK
      <3>2. \A i \in 1..step : ChainArtifacts[i] \in Judged(LabTrust)
        BY <2>2, ChainShape, LabTrustFiles
      <3> QED BY <3>1, <3>2, LabTrustFiles
    <2>9. phase # "audit"
      BY <1>5 DEF CopyNext, RunInv
    <2>10. RunInv'
      BY <1>1, <2>3, <2>5, <2>6, <2>8, <2>9, LabTrustFiles DEF RunInv
    <2> QED BY <2>7, <2>10
  <1>6. CASE FinishBuild
    <2>1. PICK report : report = Normalized(corpus, heads["sm"])
      OBVIOUS
    <2>2. PICK dir : dir = With(run, "report", report)
      OBVIOUS
    <2>3. PICK listed : listed = ManifestFor(dir, LabTrustSpec, PinsOf(dir))
      OBVIOUS
    <2>4. PICK final : final = With(dir, "manifest", listed)
      OBVIOUS
    <2>5. run' = dir \/ (run' = final /\ \A key \in DOMAIN PinsOf(dir) : ~Placeholder(PinsOf(dir)[key]))
      BY <1>6, <2>1, <2>2, <2>3, <2>4 DEF FinishBuild, WithManifest
    <2>6. /\ DOMAIN dir = DOMAIN run \cup {"report"} /\ dir["report"] = report
          /\ \A q \in DOMAIN run : q # "report" => dir[q] = run[q]
      BY <2>2 DEF With
    <2>7. /\ DOMAIN final = DOMAIN dir \cup {"manifest"} /\ final["manifest"] = listed
          /\ \A q \in DOMAIN dir : q # "manifest" => final[q] = dir[q]
      BY <2>4 DEF With
    <2>8. /\ \A f \in Judged(LabTrust) \cap DOMAIN run' : f \in DOMAIN run /\ run'[f] = run[f]
      BY <2>5, <2>6, <2>7, LabTrustFiles
    <2>9. ChainInv'
      BY <1>2, <2>8 DEF ChainIs
    <2>10. DOMAIN run = Judged(LabTrust)
      <3>1. step = 7
        BY <1>6, ChainShape DEF FinishBuild
      <3>2. DOMAIN run = {ChainArtifacts[i] : i \in 1..7}
        BY <3>1 DEF TypeOK
      <3>3. ToSet(ChainArtifacts) = {ChainArtifacts[i] : i \in 1..7}
        BY ChainShape DEF ToSet
      <3> QED BY <3>2, <3>3, LabTrustFiles
    <2>11. phase # "audit"
      BY <2>10, JudgedAre DEF RunInv
    <2>12. ASSUME run' = final, \A key \in DOMAIN PinsOf(dir) : ~Placeholder(PinsOf(dir)[key])
           PROVE  Complete(final)
      <3>1. LabTrustSpec.artifacts \subseteq DOMAIN final
        BY <2>6, <2>7, <2>10, LabTrustFiles
      <3>2. \A f \in LabTrustSpec.artifacts : final[f] = dir[f]
        BY <2>6, <2>7, <2>10, LabTrustFiles
      <3>3. PinsOf(final) = PinsOf(dir) /\ listed = ManifestFor(final, LabTrustSpec, PinsOf(final))
        BY <2>3, <3>2, ManifestOf
      <3>4. PICK r \in Runs, made \in HeadCommits : corpus = ReportOf(r, made)
        BY DEF RunInv
      <3>5. PICK pinned \in HeadCommits : pinned = heads["sm"]
        BY HeadsAre DEF TypeOK, Repositories
      <3>6. final["report"] = Normalized(ReportOf(r, made), pinned)
        BY <2>1, <2>6, <3>2, <3>4, <3>5, LabTrustFiles
      <3> QED BY <2>7, <2>12, <3>1, <3>3, <3>6 DEF Complete
    <2>13. "manifest" \notin DOMAIN dir
      BY <2>6, <2>10, LabTrustFiles
    <2>14. DOMAIN run' \subseteq LabTrustSpec.artifacts \cup {"manifest"}
      BY <2>5, <2>6, <2>7, <2>10, LabTrustFiles
    <2>15. "manifest" \in DOMAIN run' => Complete(run')
      BY <2>5, <2>12, <2>13
    <2>16. RunInv'
      BY <1>1, <2>11, <2>14, <2>15 DEF RunInv
    <2> QED BY <2>9, <2>16
  <1> QED BY <1>3, <1>4, <1>5, <1>6

LEMMA AuditRun ==
    ASSUME RunInv, Promote \/ Maintain \/ Edit \/ Materialize \/ CheckObligations \/ WriteResult
    PROVE  ChainInv' /\ RunInv'
  <1>1. CASE Promote
    <2>1. phase' = "audit" /\ DOMAIN run' = {} /\ step' = Idle /\ corpus' = ReportOf("r1", "old")
      BY <1>1 DEF Promote, NoDirectory
    <2>2. RunInv'
      BY <2>1, HeadsAre DEF RunInv, Runs
    <2> QED BY <2>1, <2>2 DEF ChainInv
  <1>2. CASE Maintain \/ Edit \/ Materialize \/ CheckObligations \/ WriteResult
    <2>1. phase = "audit" /\ phase' = phase /\ run' = run /\ step' = step /\ corpus' = corpus
      BY <1>2 DEF Maintain, Edit, Materialize, CheckObligations, WriteResult, Audit, chainVars
    <2>2. RunInv'
      BY <2>1 DEF RunInv, Complete
    <2> QED BY <2>1, <2>2 DEF ChainInv
  <1> QED BY <1>1, <1>2

(* The run directory is one of genuine documents.                          *)
LEMMA RunSound ==
    ASSUME RunInv, ChainInv, phase = "chain"
    PROVE  Sound(run, LabTrust)
  <1>1. Single(run, LabTrust)
    <2>1. FirstEvidence(ToolUse) = "tool_trace" /\ FirstEvidence(Computation) = "dataset"
      BY IdsDiffer DEF FirstEvidence
    <2>2. "tool_trace" \notin DOMAIN run /\ "dataset" \notin DOMAIN run
      BY DEF RunInv, LabTrustSpec
    <2> QED BY <2>1, <2>2 DEF Single
  <1>2. PICK h \in Heads, signer \in HeadCommits : ChainIs(h, signer)
    BY DEF ChainInv
  <1>3. ASSUME NEW f \in Judged(LabTrust) \cap DOMAIN run
        PROVE  \E r \in Runs : OfRun(LabTrust, r, f, run[f])
    <2>1. CASE run[f] = First[f]
      <3>1. OfRun(LabTrust, "r1", f, run[f])
        BY <2>1, HeadsAre DEF OfRun, First
      <3> QED BY <3>1 DEF Runs
    <2>2. CASE run[f] = Second(h, signer)[f]
      <3>1. OfRun(LabTrust, "r2", f, run[f])
        BY <2>2 DEF OfRun, Second
      <3> QED BY <3>1 DEF Runs
    <2> QED BY <1>2, <2>1, <2>2 DEF ChainIs
  <1> QED BY <1>1, <1>3 DEF Sound

(* The files that lie beside the judged artifacts.                         *)
Beside == {"manifest", "manifest_v0", "result_v0", "handoff_verifier", "handoff_pf",
           "proof_obligation", "lean_check", "payload", "report"}

LEMMA BesideAre ==
    ASSUME NEW id \in {LabTrust, ToolUse, Computation}
    PROVE  /\ Beside \cap Judged(id) = {} /\ FirstEvidence(id) \notin Beside
           /\ FirstEvidence(id) \in Judged(id) /\ "certified" \in Judged(id)
           /\ \A other \in {LabTrust, ToolUse, Computation} \ {id} : FirstEvidence(other) \notin Judged(id)
  <1>1. /\ FirstEvidence(LabTrust) = "trace" /\ FirstEvidence(ToolUse) = "tool_trace"
        /\ FirstEvidence(Computation) = "dataset"
    BY IdsDiffer DEF FirstEvidence
  <1>2. Beside \cap Judged(id) = {}
    BY JudgedAre DEF Beside
  <1>3. FirstEvidence(id) \notin Beside
    BY <1>1 DEF Beside
  <1> QED BY <1>1, <1>2, <1>3, JudgedAre

(* A copy of some of the files, with others beside them.                   *)
Within(new, dir) ==
    \A f \in DOMAIN new : f \in Beside \/ (f \in DOMAIN dir /\ new[f] = dir[f])

LEMMA WithinSound ==
    ASSUME NEW dir, NEW new, Sound(dir, LabTrust), Within(new, dir)
    PROVE  Sound(new, LabTrust)
  <1>1. Single(new, LabTrust)
    BY BesideAre DEF Sound, Single, Within
  <1>2. \A f \in Judged(LabTrust) \cap DOMAIN new : f \in DOMAIN dir /\ new[f] = dir[f]
    BY BesideAre DEF Within
  <1> QED BY <1>1, <1>2 DEF Sound

LEMMA PromotionWithin ==
    ASSUME NEW dir, NEW left \in PromotionStops(dir)
    PROVE  Within(left, dir)
  <1>1. PICK verdict : verdict = BuildResult(dir)
    OBVIOUS
  <1>2. PICK protocol : protocol = ProtocolArtifacts(dir)
    OBVIOUS
  <1>3. PICK reported : reported = With(dir, "result_v0", verdict)
    OBVIOUS
  <1>4. PICK final : final = Merge(reported, protocol)
    OBVIOUS
  <1>5. PICK unhanded : unhanded = Without(final, {"handoff_verifier", "handoff_pf"})
    OBVIOUS
  <1>6. left \in PartialCopies(dir) \cup {dir, reported, unhanded, final}
    BY <1>1, <1>2, <1>3, <1>4, <1>5 DEF PromotionStops
  <1>7. \A f \in DOMAIN reported : f = "result_v0" \/ (f \in DOMAIN dir /\ reported[f] = dir[f])
    BY <1>3 DEF With
  <1>8. DOMAIN protocol = {"manifest_v0", "handoff_verifier", "handoff_pf"}
    BY <1>2 DEF ProtocolArtifacts
  <1>9. \A f \in DOMAIN final : f \in DOMAIN protocol \/ (f \in DOMAIN reported /\ final[f] = reported[f])
    BY <1>4 DEF Merge
  <1>10. Within(reported, dir) /\ Within(final, dir)
    BY <1>7, <1>8, <1>9 DEF Within, Beside
  <1>11. \A f \in DOMAIN unhanded : f \in DOMAIN final /\ unhanded[f] = final[f]
    BY <1>5 DEF Without
  <1>12. Within(unhanded, dir)
    BY <1>10, <1>11 DEF Within
  <1>13. ASSUME left \in PartialCopies(dir) PROVE Within(left, dir)
    <2>1. CASE left = NoDirectory
      BY <2>1 DEF NoDirectory, Within
    <2>2. ASSUME NEW f, left = Without(dir, {f}) PROVE Within(left, dir)
      BY <2>2 DEF Without, Within
    <2>3. ASSUME NEW f \in DOMAIN dir, left = [g \in {f} |-> dir[g]] PROVE Within(left, dir)
      BY <2>3 DEF Within
    <2> QED BY <1>13, <2>1, <2>2, <2>3 DEF PartialCopies
  <1>14. Within(dir, dir)
    BY DEF Within
  <1> QED BY <1>6, <1>10, <1>12, <1>13, <1>14

(* An audit writes beside the artifacts.                                   *)
Audited == {"proof_obligation", "lean_check", "result_v0"}

LEMMA AuditedKeeps ==
    ASSUME NEW id \in {LabTrust, ToolUse, Computation}, NEW dir, NEW f \in Audited, NEW doc
    PROVE  /\ Sound(dir, id) => Sound(With(dir, f, doc), id)
           /\ FirstOrGarbled(dir, id) => FirstOrGarbled(With(dir, f, doc), id)
  <1>1. PICK w : w = With(dir, f, doc)
    OBVIOUS
  <1>2. DOMAIN w = DOMAIN dir \cup {f} /\ \A q \in DOMAIN dir : q # f => w[q] = dir[q]
    BY <1>1 DEF With
  <1>3. f \in Beside /\ f # "handoff_pf" /\ f # "manifest_v0" /\ f # "certified"
    BY DEF Audited, Beside
  <1>4. Single(dir, id) => Single(w, id)
    BY <1>2, <1>3, BesideAre DEF Single
  <1>5. \A q \in Judged(id) \cap DOMAIN w : q \in DOMAIN dir /\ w[q] = dir[q]
    BY <1>2, <1>3, BesideAre
  <1>6. Accompanied(dir, id) => Accompanied(w, id)
    BY <1>2, <1>3 DEF Accompanied, ManifestV0For
  <1>7. Sound(dir, id) => Sound(w, id)
    BY <1>4, <1>5, <1>6 DEF Sound
  <1>8. FirstOrGarbled(dir, id) => FirstOrGarbled(w, id)
    BY <1>4, <1>5 DEF FirstOrGarbled
  <1> QED BY <1>1, <1>7, <1>8

LEMMA MaterializedKeeps ==
    ASSUME NEW id \in {LabTrust, ToolUse, Computation}, NEW dir, NEW build, NEW skip
    PROVE  /\ Sound(dir, id) => Sound(MaterializeLean(dir, build, skip), id)
           /\ FirstOrGarbled(dir, id) => FirstOrGarbled(MaterializeLean(dir, build, skip), id)
  <1>1. PICK doc : doc = Extract(dir)
    OBVIOUS
  <1>2. PICK result : result = LeanResult(doc, build, "none")
    OBVIOUS
  <1>3. PICK written : written = With(dir, "proof_obligation", doc)
    OBVIOUS
  <1>4. PICK whole : whole = With(written, "lean_check", result)
    OBVIOUS
  <1>5. MaterializeLean(dir, build, skip) \in {dir, written, whole}
    BY <1>1, <1>2, <1>3, <1>4 DEF MaterializeLean
  <1>6. "proof_obligation" \in Audited /\ "lean_check" \in Audited
    BY DEF Audited
  <1>7. /\ Sound(dir, id) => Sound(written, id)
        /\ FirstOrGarbled(dir, id) => FirstOrGarbled(written, id)
    BY <1>3, <1>6, AuditedKeeps
  <1>8. /\ Sound(written, id) => Sound(whole, id)
        /\ FirstOrGarbled(written, id) => FirstOrGarbled(whole, id)
    BY <1>4, <1>6, AuditedKeeps
  <1> QED BY <1>5, <1>7, <1>8

LEMMA MixedSound ==
    ASSUME NEW id \in {LabTrust, ToolUse, Computation}, NEW second, NEW handoff
    PROVE  Sound(MixedFrom(id, second, handoff), id)
  <1> DEFINE Of(f) == IF f \in second THEN "r2" ELSE "r1"
             files == SpecOf(id).artifacts
             dir0 == [f \in files |-> DocumentsOf(id, Of(f))[f]]
             bytes0 == [payload |-> Payload(Of("result"))]
             full0 == IF id = Computation THEN Merge(dir0, bytes0) ELSE dir0
             handed0 == IF handoff = "none" THEN NoDirectory
                        ELSE [handoff_verifier |-> HandoffOf(DocumentsOf(id, handoff).certified)]
             mixed0 == Merge(Merge(full0, Companions(full0, id)), handed0)
  <1>1. MixedFrom(id, second, handoff) = mixed0
    BY DEF MixedFrom
  <1>2. PICK dir : dir = dir0
    OBVIOUS
  <1>3. PICK bytes : bytes = bytes0
    OBVIOUS
  <1>4. PICK handed : handed = handed0
    OBVIOUS
  <1>5. PICK full : full = full0
    OBVIOUS
  <1>6. PICK companions : companions = Companions(full, id)
    OBVIOUS
  <1>7. PICK accompanied : accompanied = Merge(full, companions)
    OBVIOUS
  <1>8. PICK mixed : mixed = Merge(accompanied, handed)
    OBVIOUS
  <1>9. DOMAIN dir = files /\ \A f \in files : dir[f] = DocumentsOf(id, Of(f))[f]
    BY <1>2
  <1>10. DOMAIN bytes = {"payload"}
    BY <1>3
  <1>11. DOMAIN handed \subseteq {"handoff_verifier"}
    BY <1>4 DEF NoDirectory
  <1>12. DOMAIN companions = {"manifest", "manifest_v0", "result_v0"}
         /\ companions["manifest_v0"] = ManifestV0For(full, SpecOf(id), {"result_v0"})
    BY <1>6 DEF Companions
  <1>13. full = dir \/ full = Merge(dir, bytes)
    BY <1>2, <1>3, <1>5
  <1>14. MixedFrom(id, second, handoff) = mixed
    BY <1>1, <1>4, <1>5, <1>6, <1>7, <1>8
  <1> HIDE DEF dir0, bytes0, full0, handed0, mixed0
  <1>15. Judged(id) \subseteq files /\ files = Judged(id) \cup {"report"}
    <2>1. "report" \in LabTrustSpec.artifacts /\ "report" \in ToolUseSpec.artifacts
          /\ "report" \in ComputationSpec.artifacts
      BY DEF LabTrustSpec, ToolUseSpec, ComputationSpec
    <2> QED BY <2>1, SpecIds DEF Judged
  <1> HIDE DEF files
  <1>16. /\ \A f \in DOMAIN full : f \in files \cup {"payload"}
         /\ \A f \in Judged(id) : f \in DOMAIN full /\ full[f] = dir[f]
    <2>1. Merge(dir, bytes) = full =>
            /\ \A f \in DOMAIN full : f \in DOMAIN dir \/ f \in DOMAIN bytes
            /\ \A f \in DOMAIN dir : f \in DOMAIN full /\ (f \notin DOMAIN bytes => full[f] = dir[f])
      BY DEF Merge
    <2>2. "payload" \notin Judged(id)
      BY BesideAre DEF Beside
    <2> QED BY <1>9, <1>10, <1>13, <1>15, <2>1, <2>2
  <1>17. /\ \A f \in DOMAIN accompanied : f \in DOMAIN full \/ f \in DOMAIN companions
         /\ \A f \in DOMAIN full : f \notin DOMAIN companions =>
              f \in DOMAIN accompanied /\ accompanied[f] = full[f]
         /\ \A f \in DOMAIN companions : f \in DOMAIN accompanied /\ accompanied[f] = companions[f]
    BY <1>7 DEF Merge
  <1>18. /\ \A f \in DOMAIN mixed : f \in DOMAIN accompanied \/ f \in DOMAIN handed
         /\ \A f \in DOMAIN accompanied : f \notin DOMAIN handed =>
              f \in DOMAIN mixed /\ mixed[f] = accompanied[f]
    BY <1>8 DEF Merge
  <1>19. \A f \in Judged(id) : f \in DOMAIN mixed /\ mixed[f] = DocumentsOf(id, Of(f))[f]
    <2>1. Judged(id) \cap {"manifest", "manifest_v0", "result_v0", "handoff_verifier"} = {}
      BY BesideAre DEF Beside
    <2> HIDE DEF Of
    <2> QED BY <1>9, <1>11, <1>12, <1>15, <1>16, <1>17, <1>18, <2>1
  <1>20. DOMAIN mixed \subseteq Judged(id) \cup Beside
    BY <1>11, <1>12, <1>15, <1>16, <1>17, <1>18 DEF Beside
  <1>21. Single(mixed, id)
    BY <1>20, BesideAre DEF Single
  <1>22. \A f \in Judged(id) : \E r \in Runs : OfRun(id, r, f, mixed[f])
    <2>1. ASSUME NEW f \in Judged(id) PROVE \E r \in Runs : OfRun(id, r, f, mixed[f])
      <3>1. PICK r \in Runs : r = Of(f)
        BY DEF Runs
      <3>2. mixed[f] = DocumentsOf(id, r)[f]
        BY <1>19, <3>1
      <3>3. CASE id = LabTrust
        <4>1. DocumentsOf(id, r) = LabTrustDocuments(r, OldHeads, "old")
          BY <3>3, IdsDiffer DEF DocumentsOf
        <4> QED BY <3>2, <3>3, <4>1, HeadsAre DEF OfRun
      <3> QED BY <3>2, <3>3 DEF OfRun
    <2> QED BY <2>1
  <1>23. Accompanied(mixed, id)
    <2>1. "handoff_pf" \notin DOMAIN mixed
      <3>1. "handoff_pf" \notin Judged(id)
        BY BesideAre DEF Beside
      <3> QED BY <3>1, <1>11, <1>12, <1>15, <1>16, <1>17, <1>18
    <2>2. mixed["manifest_v0"] = ManifestV0For(full, SpecOf(id), {"result_v0"})
      BY <1>11, <1>12, <1>17, <1>18
    <2>3. "certified" \in DOMAIN mixed /\ mixed["certified"] = full["certified"]
      BY <1>9, <1>15, <1>16, <1>19, BesideAre
    <2> QED BY <2>1, <2>2, <2>3 DEF Accompanied, ManifestV0For
  <1> QED BY <1>14, <1>21, <1>22, <1>23 DEF Sound

(* An edit of a directory of the first run.                                *)
LEMMA ChangedKeepsRun ==
    ASSUME NEW doc, "run" \in DOMAIN doc, NEW pointer, pointer # "run", NEW value
    PROVE  Changed(doc, pointer, value)["run"] = doc["run"]
  <1> DEFINE below == {p \in DOMAIN doc : /\ Len(p) > Len(pointer)
                                         /\ SubSeq(p, 1, Len(pointer) + 1) = pointer \o "/"}
             kept0 == Without(doc, ({pointer} \cup below) \ {"run"})
             left0 == {n \in kept0["nested"] : n.under # pointer}
  <1>1. PICK kept : kept = kept0
    OBVIOUS
  <1>2. PICK left : left = left0
    OBVIOUS
  <1>3. Dropped(doc, pointer) = IF "nested" \in DOMAIN kept THEN With(kept, "nested", left) ELSE kept
    BY <1>1, <1>2 DEF Dropped
  <1>4. PICK gone : "run" \notin gone /\ kept = Without(doc, gone)
    BY <1>1
  <1> HIDE DEF kept0, left0, below
  <1>5. "run" \in DOMAIN kept /\ kept["run"] = doc["run"]
    BY <1>4 DEF Without
  <1>6. "run" \in DOMAIN Dropped(doc, pointer) /\ Dropped(doc, pointer)["run"] = doc["run"]
    BY <1>3, <1>5 DEF With
  <1>7. With(doc, pointer, value)["run"] = doc["run"]
    BY DEF With
  <1> QED BY <1>6, <1>7 DEF Changed

LEMMA FirstIsTagged ==
    ASSUME NEW id \in {LabTrust, ToolUse, Computation}, NEW dir, Sound(dir, id),
           \A f \in SpecOf(id).artifacts \cap DOMAIN dir : At(dir[f], "run") \in {"r1", Absent}
    PROVE  \A f \in Judged(id) \cap DOMAIN dir : "run" \in DOMAIN dir[f] /\ dir[f]["run"] = "r1"
  <1> SUFFICES ASSUME NEW f \in Judged(id), f \in DOMAIN dir
               PROVE  "run" \in DOMAIN dir[f] /\ dir[f]["run"] = "r1"
    OBVIOUS
  <1>1. PICK r \in Runs : OfRun(id, r, f, dir[f])
    BY DEF Sound
  <1>2. IsDocument(dir[f]) /\ "run" \in DOMAIN dir[f] /\ dir[f]["run"] = r
    BY <1>1, OfRunTagged
  <1>3. At(dir[f], "run") = r
    BY <1>2, AtMeans
  <1>4. r # Absent
    BY SentinelAssumption
  <1> QED BY <1>2, <1>3, <1>4 DEF Judged

LEMMA EditedFirst ==
    ASSUME NEW id \in {LabTrust, ToolUse, Computation}, NEW dir, Sound(dir, id),
           \A f \in SpecOf(id).artifacts \cap DOMAIN dir : At(dir[f], "run") \in {"r1", Absent},
           NEW left \in Edited(dir)
    PROVE  FirstOrGarbled(left, id) /\ FirstOrGarbled(Redigested(left), id)
  <1>1. \A f \in Judged(id) \cap DOMAIN dir : "run" \in DOMAIN dir[f] /\ dir[f]["run"] = "r1"
    BY FirstIsTagged
  <1>2. Single(dir, id)
    BY DEF Sound
  <1>3. ASSUME NEW f, left = Without(dir, {f}) PROVE FirstOrGarbled(left, id)
    <2>1. \A q \in DOMAIN left : q \in DOMAIN dir /\ left[q] = dir[q]
      BY <1>3 DEF Without
    <2> QED BY <1>1, <1>2, <2>1 DEF FirstOrGarbled, Single
  <1>4. ASSUME NEW f \in DOMAIN dir, left = With(dir, f, Garbled) PROVE FirstOrGarbled(left, id)
    <2>1. /\ DOMAIN left = DOMAIN dir /\ left[f] = Garbled
          /\ \A q \in DOMAIN dir : q # f => left[q] = dir[q]
      BY <1>4 DEF With
    <2> QED BY <1>1, <1>2, <2>1 DEF FirstOrGarbled, Single
  <1>5. ASSUME NEW e \in Edits, e[1] \in DOMAIN dir,
               left = With(dir, e[1], Changed(dir[e[1]], e[2], e[3]))
        PROVE  FirstOrGarbled(left, id)
    <2>1. PICK doc : doc = Changed(dir[e[1]], e[2], e[3])
      OBVIOUS
    <2>2. PICK f : f = e[1]
      OBVIOUS
    <2>3. /\ DOMAIN left = DOMAIN dir /\ left[f] = doc
          /\ \A q \in DOMAIN dir : q # f => left[q] = dir[q]
      BY <1>5, <2>1, <2>2 DEF With
    <2>4. f \in Judged(id) => doc["run"] = "r1"
      BY <1>1, <1>5, <2>1, <2>2, EditsAssumption, ChangedKeepsRun
    <2> QED BY <1>1, <1>2, <2>3, <2>4 DEF FirstOrGarbled, Single
  <1>6. FirstOrGarbled(left, id)
    BY <1>3, <1>4, <1>5 DEF Edited
  <1>7. Redigested(left) = left \/ \E doc : Redigested(left) = With(left, "manifest", doc)
    BY DEF Redigested
  <1>8. ASSUME NEW doc, NEW w, w = With(left, "manifest", doc) PROVE FirstOrGarbled(w, id)
    <2>1. DOMAIN w = DOMAIN left \cup {"manifest"} /\ \A q \in DOMAIN left : q # "manifest" => w[q] = left[q]
      BY <1>8 DEF With
    <2>2. "manifest" \in Beside
      BY DEF Beside
    <2>3. \A q \in Judged(id) \cap DOMAIN w : q \in DOMAIN left /\ w[q] = left[q]
      BY <2>1, <2>2, BesideAre
    <2>4. Single(w, id)
      BY <1>6, <2>1, <2>2, BesideAre DEF FirstOrGarbled, Single
    <2> QED BY <1>6, <2>3, <2>4 DEF FirstOrGarbled
  <1> QED BY <1>6, <1>7, <1>8

(* The target that nobody has touched holds documents of runs, and one     *)
(* that was edited those of the first.                                     *)
TargetInv ==
    /\ profile \in {LabTrust, ToolUse, Computation}
    /\ phase = "chain" => profile = LabTrust /\ touched = {}
    /\ touched = {} => Sound(target, profile)
    /\ touched = {"edited"} => FirstOrGarbled(target, profile)

LEMMA EmptySound ==
    ASSUME NEW dir, DOMAIN dir = {}, NEW id
    PROVE  Sound(dir, id)
  BY DEF Sound, Single, Accompanied

LEMMA InitTarget == Init => TargetInv
  <1> SUFFICES ASSUME Init PROVE TargetInv
    OBVIOUS
  <1>1. touched = {}
    BY DEF Init
  <1>2. CASE phase = "chain"
    <2>1. profile = LabTrust /\ DOMAIN target = {}
      BY <1>2 DEF Init, NoDirectory
    <2> QED BY <1>1, <2>1, EmptySound DEF TargetInv
  <1>3. CASE phase # "chain"
    <2>1. /\ profile \in {LabTrust, ToolUse, Computation}
          /\ \E second, handoff : target = MixedFrom(profile, second, handoff)
      BY <1>3 DEF Init
    <2>2. Sound(target, profile)
      BY <2>1, MixedSound
    <2> QED BY <1>1, <1>3, <2>1, <2>2 DEF TargetInv
  <1> QED BY <1>2, <1>3

LEMMA StepKeepsTarget ==
    ASSUME ChainInv, RunInv, TargetInv, Next
    PROVE  TargetInv'
  <1>1. CASE \/ RunLab \/ Certify \/ Assemble \/ Verify \/ Sign \/ Import
             \/ \E repo \in DOMAIN OldHeads, commit \in {"new", "zero"} : MoveHead(repo, commit)
             \/ StartBuild \/ CopyNext \/ FinishBuild \/ AbandonBuild
    <2>1. UNCHANGED <<phase, profile, target, touched>>
      BY <1>1
      DEF RunLab, Certify, Assemble, Verify, Sign, Import, Stage, MoveHead, StartBuild, CopyNext,
          FinishBuild, AbandonBuild, targetVars
    <2> QED BY <2>1 DEF TargetInv
  <1>2. CASE Promote
    <2>1. /\ phase = "chain" /\ phase' = "audit" /\ target' \in PromotionStops(run)
          /\ profile' = profile /\ touched' = touched
      BY <1>2 DEF Promote
    <2>2. profile = LabTrust /\ touched = {}
      BY <2>1 DEF TargetInv
    <2>3. Sound(target', LabTrust)
      BY <2>1, RunSound, PromotionWithin, WithinSound
    <2> QED BY <2>1, <2>2, <2>3 DEF TargetInv
  <1>3. CASE Maintain
    <2>1. phase = "audit" /\ phase' = phase /\ profile' = profile /\ touched' = {"pinned"}
      BY <1>3 DEF Maintain
    <2>2. {"pinned"} # {} /\ {"pinned"} # {"edited"}
      OBVIOUS
    <2> QED BY <2>1, <2>2 DEF TargetInv
  <1>4. CASE Edit
    <2>1. /\ phase = "audit" /\ phase' = phase /\ profile' = profile /\ touched = {}
          /\ touched' = {"edited"} /\ IsFirstRun(target)
          /\ \E dir \in Edited(target) : target' \in {dir, Redigested(dir)}
      BY <1>4 DEF Edit
    <2>2. FirstOrGarbled(target', profile)
      BY <2>1, EditedFirst DEF TargetInv, IsFirstRun
    <2> QED BY <2>1, <2>2 DEF TargetInv
  <1>5. ASSUME NEW left, Audit(left), Sound(target, profile) => Sound(left, profile),
               FirstOrGarbled(target, profile) => FirstOrGarbled(left, profile)
        PROVE  TargetInv'
    BY <1>5 DEF Audit, TargetInv
  <1>6. CASE Materialize
    <2>1. PICK build \in BOOLEAN, skip \in BOOLEAN : Audit(MaterializeLean(target, build, skip))
      BY <1>6 DEF Materialize
    <2>2. PICK left : left = MaterializeLean(target, build, skip)
      OBVIOUS
    <2> QED BY <1>5, <2>1, <2>2, MaterializedKeeps DEF TargetInv
  <1>7. CASE CheckObligations
    <2>1. PICK left, result : Audit(left) /\ left = With(target, "lean_check", result)
      BY <1>7 DEF CheckObligations
    <2>2. "lean_check" \in Audited
      BY DEF Audited
    <2> QED BY <1>5, <2>1, <2>2, AuditedKeeps DEF TargetInv
  <1>8. CASE WriteResult
    <2>1. PICK left, result : Audit(left) /\ left = With(target, "result_v0", result)
      BY <1>8 DEF WriteResult
    <2>2. "result_v0" \in Audited
      BY DEF Audited
    <2> QED BY <1>5, <2>1, <2>2, AuditedKeeps DEF TargetInv
  <1> QED BY <1>1, <1>2, <1>3, <1>4, <1>6, <1>7, <1>8 DEF Next

-----------------------------------------------------------------------------
RunsInv == TypeOK /\ ChainInv /\ RunInv /\ TargetInv

LEMMA RunsFollowed == Spec => []RunsInv
  <1>1. Init => RunsInv
    BY InitTyped, InitChain, InitTarget DEF RunsInv
  <1>2. TypeOK /\ TypeOK' /\ RunsInv /\ [Next]_vars => RunsInv'
    <2>1. ASSUME RunsInv, UNCHANGED vars, TypeOK' PROVE RunsInv'
      <3>1. UNCHANGED <<profile, phase, stage, work, corpus, run, step, target, touched>>
        BY <2>1 DEF vars
      <3>2. RunInv' /\ TargetInv'
        BY <2>1, <3>1 DEF RunsInv, RunInv, Complete, TargetInv
      <3>3. ASSUME NEW h \in Heads, NEW signer \in HeadCommits, ChainIs(h, signer)
            PROVE  ChainIs(h, signer)'
        BY <3>1, <3>3 DEF ChainIs, Redone, First, Second
      <3>4. ChainInv'
        BY <2>1, <3>1, <3>3 DEF RunsInv, ChainInv
      <3> QED BY <2>1, <3>2, <3>4 DEF RunsInv
    <2>2. ASSUME RunsInv, Next, TypeOK' PROVE RunsInv'
      <3>1. ChainInv' /\ RunInv'
        BY <2>2, ProducersRun, BuildRun, AuditRun DEF Next, RunsInv
      <3>2. TargetInv'
        BY <2>2, StepKeepsTarget DEF RunsInv
      <3> QED BY <2>2, <3>1, <3>2 DEF RunsInv
    <2> QED BY <2>1, <2>2
  <1> QED BY <1>1, <1>2, TypeCorrect, PTL DEF Spec

(* A directory that validates, of whatever edits and wherever a promotion  *)
(* stopped, holds evidence, certificate and bundle of one run.             *)
THEOREM ValidatedAlwaysOneRun == Spec => []ValidatedIsOneRun
  <1>1. RunsInv => ValidatedIsOneRun
    <2> SUFFICES ASSUME RunsInv, "pinned" \notin touched, NEW dir \in {run, target}, Validates(dir)
                 PROVE  OneRun(dir, Settled(dir, profile))
      BY DEF ValidatedIsOneRun, Settled
    <2>1. Sound(dir, profile) \/ FirstOrGarbled(dir, profile)
      <3>1. CASE dir = run
        <4>1. CASE phase = "chain"
          BY <3>1, <4>1, RunSound DEF RunsInv, TargetInv
        <4>2. CASE phase # "chain"
          <5>1. DOMAIN run = {}
            BY <4>2 DEF RunsInv, TypeOK, RunInv
          <5> QED BY <3>1, <5>1, EmptySound
        <4> QED BY <4>1, <4>2
      <3>2. CASE dir = target
        BY <3>2 DEF RunsInv, TypeOK, TargetInv
      <3> QED BY <3>1, <3>2
    <2> QED BY <2>1, ValidatedOneRun DEF RunsInv, TargetInv
  <1> QED BY <1>1, RunsFollowed, PTL

(* With obligations that hold the signed bundle is of that run too.        *)
THEOREM AdmittedAlwaysOneRun == Spec => []AdmittedIsOneRun
  <1>1. RunsInv => AdmittedIsOneRun
    <2> SUFFICES ASSUME RunsInv, "pinned" \notin touched, Admitted(Extract(target)),
                        Validates(target), HandoffIsOwn(target)
                 PROVE  OneRun(target, Evidence(profile) \cup {"certified", "verification", "signed"})
      BY DEF AdmittedIsOneRun
    <2>1. Sound(target, profile) \/ FirstOrGarbled(target, profile)
      BY DEF RunsInv, TypeOK, TargetInv
    <2> QED BY <2>1, AdmittedOneRun DEF RunsInv, TargetInv
  <1> QED BY <1>1, RunsFollowed, PTL

-----------------------------------------------------------------------------
(* What an honest run directory holds.                                     *)

ReportedFields == {"verification_status", "strict", "allow_legacy", "bundle_shape",
                   "scientific_memory_commit"}

(* An import report, made stable at a commit.                              *)
IsReport(doc, pinned) ==
    /\ DOMAIN doc = ProducedFields \cup ReportedFields
    /\ doc["nested"] = {} /\ doc["source_repo"] = "sm"
    /\ doc["source_commit"] = pinned /\ doc["scientific_memory_commit"] = pinned
    /\ doc["verification_status"] = "passed" /\ doc["strict"] = "true"
    /\ doc["allow_legacy"] = "false" /\ doc["bundle_shape"] = "pcs_core"

LEMMA ReportStates ==
    ASSUME NEW q, NEW made, NEW pinned
    PROVE  IsReport(Normalized(ReportOf(q, made), pinned), pinned)
  <1> DEFINE fields == [verification_status |-> "passed", strict |-> "true",
                        allow_legacy |-> "false", bundle_shape |-> "pcs_core",
                        scientific_memory_commit |-> made]
  <1>1. DOMAIN fields = ReportedFields
    BY DEF ReportedFields
  <1>2. /\ fields["verification_status"] = "passed" /\ fields["strict"] = "true"
        /\ fields["allow_legacy"] = "false" /\ fields["bundle_shape"] = "pcs_core"
    OBVIOUS
  <1>3. PICK report : report = ReportOf(q, made)
    OBVIOUS
  <1>4. report = Produced(q, "sm", made, fields)
    BY <1>3 DEF ReportOf
  <1> HIDE DEF fields
  <1>5. IsProduced(report, q, "sm", made, fields)
    BY <1>1, <1>4, ProducedStates DEF ReportedFields
  <1>6. /\ DOMAIN report = ProducedFields \cup ReportedFields
        /\ report["nested"] = {} /\ report["source_repo"] = "sm"
        /\ report["verification_status"] = "passed" /\ report["strict"] = "true"
        /\ report["allow_legacy"] = "false" /\ report["bundle_shape"] = "pcs_core"
    BY <1>1, <1>2, <1>5 DEF IsProduced, ReportedFields
  <1>7. PICK once : once = With(report, "source_commit", pinned)
    OBVIOUS
  <1>8. /\ DOMAIN once = DOMAIN report \cup {"source_commit"}
        /\ once["source_commit"] = pinned
        /\ \A p \in DOMAIN report \ {"source_commit"} : once[p] = report[p]
    BY <1>7 DEF With
  <1>9. PICK doc : doc = With(once, "scientific_memory_commit", pinned)
    OBVIOUS
  <1>10. /\ DOMAIN doc = DOMAIN once \cup {"scientific_memory_commit"}
         /\ doc["scientific_memory_commit"] = pinned
         /\ \A p \in DOMAIN once \ {"scientific_memory_commit"} : doc[p] = once[p]
    BY <1>9 DEF With
  <1>11. doc = Normalized(ReportOf(q, made), pinned)
    BY <1>3, <1>7, <1>9 DEF Normalized
  <1>12. DOMAIN doc = ProducedFields \cup ReportedFields
    BY <1>6, <1>8, <1>10 DEF ProducedFields, ReportedFields
  <1>13. /\ doc["nested"] = {} /\ doc["source_repo"] = "sm"
         /\ doc["source_commit"] = pinned /\ doc["scientific_memory_commit"] = pinned
         /\ doc["verification_status"] = "passed" /\ doc["strict"] = "true"
         /\ doc["allow_legacy"] = "false" /\ doc["bundle_shape"] = "pcs_core"
    BY <1>6, <1>8, <1>10 DEF ProducedFields, ReportedFields
  <1> QED BY <1>11, <1>12, <1>13 DEF IsReport

PinKeys == {"pcs", "labtrust", "certifyedge", "pf", "sm"}

(* A manifest: the digests of the artifacts and the pins.                  *)
IsManifest(doc, dir, pins) ==
    /\ DOMAIN doc = PinKeys \cup {"artifacts"}
    /\ \A key \in PinKeys : doc[key] = pins[key]
    /\ DOMAIN doc["artifacts"] = LabTrustSpec.artifacts
    /\ \A f \in LabTrustSpec.artifacts : doc["artifacts"][f] = Digest(dir[f])

LEMMA ManifestStates ==
    ASSUME NEW dir, NEW pins, DOMAIN pins = PinKeys
    PROVE  IsManifest(ManifestFor(dir, LabTrustSpec, pins), dir, pins)
  <1>1. ~LabTrustSpec.named
    BY DEF LabTrustSpec
  <1>2. PICK digests : digests = [f \in LabTrustSpec.artifacts |-> Digest(dir[f])]
    OBVIOUS
  <1>3. PICK listing : listing = [artifacts |-> digests]
    OBVIOUS
  <1>4. DOMAIN listing = {"artifacts"} /\ listing["artifacts"] = digests
    BY <1>3
  <1>5. PICK doc : doc = Merge(pins, listing)
    OBVIOUS
  <1>6. doc = ManifestFor(dir, LabTrustSpec, pins)
    BY <1>1, <1>2, <1>3, <1>5 DEF ManifestFor
  <1>7. /\ DOMAIN doc = PinKeys \cup {"artifacts"} /\ doc["artifacts"] = digests
        /\ \A key \in PinKeys : key # "artifacts" => doc[key] = pins[key]
    BY <1>4, <1>5 DEF Merge
  <1>8. "artifacts" \notin PinKeys
    BY DEF PinKeys
  <1> QED BY <1>2, <1>6, <1>7, <1>8 DEF IsManifest

LEMMA PinsStated ==
    ASSUME NEW dir
    PROVE  /\ DOMAIN PinsOf(dir) = PinKeys
           /\ PinsOf(dir)["pcs"] = "old" /\ PinsOf(dir)["labtrust"] = dir["receipt"]["source_commit"]
           /\ PinsOf(dir)["certifyedge"] = dir["certificate"]["source_commit"]
           /\ PinsOf(dir)["pf"] = dir["verification"]["source_commit"]
           /\ PinsOf(dir)["sm"] = dir["report"]["source_commit"]
  BY DEF PinsOf, PinKeys

(* A complete release of one run, of which every repository's commit is    *)
(* known and pinned.                                                       *)
Honest(dir, r, h, pinned) ==
    /\ r \in Runs /\ DOMAIN dir = LabTrustSpec.artifacts \cup {"manifest"}
    /\ \A f \in DOMAIN dir : IsDocument(dir[f])
    /\ IsTrace(dir["trace"], r) /\ IsReceipt(dir["receipt"], r, h.labtrust)
    /\ IsCertificate(dir["certificate"], r, h.certifyedge)
    /\ IsPending(dir["pending"], r, h.labtrust)
    /\ IsCertified(dir["certified"], r, h.labtrust, h.certifyedge)
    /\ IsVerification(dir["verification"], dir["certified"], h.pf)
    /\ IsSigned(dir["signed"], dir["certified"], dir["verification"], h.pf)
    /\ IsReport(dir["report"], pinned)
    /\ IsManifest(dir["manifest"], dir, PinsOf(dir)) /\ dir["manifest"]["artifacts"] # Absent
    /\ {h.labtrust, h.certifyedge, h.pf, pinned} \subseteq {"old", "new"}

(* Of one run, the documents are those of one chain.                       *)
LEMMA OneChain ==
    ASSUME NEW h \in Heads, NEW signer \in HeadCommits, ChainIs(h, signer),
           Judged(LabTrust) \subseteq DOMAIN run, OneRun(run, Judged(LabTrust))
    PROVE  \E r \in Runs, g \in Heads, s \in HeadCommits :
             \A f \in Judged(LabTrust) : run[f] = LabTrustDocuments(r, g, s)[f]
  <1> DEFINE judged == Judged(LabTrust)
  <1>1. "trace" \in judged
    BY JudgedAre
  <1>2. \A f \in judged : run[f] = First[f] \/ run[f] = Second(h, signer)[f]
    BY DEF ChainIs
  <1>3. \A f \in judged : /\ First[f]["run"] = "r1"
                          /\ Second(h, signer)[f]["run"] = "r2"
    <2> TAKE f \in judged
    <2>1. OfRun(LabTrust, "r1", f, First[f]) /\ OfRun(LabTrust, "r2", f, Second(h, signer)[f])
      BY HeadsAre DEF OfRun, First, Second
    <2>2. "r1" \in Runs /\ "r2" \in Runs
      BY DEF Runs
    <2> QED BY <2>1, <2>2, OfRunTagged
  <1>4. \A f \in judged : run[f]["run"] = run["trace"]["run"]
    BY <1>1 DEF OneRun
  <1> HIDE DEF judged
  <1>5. CASE run["trace"]["run"] = "r1"
    <2>1. \A f \in judged : run[f] = LabTrustDocuments("r1", OldHeads, "old")[f]
      BY <1>2, <1>3, <1>4, <1>5 DEF First
    <2> QED BY <2>1, HeadsAre DEF Runs, judged
  <1>6. CASE run["trace"]["run"] = "r2"
    <2>1. \A f \in judged : run[f] = LabTrustDocuments("r2", h, signer)[f]
      BY <1>2, <1>3, <1>4, <1>6 DEF Second
    <2> QED BY <2>1 DEF Runs, judged
  <1> QED BY <1>1, <1>2, <1>3, <1>5, <1>6

LEMMA HonestRun ==
    ASSUME NEW dir, Complete(dir), DOMAIN dir \subseteq LabTrustSpec.artifacts \cup {"manifest"},
           "manifest" \in DOMAIN dir,
           NEW r \in Runs, NEW h \in Heads, NEW signer \in HeadCommits,
           \A f \in Judged(LabTrust) : dir[f] = LabTrustDocuments(r, h, signer)[f],
           dir["verification"]["source_commit"] = dir["signed"]["source_commit"]
    PROVE  \E pinned : Honest(dir, r, h, pinned)
  <1>1. PICK q \in Runs, made \in HeadCommits, pinned \in HeadCommits :
          dir["report"] = Normalized(ReportOf(q, made), pinned)
    BY DEF Complete
  <1>2. PICK docs : docs = LabTrustDocuments(r, h, signer)
    OBVIOUS
  <1>3. IsLabTrust(docs, r, h, signer)
    BY <1>2, LabTrustStates
  <1>4. \A f \in Judged(LabTrust) : dir[f] = docs[f]
    BY <1>2
  <1>5. /\ dir["trace"] = docs["trace"] /\ dir["receipt"] = docs["receipt"]
        /\ dir["certificate"] = docs["certificate"] /\ dir["pending"] = docs["pending"]
        /\ dir["certified"] = docs["certified"] /\ dir["verification"] = docs["verification"]
        /\ dir["signed"] = docs["signed"]
    BY <1>4, JudgedAre
  <1>6. signer = h.pf
    BY <1>3, <1>5 DEF IsLabTrust, IsVerification, IsSigned
  <1>7. /\ IsTrace(dir["trace"], r) /\ IsReceipt(dir["receipt"], r, h.labtrust)
        /\ IsCertificate(dir["certificate"], r, h.certifyedge)
        /\ IsPending(dir["pending"], r, h.labtrust)
        /\ IsCertified(dir["certified"], r, h.labtrust, h.certifyedge)
        /\ IsVerification(dir["verification"], dir["certified"], h.pf)
        /\ IsSigned(dir["signed"], dir["certified"], dir["verification"], h.pf)
    BY <1>3, <1>5, <1>6 DEF IsLabTrust
  <1>8. IsReport(dir["report"], pinned)
    BY <1>1, ReportStates
  <1>9. PICK built : built = With(docs, "report", Normalized(ReportOf(q, made), pinned))
    OBVIOUS
  <1>10. \A f \in LabTrustSpec.artifacts : dir[f] = built[f]
    <2>1. /\ DOMAIN built = DOMAIN docs \cup {"report"}
          /\ built["report"] = Normalized(ReportOf(q, made), pinned)
          /\ \A f \in DOMAIN docs \ {"report"} : built[f] = docs[f]
      BY <1>9 DEF With
    <2>2. DOMAIN docs = LabTrustSpec.artifacts
      BY <1>3 DEF IsLabTrust
    <2> QED BY <1>1, <1>4, <2>1, <2>2, LabTrustFiles
  <1>11. PICK manifest : manifest = ManifestFor(built, LabTrustSpec, PinsOf(built))
    OBVIOUS
  <1>12. dir["manifest"] = manifest
    BY <1>10, <1>11, ManifestOf DEF Complete
  <1>13. /\ Distinct(docs) /\ IsDocument(built["report"])
         /\ IsDocument(manifest) /\ manifest["artifacts"] # Absent
    <2> DEFINE Fine(r0, q0, h0, signer0, made0, pinned0) ==
           LET docs0  == LabTrustDocuments(r0, h0, signer0)
               built0 == With(docs0, "report", Normalized(ReportOf(q0, made0), pinned0))
               manifest0 == ManifestFor(built0, LabTrustSpec, PinsOf(built0))
           IN  /\ Distinct(docs0) /\ IsDocument(built0["report"])
               /\ IsDocument(manifest0) /\ manifest0.artifacts # Absent
    <2>1. \A r0, q0 \in Runs, h0 \in Heads, signer0, made0, pinned0 \in HeadCommits :
            Fine(r0, q0, h0, signer0, made0, pinned0)
      BY SentinelAssumption
    <2> HIDE DEF Fine
    <2>2. Fine(r, q, h, signer, made, pinned)
      BY <2>1
    <2> QED BY <1>2, <1>9, <1>11, <2>2 DEF Fine
  <1>14. DOMAIN dir = LabTrustSpec.artifacts \cup {"manifest"}
    BY DEF Complete
  <1>15. \A f \in DOMAIN dir : IsDocument(dir[f])
    <2>1. \A f \in Judged(LabTrust) : f \in DOMAIN docs
      BY <1>3, LabTrustFiles DEF IsLabTrust
    <2>2. \A f \in Judged(LabTrust) : IsDocument(dir[f])
      BY <1>4, <1>13, <2>1 DEF Distinct
    <2>3. IsDocument(dir["report"]) /\ IsDocument(dir["manifest"])
      BY <1>10, <1>12, <1>13, LabTrustFiles
    <2> QED BY <1>14, <2>2, <2>3, LabTrustFiles
  <1>16. IsManifest(dir["manifest"], dir, PinsOf(dir))
    BY PinsStated, ManifestStates DEF Complete
  <1>17. {h.labtrust, h.certifyedge, h.pf, pinned} \subseteq {"old", "new"}
    <2>1. {h.labtrust, h.certifyedge, h.pf, pinned} \subseteq HeadCommits
      BY HeadsAre DEF Repositories
    <2>2. /\ PinsOf(dir)["labtrust"] = h.labtrust /\ PinsOf(dir)["certifyedge"] = h.certifyedge
          /\ PinsOf(dir)["pf"] = h.pf /\ PinsOf(dir)["sm"] = pinned
      BY <1>7, <1>8, PinsStated DEF IsReceipt, IsCertificate, IsVerification, IsReport
    <2>3. \A key \in PinKeys : ~Placeholder(PinsOf(dir)[key])
      BY PinsStated DEF Complete
    <2>4. \A commit \in {h.labtrust, h.certifyedge, h.pf, pinned} : ~Placeholder(commit)
      BY <2>2, <2>3 DEF PinKeys
    <2> QED BY <2>1, <2>4 DEF HeadCommits, Placeholder
  <1>18. dir["manifest"]["artifacts"] # Absent
    BY <1>12, <1>13
  <1> QED BY <1>7, <1>8, <1>14, <1>15, <1>16, <1>17, <1>18 DEF Honest

(* What the engine reads of an honest release.                             *)
Readable(dir, h, pinned) ==
    /\ \A f \in LabTrustSpec.artifacts : f \in DOMAIN dir /\ IsDocument(dir[f]) /\ File(dir, f) = dir[f]
    /\ IsDocument(Manifest(dir)) /\ Manifest(dir) = dir["manifest"]
    /\ Listed(dir) # Absent /\ DOMAIN Listed(dir) = LabTrustSpec.artifacts
    /\ \A f \in LabTrustSpec.artifacts : Listed(dir)[f] = Digest(dir[f])
    /\ Pinned(dir, "pcs") = "old" /\ Pinned(dir, "labtrust") = h.labtrust
    /\ Pinned(dir, "certifyedge") = h.certifyedge /\ Pinned(dir, "pf") = h.pf
    /\ Pinned(dir, "sm") = pinned
    /\ \A f : f \notin DOMAIN dir => File(dir, f) = NoFile

LEMMA HonestReadable ==
    ASSUME NEW dir, NEW r, NEW h, NEW pinned, Honest(dir, r, h, pinned)
    PROVE  Readable(dir, h, pinned)
  <1>1. DOMAIN dir = LabTrustSpec.artifacts \cup {"manifest"} /\ \A f \in DOMAIN dir : IsDocument(dir[f])
    BY DEF Honest
  <1>2. /\ IsManifest(dir["manifest"], dir, PinsOf(dir)) /\ dir["manifest"]["artifacts"] # Absent
    BY DEF Honest
  <1>3. Manifest(dir) = dir["manifest"] /\ IsDocument(Manifest(dir))
    BY <1>1 DEF Manifest, File
  <1>4. Listed(dir) = dir["manifest"]["artifacts"]
    BY <1>2, <1>3, AtMeans DEF Listed, IsManifest
  <1>5. \A key \in PinKeys : Pinned(dir, key) = PinsOf(dir)[key]
    BY <1>2, <1>3, AtMeans DEF Pinned, IsManifest
  <1>6. /\ Pinned(dir, "pcs") = "old" /\ Pinned(dir, "labtrust") = h.labtrust
        /\ Pinned(dir, "certifyedge") = h.certifyedge /\ Pinned(dir, "pf") = h.pf
        /\ Pinned(dir, "sm") = pinned
    <2>1. /\ PinsOf(dir)["pcs"] = "old" /\ PinsOf(dir)["labtrust"] = h.labtrust
          /\ PinsOf(dir)["certifyedge"] = h.certifyedge
          /\ PinsOf(dir)["pf"] = h.pf /\ PinsOf(dir)["sm"] = pinned
      BY PinsStated, ZenonT(60) DEF Honest, IsReceipt, IsCertificate, IsVerification, IsReport
    <2> QED BY <1>5, <2>1 DEF PinKeys
  <1>7. \A f : f \notin DOMAIN dir => File(dir, f) = NoFile
    BY DEF File
  <1>8. \A f \in DOMAIN dir : File(dir, f) = dir[f]
    BY DEF File
  <1> QED BY <1>1, <1>2, <1>3, <1>4, <1>6, <1>7, <1>8 DEF Readable, IsManifest

(* The commits of a release, none of which is absent or a placeholder.     *)
Known(commit) == commit # Absent /\ ~Placeholder(commit)

LEMMA HonestCommits ==
    ASSUME NEW dir, NEW r, NEW h, NEW pinned, Honest(dir, r, h, pinned)
    PROVE  Known("old") /\ Known(h.labtrust) /\ Known(h.certifyedge) /\ Known(h.pf) /\ Known(pinned)
  <1>1. \A commit \in {"old", "new"} : Known(commit)
    BY SentinelAssumption DEF Known, Placeholder, HeadCommits
  <1> QED BY <1>1 DEF Honest

LEMMA HonestManifest ==
    ASSUME NEW dir, NEW r, NEW h, NEW pinned, Honest(dir, r, h, pinned)
    PROVE  /\ ManifestCodes(dir, LabTrustSpec) = {} /\ PresenceCodes(dir, LabTrustSpec) = {}
           /\ DigestCodes(dir, LabTrustSpec) = {}
  <1>1. Readable(dir, h, pinned)
    BY HonestReadable
  <1>2. ~LabTrustSpec.named /\ LabTrustSpec.pinned = PinKeys
    BY DEF LabTrustSpec, PinKeys
  <1>3. \A key \in PinKeys : Known(Pinned(dir, key))
    BY <1>1, HonestCommits DEF Readable, PinKeys
  <1>4. ManifestCodes(dir, LabTrustSpec) = {}
    BY <1>2, <1>3 DEF ManifestCodes, Issue, Known
  <1>5. PresenceCodes(dir, LabTrustSpec) = {} /\ DigestCodes(dir, LabTrustSpec) = {}
    BY <1>1 DEF Readable, PresenceCodes, DigestCodes, Issue
  <1> QED BY <1>4, <1>5

(* No file that is loaded is missing.                                      *)
LEMMA LabTrustLoads ==
    ASSUME NEW dir
    PROVE  /\ LoadedFiles(dir, LabTrustSpec) \subseteq LabTrustSpec.artifacts
           /\ LabTrustSpec.pcs \subseteq LabTrustSpec.artifacts
           /\ LabTrustSpec.handoffs = {"handoff_pf", "handoff_verifier"}
  <1> DEFINE files == {"trace", "receipt", "certificate", "pending", "certified",
                       "verification", "signed", "report"}
  <1>1. LabTrustSpec.artifacts = files
    BY DEF LabTrustSpec
  <1>2. \A s \in LabTrustSpec.pins : s.file \in files
    BY DEF LabTrustSpec, SourcePins, Pin
  <1>3. \A s \in LabTrustSpec.provenance : s.file \in files
    <2> DEFINE places == {<<"pending", "", "labtrust">>, <<"certified", "", "labtrust">>,
                          <<"signed", "science_claim_bundle", "labtrust">>,
                          <<"certified", "", "certifyedge">>, <<"signed", "", "certifyedge">>,
                          <<"verification", "", "pf">>, <<"signed", "", "pf">>}
               RuleAt(s) == Provenance(s[1], s[2], s[3], s[3], Mismatch(s[3]))
    <2>1. LabTrustSpec.provenance = {RuleAt(s) : s \in places}
      BY DEF LabTrustSpec
    <2>2. \A s : RuleAt(s).file = s[1]
      BY DEF Provenance
    <2>3. \A s \in places : s[1] \in {"pending", "certified", "signed", "verification"}
      <3> DEFINE In(f) == f \in {"pending", "certified", "signed", "verification"}
      <3>1. In("pending") /\ In("certified") /\ In("signed") /\ In("verification")
        OBVIOUS
      <3> HIDE DEF files, RuleAt, In
      <3>2. ASSUME NEW s \in places PROVE In(s[1])
        <4>1. \/ s = <<"pending", "", "labtrust">> \/ s = <<"certified", "", "labtrust">>
              \/ s = <<"signed", "science_claim_bundle", "labtrust">>
              \/ s = <<"certified", "", "certifyedge">> \/ s = <<"signed", "", "certifyedge">>
              \/ s = <<"verification", "", "pf">> \/ s = <<"signed", "", "pf">>
          OBVIOUS
        <4> HIDE DEF places
        <4>2. CASE s = <<"pending", "", "labtrust">>
          BY <4>2, <3>1
        <4>3. CASE s = <<"certified", "", "labtrust">>
          BY <4>3, <3>1
        <4>4. CASE s = <<"signed", "science_claim_bundle", "labtrust">>
          BY <4>4, <3>1
        <4>5. CASE s = <<"certified", "", "certifyedge">>
          BY <4>5, <3>1
        <4>6. CASE s = <<"signed", "", "certifyedge">>
          BY <4>6, <3>1
        <4>7. CASE s = <<"verification", "", "pf">>
          BY <4>7, <3>1
        <4>8. CASE s = <<"signed", "", "pf">>
          BY <4>8, <3>1
        <4> QED BY <4>1, <4>2, <4>3, <4>4, <4>5, <4>6, <4>7, <4>8
      <3> QED BY <3>2 DEF In
    <2>4. {"pending", "certified", "signed", "verification"} \subseteq files
      OBVIOUS
    <2> HIDE DEF places, RuleAt, files
    <2> QED BY <2>1, <2>2, <2>3, <2>4
  <1>4. \A s \in LabTrustSpec.imports : s.file \in files
    BY DEF LabTrustSpec, ImportPassed, Field
  <1>5. \A s \in LabTrustSpec.identities : s.file \in files
    <2> DEFINE verified == Identity("verification", "verified_input", "verified_input/bundle_hash",
                                    "verified_input_hash_mismatch", TRUE)
               signed   == Identity("signed", "", "signed_input_bundle_hash",
                                    "signed_input_hash_mismatch", TRUE)
    <2>1. LabTrustSpec.identities = {verified, signed}
      BY DEF LabTrustSpec
    <2>2. verified.file = "verification" /\ signed.file = "signed"
      BY DEF Identity
    <2> HIDE DEF verified, signed
    <2> QED BY <2>1, <2>2
  <1>6. \A s \in LabTrustSpec.carried : s.source \in files /\ s.carrier \in files
    <2> DEFINE places == {<<"certified", "evidence_bundle/certificate_refs">>,
                          <<"verification", "verified_input/certificate_id">>,
                          <<"signed", "science_claim_bundle/certificates/0/certificate_id">>}
               RuleAt(s)  == Carries("certificate", "certificate_id", s[1], s[2])
               embedded   == <<"certified", "certificates/0/certificate_id">>
               claimed    == <<"certified", "claim_artifact/certificate_refs">>
    <2>1. LabTrustSpec.carried = {RuleAt(embedded), RuleAt(claimed)} \cup {RuleAt(s) : s \in places}
      BY DEF LabTrustSpec, CarriedId
    <2>2. \A s : RuleAt(s).source = "certificate" /\ RuleAt(s).carrier = s[1]
      BY DEF Carries
    <2>3. \A s \in places : s[1] \in {"certified", "verification", "signed"}
      OBVIOUS
    <2>4. embedded[1] = "certified" /\ claimed[1] = "certified"
      OBVIOUS
    <2>5. {"certified", "verification", "signed", "certificate"} \subseteq files
      OBVIOUS
    <2> HIDE DEF places, RuleAt, files, embedded, claimed
    <2> QED BY <2>1, <2>2, <2>3, <2>4, <2>5
  <1>7. /\ LabTrustSpec.reads \cup {"signed"} \subseteq files /\ LabTrustSpec.banned = {}
        /\ LabTrustSpec.pcs \subseteq files /\ LabTrustSpec.id = LabTrust
        /\ LabTrustSpec.handoffs = {"handoff_pf", "handoff_verifier"}
    BY DEF LabTrustSpec
  <1> HIDE DEF files
  <1>8. LoadedFiles(dir, LabTrustSpec) \subseteq files
    BY <1>2, <1>3, <1>4, <1>5, <1>6, <1>7 DEF LoadedFiles
  <1> QED BY <1>1, <1>7, <1>8

LEMMA HonestRaises ==
    ASSUME NEW dir, NEW r, NEW h, NEW pinned, Honest(dir, r, h, pinned)
    PROVE  /\ ~Raises(dir, LabTrustSpec) /\ HandoffCodes(dir, LabTrustSpec) = {}
           /\ \A f \in {"handoff_verifier", "handoff_pf", "manifest_v0", "profile_v0",
                        "tool_trace", "witness"} : f \notin DOMAIN dir /\ File(dir, f) = NoFile
  <1>1. Readable(dir, h, pinned)
    BY HonestReadable
  <1>2. \A f \in {"handoff_verifier", "handoff_pf", "manifest_v0", "profile_v0", "tool_trace", "witness"} :
          f \notin DOMAIN dir /\ File(dir, f) = NoFile
    <2>1. DOMAIN dir = {"trace", "receipt", "certificate", "pending", "certified",
                        "verification", "signed", "report", "manifest"}
      BY DEF Honest, LabTrustSpec
    <2> QED BY <1>1, <2>1 DEF Readable
  <1>3. NoFile # Garbled
    BY SentinelAssumption
  <1>4. \A f \in LabTrustSpec.artifacts : File(dir, f) \notin {NoFile, Garbled}
    BY <1>1 DEF Readable, IsDocument
  <1>5. ~IdentityUnreadable(dir)
    <2> DEFINE order == <<"handoff_verifier", "handoff_pf", "manifest_v0">>
    <2>1. Len(order) = 3 /\ order[1] = "handoff_verifier" /\ order[2] = "handoff_pf" /\ order[3] = "manifest_v0"
      OBVIOUS
    <2> HIDE DEF order
    <2>2. \A k \in 1..Len(order) : File(dir, order[k]) # Garbled
      <3>1. \A k \in 1..Len(order) : k = 1 \/ k = 2 \/ k = 3
        BY <2>1
      <3> QED BY <1>2, <1>3, <2>1, <3>1
    <2> QED BY <2>2 DEF IdentityUnreadable, order
  <1>6. ~Raises(dir, LabTrustSpec)
    BY <1>2, <1>3, <1>4, <1>5, LabTrustLoads DEF Raises
  <1>7. HandoffCodes(dir, LabTrustSpec) = {}
    BY <1>2, LabTrustLoads DEF HandoffCodes, Issue
  <1> QED BY <1>2, <1>6, <1>7

(* Nothing that no release may carry.                                      *)
LEMMA NothingForbidden ==
    ASSUME NEW doc, IsDocument(doc), "local_dev" \notin DOMAIN doc, "nested" \in DOMAIN doc,
           \A n \in doc["nested"] : Known(n.commit),
           \A p \in {"source_commit", "scientific_memory_commit"} \cap DOMAIN doc : Known(doc[p])
    PROVE  ForbiddenCodes(doc) = {}
  <1>1. At(doc, "local_dev") # TRUE
    BY AtMeans, SentinelAssumption
  <1>2. ~Placeholder(Absent)
    BY SentinelAssumption DEF Placeholder, HeadCommits
  <1>3. ~Placeholder(At(doc, "source_commit")) /\ ~Placeholder(At(doc, "scientific_memory_commit"))
    BY <1>2, AtMeans DEF Known
  <1>4. Items(doc, "nested") \subseteq doc["nested"]
    BY AtMeans DEF Items
  <1>5. \A pair \in ProvenancePairs(doc, "") : ~Placeholder(pair[2])
    <2> DEFINE below == {n \in Items(doc, "nested") : "" = "" \/ n.under = ""}
               root  == <<At(doc, "source_repo"), At(doc, "source_commit")>>
    <2>1. ProvenancePairs(doc, "") = {<<n.repo, n.commit>> : n \in below} \cup {root}
      BY DEF ProvenancePairs
    <2>2. root[2] = At(doc, "source_commit")
      OBVIOUS
    <2>3. \A n \in below : <<n.repo, n.commit>>[2] = n.commit /\ ~Placeholder(n.commit)
      BY <1>4 DEF Known
    <2> HIDE DEF below, root
    <2> QED BY <1>3, <2>1, <2>2, <2>3
  <1>6. \A commit \in Commits(doc) : ~Placeholder(commit)
    BY <1>3, <1>5 DEF Commits
  <1> QED BY <1>1, <1>6 DEF ForbiddenCodes, Issue

LEMMA EmbeddedCommits ==
    ASSUME NEW certified, NEW verification, NEW n \in EmbeddedNodes(certified, verification)
    PROVE  \/ \E m \in certified["nested"] : n = Node("science_claim_bundle", m.repo, m.commit)
           \/ n = Node("science_claim_bundle", certified["source_repo"], certified["source_commit"])
           \/ n = Node("verification_result", verification["source_repo"], verification["source_commit"])
  BY DEF EmbeddedNodes

LEMMA NodeIs ==
    ASSUME NEW under, NEW repo, NEW commit
    PROVE  /\ Node(under, repo, commit).under = under /\ Node(under, repo, commit).repo = repo
           /\ Node(under, repo, commit).commit = commit
  BY DEF Node

(* The provenance of the signed bundle.                                    *)
LEMMA SignedNodes ==
    ASSUME NEW dir, NEW r, NEW h, NEW pinned, Honest(dir, r, h, pinned), NEW n \in dir["signed"]["nested"]
    PROVE  \/ n.under = "science_claim_bundle" /\ n.repo = "certifyedge" /\ n.commit = h.certifyedge
           \/ n.under = "science_claim_bundle" /\ n.repo = "labtrust" /\ n.commit = h.labtrust
           \/ n.under = "verification_result" /\ n.repo = "pf" /\ n.commit = h.pf
  <1> DEFINE certified == dir["certified"]
             verification == dir["verification"]
  <1>1. n \in EmbeddedNodes(certified, verification)
    BY DEF Honest, IsSigned
  <1>2. /\ certified["source_repo"] = "labtrust" /\ certified["source_commit"] = h.labtrust
        /\ verification["source_repo"] = "pf" /\ verification["source_commit"] = h.pf
        /\ certified["nested"] = {Node("certificates", "certifyedge", h.certifyedge)}
    BY DEF Honest, IsCertified, IsVerification
  <1> HIDE DEF certified, verification
  <1> QED BY <1>1, <1>2, EmbeddedCommits, NodeIs

LEMMA HonestScan ==
    ASSUME NEW dir, NEW r, NEW h, NEW pinned, Honest(dir, r, h, pinned)
    PROVE  ScanCodes(dir, LabTrustSpec) = {}
  <1>1. Readable(dir, h, pinned)
    BY HonestReadable
  <1>2. Known(h.labtrust) /\ Known(h.certifyedge) /\ Known(h.pf) /\ Known(pinned)
    BY HonestCommits
  <1>3. LabTrustSpec.artifacts = {"trace", "receipt", "certificate", "pending", "certified",
                                  "verification", "signed", "report"}
    BY DEF LabTrustSpec
  <1>4. \A f \in LabTrustSpec.artifacts : IsDocument(dir[f])
    BY <1>1 DEF Readable
  <1>5. ForbiddenCodes(dir["trace"]) = {}
    <2> DEFINE doc == dir["trace"]
    <2>1. IsDocument(doc) /\ IsTrace(doc, r)
      BY <1>3, <1>4 DEF Honest
    <2> HIDE DEF doc
    <2> QED BY <2>1, NothingForbidden DEF IsTrace, doc
  <1>6. ForbiddenCodes(dir["receipt"]) = {}
    <2> DEFINE doc == dir["receipt"]
    <2>1. IsDocument(doc) /\ IsReceipt(doc, r, h.labtrust)
      BY <1>3, <1>4 DEF Honest
    <2> HIDE DEF doc
    <2> QED BY <1>2, <2>1, NothingForbidden DEF IsReceipt, ProducedFields, doc
  <1>7. ForbiddenCodes(dir["certificate"]) = {}
    <2> DEFINE doc == dir["certificate"]
    <2>1. IsDocument(doc) /\ IsCertificate(doc, r, h.certifyedge)
      BY <1>3, <1>4 DEF Honest
    <2> HIDE DEF doc
    <2> QED BY <1>2, <2>1, NothingForbidden DEF IsCertificate, ProducedFields, doc
  <1>8. ForbiddenCodes(dir["pending"]) = {}
    <2> DEFINE doc == dir["pending"]
    <2>1. IsDocument(doc) /\ IsPending(doc, r, h.labtrust)
      BY <1>3, <1>4 DEF Honest
    <2> HIDE DEF doc
    <2> QED BY <1>2, <2>1, NothingForbidden DEF IsPending, ProducedFields, doc
  <1>9. ForbiddenCodes(dir["certified"]) = {}
    <2> DEFINE doc == dir["certified"]
    <2>1. IsDocument(doc) /\ IsCertified(doc, r, h.labtrust, h.certifyedge)
      BY <1>3, <1>4 DEF Honest
    <2> HIDE DEF doc
    <2>2. \A n \in doc["nested"] : Known(n.commit)
      BY <1>2, <2>1, NodeIs DEF IsCertified
    <2> QED BY <1>2, <2>1, <2>2, NothingForbidden DEF IsCertified, ProducedFields, BundleFields, doc
  <1>10. ForbiddenCodes(dir["verification"]) = {}
    <2> DEFINE doc == dir["verification"]
    <2>1. IsDocument(doc) /\ IsVerification(doc, dir["certified"], h.pf)
      BY <1>3, <1>4 DEF Honest
    <2> HIDE DEF doc
    <2> QED BY <1>2, <2>1, NothingForbidden DEF IsVerification, ProducedFields, ResultFields, doc
  <1>11. ForbiddenCodes(dir["signed"]) = {}
    <2> DEFINE doc == dir["signed"]
    <2>1. IsDocument(doc) /\ IsSigned(doc, dir["certified"], dir["verification"], h.pf)
      BY <1>3, <1>4 DEF Honest
    <2>2. \A n \in doc["nested"] : Known(n.commit)
      BY <1>2, SignedNodes
    <2> HIDE DEF doc
    <2>3. /\ DOMAIN doc = ProducedFields \cup EmbeddedFields \cup SigningFields
          /\ doc["source_commit"] = h.pf
      BY <2>1 DEF IsSigned
    <2>4. /\ "local_dev" \notin DOMAIN doc /\ "nested" \in DOMAIN doc
          /\ "scientific_memory_commit" \notin DOMAIN doc
      BY <2>3 DEF ProducedFields, EmbeddedFields, SigningFields
    <2> QED BY <1>2, <2>1, <2>2, <2>3, <2>4, NothingForbidden DEF doc
  <1>12. ForbiddenCodes(dir["report"]) = {}
    <2> DEFINE doc == dir["report"]
    <2>1. IsDocument(doc) /\ IsReport(doc, pinned)
      BY <1>3, <1>4 DEF Honest
    <2> HIDE DEF doc
    <2> QED BY <1>2, <2>1, NothingForbidden DEF IsReport, ProducedFields, ReportedFields, doc
  <1>13. \A f \in LabTrustSpec.artifacts : ForbiddenCodes(dir[f]) = {}
    BY <1>3, <1>5, <1>6, <1>7, <1>8, <1>9, <1>10, <1>11, <1>12
  <1>14. SemanticCodes(LabTrust, "trace", dir["trace"]) = {}
    <2>1. IsDocument(dir["trace"]) /\ IsTrace(dir["trace"], r)
      BY <1>3, <1>4 DEF Honest
    <2>2. LabTrace(r).trace_hash # Absent /\ LabTrace(r).trace_hash = <<"trace", r>>
      BY SentinelAssumption DEF LabTrace, Honest
    <2>3. At(dir["trace"], "trace_hash") # Absent /\ At(dir["trace"], "events") # {}
      BY <2>1, <2>2, AtMeans DEF IsTrace
    <2> QED BY <2>3 DEF SemanticCodes, Issue
  <1>15. SemanticCodes(LabTrust, "report", dir["report"]) = {}
    <2>1. ReportFields \subseteq DOMAIN dir["report"]
      BY DEF Honest, IsReport, ReportFields, ProducedFields, ReportedFields
    <2>2. ReportConforms(LabTrust, dir["report"])
      BY <2>1 DEF ReportConforms
    <2> QED BY <2>2 DEF SemanticCodes, Issue
  <1>16. \A f \in LabTrustSpec.artifacts : SemanticCodes(LabTrust, f, dir[f]) = {}
    <2>1. \A f \in {"receipt", "certificate", "pending", "certified", "verification", "signed"} :
            SemanticCodes(LabTrust, f, dir[f]) = {}
      BY DEF SemanticCodes
    <2> QED BY <1>3, <1>14, <1>15, <2>1
  <1> DEFINE present == LabTrustSpec.artifacts \cap DOMAIN dir
             loaded  == {f \in present : IsDocument(dir[f])}
  <1>17. loaded = present /\ loaded \subseteq LabTrustSpec.artifacts
    BY <1>4
  <1>18. ScanCodes(dir, LabTrustSpec) =
           Issue(loaded # present, "schema_validation_failed")
             \cup UNION {SemanticCodes(LabTrust, f, dir[f]) \cup ForbiddenCodes(dir[f]) : f \in loaded}
    BY SpecIds DEF ScanCodes
  <1> HIDE DEF present, loaded
  <1> QED BY <1>13, <1>16, <1>17, <1>18 DEF Issue

(* What the artifacts of an honest release state.                          *)
HonestStates(dir, r, h) ==
    LET hash == <<"trace", r>>
        id   == CertificateId(r)
    IN  /\ At(dir["trace"], "trace_hash") = hash /\ At(dir["receipt"], "trace_hash") = hash
        /\ At(dir["certificate"], "trace_hash") = hash /\ At(dir["certificate"], "certificate_id") = id
        /\ At(dir["pending"], "runtime_receipts/0/trace_hash") = hash
        /\ At(dir["pending"], "certificates/0/trace_hash") = Absent
        /\ At(dir["certified"], "certificates/0/certificate_id") = id
        /\ At(dir["certified"], "certificates/0/trace_hash") = hash
        /\ At(dir["certified"], "runtime_receipts/0/trace_hash") = hash
        /\ At(dir["certified"], "claim_artifact/certificate_refs") = {id}
        /\ At(dir["certified"], "evidence_bundle/certificate_refs") = {id}
        /\ At(dir["verification"], "status") = "ProofChecked"
        /\ At(dir["verification"], "checks") = {"passed"}
        /\ At(dir["verification"], "verified_input") = Object
        /\ At(dir["verification"], "verified_input/bundle_hash") = Digest(dir["certified"])
        /\ At(dir["verification"], "verified_input/certificate_id") = id
        /\ At(dir["verification"], "verified_input/trace_hash") = hash
        /\ At(dir["signed"], "signed_input_bundle_hash") = Digest(dir["certified"])
        /\ At(dir["signed"], "signature_or_digest") = "sealed"
        /\ At(dir["signed"], "science_claim_bundle/certificates/0/certificate_id") = id
        /\ At(dir["signed"], "science_claim_bundle/certificates/0/trace_hash") = hash
        /\ At(dir["signed"], "science_claim_bundle/runtime_receipts/0/trace_hash") = hash
        /\ At(dir["signed"], "verification_result/status") = "ProofChecked"
        /\ At(dir["signed"], "verification_result/checks") = {"passed"}
        /\ At(dir["signed"], "verification_result/verified_input/trace_hash") = hash
        /\ At(dir["certificate"], "status") = "CertificateChecked"

LEMMA HonestStated ==
    ASSUME NEW dir, NEW r, NEW h, NEW pinned, Honest(dir, r, h, pinned)
    PROVE  HonestStates(dir, r, h)
  <1> DEFINE hash == <<"trace", r>>
             id   == CertificateId(r)
  <1>1. \A f \in {"trace", "receipt", "certificate", "pending", "certified", "verification", "signed"} :
          IsDocument(dir[f])
    BY DEF Honest, LabTrustSpec
  <1> HIDE DEF hash, id
  <1>2. /\ IsTrace(dir["trace"], r) /\ IsReceipt(dir["receipt"], r, h.labtrust)
        /\ IsCertificate(dir["certificate"], r, h.certifyedge)
        /\ IsPending(dir["pending"], r, h.labtrust)
        /\ IsCertified(dir["certified"], r, h.labtrust, h.certifyedge)
        /\ IsVerification(dir["verification"], dir["certified"], h.pf)
        /\ IsSigned(dir["signed"], dir["certified"], dir["verification"], h.pf)
    BY DEF Honest
  <1>3. /\ At(dir["trace"], "trace_hash") = hash /\ At(dir["receipt"], "trace_hash") = hash
        /\ At(dir["certificate"], "trace_hash") = hash /\ At(dir["certificate"], "certificate_id") = id
        /\ At(dir["certificate"], "status") = "CertificateChecked"
    <2>1. At(dir["trace"], "trace_hash") = hash
      BY <1>1, <1>2, AtMeans DEF IsTrace, hash
    <2>2. At(dir["receipt"], "trace_hash") = hash
      BY <1>1, <1>2, AtMeans DEF IsReceipt, hash
    <2>3. /\ At(dir["certificate"], "trace_hash") = hash
          /\ At(dir["certificate"], "certificate_id") = id
          /\ At(dir["certificate"], "status") = "CertificateChecked"
      BY <1>1, <1>2, AtMeans DEF IsCertificate, hash, id
    <2> QED BY <2>1, <2>2, <2>3
  <1>4. /\ At(dir["pending"], "runtime_receipts/0/trace_hash") = hash
        /\ At(dir["pending"], "certificates/0/trace_hash") = Absent
    BY <1>1, <1>2, AtMeans DEF IsPending, ProducedFields, hash
  <1>5. /\ \A p \in BundleFields : At(dir["certified"], p) = dir["certified"][p]
        /\ dir["certified"]["certificates/0"] = Object
        /\ dir["certified"]["runtime_receipts/0"] = Object
        /\ dir["certified"]["certificates/0/certificate_id"] = id
        /\ dir["certified"]["certificates/0/trace_hash"] = hash
        /\ dir["certified"]["runtime_receipts/0/trace_hash"] = hash
        /\ dir["certified"]["claim_artifact/certificate_refs"] = {id}
        /\ dir["certified"]["evidence_bundle/certificate_refs"] = {id}
    BY <1>1, <1>2, AtMeans DEF IsCertified, Carrying, hash, id
  <1>6. /\ At(dir["certified"], "certificates/0/certificate_id") = id
        /\ At(dir["certified"], "certificates/0/trace_hash") = hash
        /\ At(dir["certified"], "runtime_receipts/0/trace_hash") = hash
        /\ At(dir["certified"], "claim_artifact/certificate_refs") = {id}
        /\ At(dir["certified"], "evidence_bundle/certificate_refs") = {id}
    BY <1>5 DEF BundleFields
  <1>7. /\ \A p \in ResultFields : At(dir["verification"], p) = dir["verification"][p]
        /\ dir["verification"]["status"] = "ProofChecked"
        /\ dir["verification"]["checks"] = {"passed"}
        /\ dir["verification"]["verified_input"] = Object
        /\ dir["verification"]["verified_input/bundle_hash"] = Digest(dir["certified"])
        /\ dir["verification"]["verified_input/certificate_id"] = id
        /\ dir["verification"]["verified_input/trace_hash"] = hash
    BY <1>1, <1>2, <1>5, AtMeans DEF IsVerification
  <1>8. /\ At(dir["verification"], "status") = "ProofChecked"
        /\ At(dir["verification"], "checks") = {"passed"}
        /\ At(dir["verification"], "verified_input") = Object
        /\ At(dir["verification"], "verified_input/bundle_hash") = Digest(dir["certified"])
        /\ At(dir["verification"], "verified_input/certificate_id") = id
        /\ At(dir["verification"], "verified_input/trace_hash") = hash
    BY <1>7 DEF ResultFields
  <1>9. /\ \A p \in EmbeddedFields \cup SigningFields : At(dir["signed"], p) = dir["signed"][p]
        /\ dir["signed"]["signed_input_bundle_hash"] = Digest(dir["certified"])
        /\ dir["signed"]["signature_or_digest"] = "sealed"
        /\ dir["signed"]["science_claim_bundle/certificates/0/certificate_id"] = id
        /\ dir["signed"]["science_claim_bundle/certificates/0/trace_hash"] = hash
        /\ dir["signed"]["science_claim_bundle/runtime_receipts/0/trace_hash"] = hash
        /\ dir["signed"]["verification_result/status"] = "ProofChecked"
        /\ dir["signed"]["verification_result/checks"] = {"passed"}
        /\ dir["signed"]["verification_result/verified_input/trace_hash"] = hash
    BY <1>1, <1>2, <1>5, <1>7, AtMeans DEF IsSigned
  <1>10. /\ At(dir["signed"], "signed_input_bundle_hash") = Digest(dir["certified"])
         /\ At(dir["signed"], "signature_or_digest") = "sealed"
         /\ At(dir["signed"], "science_claim_bundle/certificates/0/certificate_id") = id
         /\ At(dir["signed"], "science_claim_bundle/certificates/0/trace_hash") = hash
         /\ At(dir["signed"], "science_claim_bundle/runtime_receipts/0/trace_hash") = hash
         /\ At(dir["signed"], "verification_result/status") = "ProofChecked"
         /\ At(dir["signed"], "verification_result/checks") = {"passed"}
         /\ At(dir["signed"], "verification_result/verified_input/trace_hash") = hash
    BY <1>9 DEF EmbeddedFields, SigningFields
  <1> QED BY <1>3, <1>4, <1>6, <1>8, <1>10 DEF HonestStates, hash, id

LEMMA HonestAligned ==
    ASSUME NEW dir, NEW r, NEW h, NEW pinned, Honest(dir, r, h, pinned)
    PROVE  LabTrustAlignment(dir) = {}
  <1> DEFINE hash == <<"trace", r>>
             Stated(f, pointer) == At(File(dir, f), pointer)
             bundled ==
               {<<"certified", "certificates/0", "certificates/0/trace_hash">>,
                <<"certified", "runtime_receipts/0", "runtime_receipts/0/trace_hash">>,
                <<"signed", "science_claim_bundle/certificates/0",
                  "science_claim_bundle/certificates/0/trace_hash">>,
                <<"signed", "science_claim_bundle/runtime_receipts/0",
                  "science_claim_bundle/runtime_receipts/0/trace_hash">>}
             verified ==
               {<<"verification", "verified_input", "verified_input/trace_hash">>,
                <<"signed", "verification_result/verified_input",
                  "verification_result/verified_input/trace_hash">>}
  <1>1. \A f \in {"trace", "receipt", "certificate", "certified", "verification", "signed"} : File(dir, f) = dir[f]
    BY HonestReadable DEF Readable, LabTrustSpec
  <1>2. HonestStates(dir, r, h)
    BY HonestStated
  <1> HIDE DEF hash
  <1>3. /\ Stated("trace", "trace_hash") = hash /\ Stated("receipt", "trace_hash") = hash
        /\ Stated("certificate", "trace_hash") = hash
        /\ Stated("certified", "certificates/0/trace_hash") = hash
        /\ Stated("certified", "runtime_receipts/0/trace_hash") = hash
        /\ Stated("signed", "science_claim_bundle/certificates/0/trace_hash") = hash
        /\ Stated("signed", "science_claim_bundle/runtime_receipts/0/trace_hash") = hash
        /\ Stated("verification", "verified_input/trace_hash") = hash
        /\ Stated("signed", "verification_result/verified_input/trace_hash") = hash
    BY <1>1, <1>2 DEF HonestStates, hash
  <1> HIDE DEF Stated
  <1>4. (\E s \in bundled : Stated(s[1], s[2]) = Object /\ Stated(s[1], s[3]) # hash) <=> FALSE
    BY <1>3
  <1>5. (\E s \in verified : hash # Absent /\ Stated(s[1], s[2]) = Object /\ Stated(s[1], s[3]) # hash) <=> FALSE
    BY <1>3
  <1> HIDE DEF bundled, verified
  <1>6. ~ \/ Stated("trace", "trace_hash") # Stated("receipt", "trace_hash")
          \/ Stated("trace", "trace_hash") # Stated("certificate", "trace_hash")
          \/ \E s \in bundled : /\ Stated(s[1], s[2]) = Object
                                /\ Stated(s[1], s[3]) # Stated("trace", "trace_hash")
          \/ \E s \in verified : /\ Stated("trace", "trace_hash") # Absent
                                 /\ Stated(s[1], s[2]) = Object
                                 /\ Stated(s[1], s[3]) # Stated("trace", "trace_hash")
    BY <1>3, <1>4, <1>5
  <1> QED BY <1>6 DEF LabTrustAlignment, Issue, Stated, bundled, verified

LEMMA HonestFiles ==
    ASSUME NEW dir, NEW r, NEW h, NEW pinned, Honest(dir, r, h, pinned)
    PROVE  ValidateFileCodes(dir, LabTrustSpec) = {}
  <1> DEFINE hash == <<"trace", r>>
  <1>1. HonestStates(dir, r, h)
    BY HonestStated
  <1>2. hash # Absent /\ Absent # ""
    <2>1. LabTrace(r).trace_hash # Absent /\ LabTrace(r).trace_hash = hash
      BY SentinelAssumption DEF LabTrace, Honest
    <2> QED BY <2>1, SentinelAssumption
  <1> HIDE DEF hash
  <1>3. \A f \in LabTrustSpec.pcs : IsDocument(dir[f])
    BY DEF Honest, LabTrustSpec
  <1>4. LabTrustSpec.pcs = {"receipt", "certificate", "pending", "certified", "verification", "signed"}
    BY DEF LabTrustSpec
  <1>5. /\ BundleConforms(dir["pending"], "runtime_receipts/0/trace_hash", "certificates/0/trace_hash")
        /\ BundleConforms(dir["certified"], "runtime_receipts/0/trace_hash", "certificates/0/trace_hash")
        /\ BundleConforms(dir["signed"], "science_claim_bundle/runtime_receipts/0/trace_hash",
                          "science_claim_bundle/certificates/0/trace_hash")
    BY <1>1, <1>2 DEF HonestStates, BundleConforms, hash
  <1>6. /\ VerificationConforms(dir["verification"], "checks", "status")
        /\ VerificationConforms(dir["signed"], "verification_result/checks", "verification_result/status")
    BY <1>1 DEF HonestStates, VerificationConforms, Items
  <1>a. /\ Required("receipt") = {"trace_hash", "source_commit"}
        /\ Required("certificate") = {"certificate_id", "trace_hash", "status", "source_commit"}
        /\ Required("pending") = {}
    BY DEF Required
  <1>7. At(dir["receipt"], "signature_or_digest") # "" /\ Required("receipt") \subseteq DOMAIN dir["receipt"]
    <2>1. /\ DOMAIN dir["receipt"] = ProducedFields \cup {"trace_hash", "signature_or_digest"}
          /\ dir["receipt"]["signature_or_digest"] = "sealed"
      BY DEF Honest, IsReceipt
    <2>2. {"trace_hash", "source_commit", "signature_or_digest"} \subseteq DOMAIN dir["receipt"]
      BY <2>1 DEF ProducedFields
    <2> QED BY <1>3, <1>4, <1>a, <2>1, <2>2, AtMeans
  <1>8. /\ At(dir["certificate"], "signature_or_digest") # ""
        /\ Required("certificate") \subseteq DOMAIN dir["certificate"]
    <2>1. /\ DOMAIN dir["certificate"] = ProducedFields
               \cup {"trace_hash", "certificate_id", "status", "signature_or_digest"}
          /\ dir["certificate"]["signature_or_digest"] = "sealed"
      BY DEF Honest, IsCertificate
    <2>2. {"trace_hash", "certificate_id", "status", "source_commit", "signature_or_digest"}
            \subseteq DOMAIN dir["certificate"]
      BY <2>1 DEF ProducedFields
    <2> QED BY <1>3, <1>4, <1>a, <2>1, <2>2, AtMeans
  <1>9. At(dir["pending"], "signature_or_digest") # "" /\ Required("pending") \subseteq DOMAIN dir["pending"]
    <2>1. "signature_or_digest" \notin DOMAIN dir["pending"]
      BY DEF Honest, IsPending, ProducedFields
    <2> QED BY <1>2, <1>3, <1>4, <1>a, <2>1, AtMeans
  <1>10. At(dir["certified"], "signature_or_digest") # "" /\ Required("certified") \subseteq DOMAIN dir["certified"]
    <2>1. DOMAIN dir["certified"] = ProducedFields \cup BundleFields
      BY DEF Honest, IsCertified
    <2>2. "signature_or_digest" \notin DOMAIN dir["certified"]
      BY <2>1 DEF ProducedFields, BundleFields
    <2> QED BY <1>2, <1>3, <1>4, <2>2, AtMeans DEF Required
  <1>11. /\ At(dir["verification"], "signature_or_digest") # ""
         /\ Required("verification") \subseteq DOMAIN dir["verification"]
    <2>1. DOMAIN dir["verification"] = ProducedFields \cup ResultFields
      BY DEF Honest, IsVerification
    <2>2. /\ "signature_or_digest" \notin DOMAIN dir["verification"]
          /\ {"status", "checks", "source_commit"} \subseteq DOMAIN dir["verification"]
      BY <2>1 DEF ProducedFields, ResultFields
    <2> QED BY <1>2, <1>3, <1>4, <2>2, AtMeans DEF Required
  <1>12. At(dir["signed"], "signature_or_digest") # "" /\ Required("signed") \subseteq DOMAIN dir["signed"]
    <2>1. DOMAIN dir["signed"] = ProducedFields \cup EmbeddedFields \cup SigningFields
      BY DEF Honest, IsSigned
    <2>2. {"source_commit", "signature_or_digest"} \subseteq DOMAIN dir["signed"]
      BY <2>1 DEF ProducedFields, SigningFields
    <2> QED BY <1>1, <2>2 DEF HonestStates, Required
  <1>13. /\ Conforms("receipt", dir["receipt"]) /\ Conforms("certificate", dir["certificate"])
         /\ Conforms("pending", dir["pending"]) /\ Conforms("certified", dir["certified"])
         /\ Conforms("verification", dir["verification"]) /\ Conforms("signed", dir["signed"])
    BY <1>5, <1>6, <1>7, <1>8, <1>9, <1>10, <1>11, <1>12 DEF Conforms
  <1>14. \A f \in LabTrustSpec.pcs : Conforms(f, dir[f])
    BY <1>4, <1>13
  <1> QED BY <1>14 DEF ValidateFileCodes, Issue

(* Neither a pin nor a node of provenance is off.                          *)
LEMMA HonestPins ==
    ASSUME NEW dir, NEW r, NEW h, NEW pinned, Honest(dir, r, h, pinned), NEW c
    PROVE  c \notin PinCodes(dir, LabTrustSpec)
  <1>1. Readable(dir, h, pinned)
    BY HonestReadable
  <1>2. \A f \in {"receipt", "certificate", "verification", "signed", "report"} : IsDocument(dir[f])
    BY DEF Honest, LabTrustSpec
  <1>3. /\ At(dir["receipt"], "source_commit") = h.labtrust
        /\ At(dir["certificate"], "source_commit") = h.certifyedge
    BY <1>2, AtMeans DEF Honest, IsReceipt, IsCertificate, ProducedFields
  <1>4. /\ At(dir["verification"], "source_commit") = h.pf /\ At(dir["signed"], "source_commit") = h.pf
    <2>1. /\ "source_commit" \in DOMAIN dir["verification"] /\ "source_commit" \in DOMAIN dir["signed"]
          /\ dir["verification"]["source_commit"] = h.pf /\ dir["signed"]["source_commit"] = h.pf
      BY DEF Honest, IsVerification, IsSigned, ProducedFields
    <2> QED BY <1>2, <2>1, AtMeans
  <1>5. /\ At(dir["report"], "source_commit") = pinned
        /\ At(dir["report"], "scientific_memory_commit") = pinned
    BY <1>2, AtMeans DEF Honest, IsReport, ProducedFields, ReportedFields
  <1> QED BY <1>1, <1>3, <1>4, <1>5, LabTrustPinsFound DEF Readable, Off

PairOf(doc, root, pair) ==
    \/ \E n \in doc["nested"] :
         pair[1] = n.repo /\ pair[2] = n.commit /\ (root = "" \/ n.under = root)
    \/ root = "" /\ pair[1] = At(doc, "source_repo") /\ pair[2] = At(doc, "source_commit")

LEMMA PairsAre ==
    ASSUME NEW doc, NEW root, NEW pair \in ProvenancePairs(doc, root),
           IsDocument(doc), "nested" \in DOMAIN doc
    PROVE  PairOf(doc, root, pair)
  <1> DEFINE below == {n \in Items(doc, "nested") : root = "" \/ n.under = root}
             own   == <<At(doc, "source_repo"), At(doc, "source_commit")>>
  <1>1. ProvenancePairs(doc, root) =
          {<<n.repo, n.commit>> : n \in below} \cup (IF root = "" THEN {own} ELSE {})
    BY DEF ProvenancePairs
  <1>2. own[1] = At(doc, "source_repo") /\ own[2] = At(doc, "source_commit")
    OBVIOUS
  <1>3. Items(doc, "nested") \subseteq doc["nested"]
    BY AtMeans DEF Items
  <1>4. ASSUME NEW n \in below, pair = <<n.repo, n.commit>>
        PROVE  n \in doc["nested"] /\ pair[1] = n.repo /\ pair[2] = n.commit /\ (root = "" \/ n.under = root)
    BY <1>3, <1>4
  <1> HIDE DEF below, own
  <1> QED BY <1>1, <1>2, <1>4 DEF PairOf

LEMMA NoneOff ==
    ASSUME NEW dir, NEW f, NEW root, NEW key, NEW commit, Pinned(dir, key) = commit,
           NEW doc, doc = dir[f], IsDocument(doc), "nested" \in DOMAIN doc,
           \A n \in doc["nested"] : n.repo = key => n.commit = commit,
           At(doc, "source_repo") = key => At(doc, "source_commit") = commit
    PROVE  ~OffBelow(dir, f, root, key)
  <1>1. ASSUME NEW pair \in ProvenancePairs(doc, root), pair[1] = key PROVE pair[2] = commit
    <2>1. PairOf(doc, root, pair)
      BY PairsAre
    <2> QED BY <1>1, <2>1 DEF PairOf
  <1> QED BY <1>1 DEF OffBelow

LEMMA HonestProvenance ==
    ASSUME NEW dir, NEW r, NEW h, NEW pinned, Honest(dir, r, h, pinned), NEW c
    PROVE  c \notin ProvenanceCodes(dir, LabTrustSpec)
  <1>1. Readable(dir, h, pinned)
    BY HonestReadable
  <1>2. \A f \in {"pending", "certified", "verification", "signed"} : IsDocument(dir[f])
    BY DEF Honest, LabTrustSpec
  <1>3. /\ "nested" \in DOMAIN dir["pending"] /\ dir["pending"]["nested"] = {}
        /\ At(dir["pending"], "source_commit") = h.labtrust
    BY <1>2, AtMeans DEF Honest, IsPending, ProducedFields
  <1>4. /\ "nested" \in DOMAIN dir["certified"]
        /\ At(dir["certified"], "source_repo") = "labtrust" /\ At(dir["certified"], "source_commit") = h.labtrust
        /\ \A n \in dir["certified"]["nested"] : n.repo = "certifyedge" /\ n.commit = h.certifyedge
    <2>1. IsCertified(dir["certified"], r, h.labtrust, h.certifyedge) /\ IsDocument(dir["certified"])
      BY <1>2 DEF Honest
    <2>2. /\ {"nested", "source_repo", "source_commit"} \subseteq DOMAIN dir["certified"]
          /\ dir["certified"]["nested"] = {Node("certificates", "certifyedge", h.certifyedge)}
          /\ dir["certified"]["source_repo"] = "labtrust" /\ dir["certified"]["source_commit"] = h.labtrust
      BY <2>1 DEF IsCertified, ProducedFields
    <2> QED BY <2>1, <2>2, AtMeans, NodeIs
  <1>5. /\ "nested" \in DOMAIN dir["verification"] /\ dir["verification"]["nested"] = {}
        /\ At(dir["verification"], "source_commit") = h.pf
    <2>1. /\ {"nested", "source_commit"} \subseteq DOMAIN dir["verification"]
          /\ dir["verification"]["nested"] = {} /\ dir["verification"]["source_commit"] = h.pf
      BY DEF Honest, IsVerification, ProducedFields
    <2> QED BY <1>2, <2>1, AtMeans
  <1>6. /\ "nested" \in DOMAIN dir["signed"]
        /\ At(dir["signed"], "source_repo") = "pf" /\ At(dir["signed"], "source_commit") = h.pf
    <2>1. /\ {"nested", "source_repo", "source_commit"} \subseteq DOMAIN dir["signed"]
          /\ dir["signed"]["source_repo"] = "pf" /\ dir["signed"]["source_commit"] = h.pf
      BY DEF Honest, IsSigned, ProducedFields
    <2> QED BY <1>2, <2>1, AtMeans
  <1>7. \A n \in dir["signed"]["nested"] :
          \/ n.repo = "certifyedge" /\ n.commit = h.certifyedge
          \/ n.repo = "labtrust" /\ n.commit = h.labtrust
          \/ n.repo = "pf" /\ n.commit = h.pf
    BY SignedNodes
  <1>8. ~OffBelow(dir, "pending", "", "labtrust")
    BY <1>1, <1>2, <1>3, NoneOff DEF Readable
  <1>9. ~OffBelow(dir, "certified", "", "labtrust") /\ ~OffBelow(dir, "certified", "", "certifyedge")
    BY <1>1, <1>2, <1>4, NoneOff, ZenonT(60) DEF Readable
  <1>10. ~OffBelow(dir, "verification", "", "pf")
    BY <1>1, <1>2, <1>5, NoneOff DEF Readable
  <1>11. /\ ~OffBelow(dir, "signed", "science_claim_bundle", "labtrust")
         /\ ~OffBelow(dir, "signed", "", "certifyedge") /\ ~OffBelow(dir, "signed", "", "pf")
    BY <1>1, <1>2, <1>6, <1>7, NoneOff, ZenonT(60) DEF Readable
  <1> QED BY <1>8, <1>9, <1>10, <1>11, LabTrustProvenanceFound

(* The identity of the bundle is its own digest.                           *)
LEMMA HonestIdentity ==
    ASSUME NEW dir, NEW r, NEW h, NEW pinned, Honest(dir, r, h, pinned)
    PROVE  BundleIdentity(dir) = Digest(dir["certified"])
  <1>1. /\ File(dir, "handoff_verifier") = NoFile /\ File(dir, "handoff_pf") = NoFile
        /\ File(dir, "manifest_v0") = NoFile
    BY HonestRaises
  <1>2. \A p : At(NoFile, p) = Absent
    BY DEF At, IsDocument
  <1>3. Readable(dir, h, pinned) /\ "certified" \in LabTrustSpec.artifacts
    BY HonestReadable DEF LabTrustSpec
  <1>4. /\ File(dir, "manifest") = Manifest(dir)
        /\ At(Manifest(dir), "artifacts") = Listed(dir) /\ Listed(dir) # Absent
        /\ "certified" \in DOMAIN Listed(dir) /\ Listed(dir)["certified"] = Digest(dir["certified"])
        /\ "certified" \in DOMAIN dir
    BY <1>3 DEF Readable, Manifest, Listed
  <1>5. \A value : OrElse(Absent, value) = value /\ OrElse(value, value) = value
    BY DEF OrElse
  <1>6. (IF Absent = At(File(dir, "verification"), "verified_input/bundle_hash") THEN Absent ELSE Absent) = Absent
    OBVIOUS
  <1> QED BY <1>1, <1>2, <1>4, <1>5, <1>6 DEF BundleIdentity

LEMMA HonestFields ==
    ASSUME NEW dir, NEW r, NEW h, NEW pinned, Honest(dir, r, h, pinned)
    PROVE  FieldCodes(dir, LabTrustSpec) = {}
  <1> DEFINE id == CertificateId(r)
             bundle == Digest(dir["certified"])
  <1>1. HonestStates(dir, r, h) /\ Readable(dir, h, pinned) /\ BundleIdentity(dir) = bundle
    BY HonestStated, HonestReadable, HonestIdentity
  <1>2. {id} # Absent /\ Object # Absent
    BY SentinelAssumption DEF Honest
  <1>3. \A f \in {"certificate", "certified", "verification", "signed", "report"} : File(dir, f) = dir[f]
    BY <1>1 DEF Readable, LabTrustSpec
  <1>4. IsReport(dir["report"], pinned) /\ IsDocument(dir["report"])
    BY DEF Honest, LabTrustSpec
  <1> HIDE DEF id, bundle
  <1>5. ASSUME NEW c PROVE c \notin StatusCodes(dir, LabTrustSpec)
    BY <1>1, LabTrustStatusesFound DEF HonestStates
  <1>6. ASSUME NEW c PROVE c \notin ImportCodes(dir, LabTrustSpec)
    <2>1. /\ At(dir["report"], "verification_status") = "passed" /\ At(dir["report"], "strict") = "true"
          /\ At(dir["report"], "allow_legacy") = "false" /\ At(dir["report"], "bundle_shape") = "pcs_core"
      BY <1>4, AtMeans DEF IsReport, ReportedFields
    <2> QED BY <2>1, LabTrustImportsFound
  <1>7. ASSUME NEW c PROVE c \notin CertificateIdCodes(dir, LabTrustSpec)
    <2>1. /\ At(File(dir, "certificate"), "certificate_id") = id
          /\ At(File(dir, "certified"), "certificates/0/certificate_id") = id
          /\ At(File(dir, "verification"), "verified_input/certificate_id") = id
          /\ At(File(dir, "signed"), "science_claim_bundle/certificates/0/certificate_id") = id
      BY <1>1, <1>3 DEF HonestStates, id
    <2>2. /\ id \in Items(File(dir, "certified"), "claim_artifact/certificate_refs")
          /\ id \in Items(File(dir, "certified"), "evidence_bundle/certificate_refs")
      BY <1>1, <1>2, <1>3 DEF HonestStates, Items, id
    <2> QED BY <2>1, <2>2, LabTrustIdsFound
  <1>8. ASSUME NEW c PROVE c \notin IdentityCodes(dir, LabTrustSpec)
    <2>1. /\ At(File(dir, "verification"), "verified_input/bundle_hash") = bundle
          /\ At(File(dir, "signed"), "signed_input_bundle_hash") = bundle
      BY <1>1, <1>3 DEF HonestStates, bundle
    <2> QED BY <1>1, <2>1, LabTrustIdentitiesFound
  <1>9. ASSUME NEW c PROVE c \notin ProofCodes(dir, LabTrustSpec)
    <2> DEFINE proof == <<"verification", "verified_input", "schema_validation_failed">>
    <2>1. LabTrustSpec.proofs = {proof} /\ proof[1] = "verification" /\ proof[2] = "verified_input"
      BY DEF LabTrustSpec
    <2>2. At(File(dir, "verification"), "verified_input") # Absent
      BY <1>1, <1>2, <1>3 DEF HonestStates
    <2> HIDE DEF proof
    <2> QED BY <2>1, <2>2 DEF ProofCodes
  <1>10. ASSUME NEW c PROVE c \notin SignatureCodes(dir)
    <2>1. At(dir["signed"], "signature_or_digest") = "sealed" /\ "sealed" # ""
      BY <1>1 DEF HonestStates
    <2>2. At(dir["signed"], "signature_or_digest") # Absent
      <3>1. "signature_or_digest" \in DOMAIN dir["signed"] /\ IsDocument(dir["signed"])
        <4>1. IsSigned(dir["signed"], dir["certified"], dir["verification"], h.pf)
          BY DEF Honest
        <4> QED BY <1>1, <4>1 DEF IsSigned, SigningFields, Readable, LabTrustSpec
      <3> QED BY <2>1, <3>1, SentinelAssumption
    <2> QED BY <2>1, <2>2 DEF SignatureCodes, Issue
  <1>11. ASSUME NEW c PROVE c \notin FieldCodes(dir, LabTrustSpec)
    BY <1>5, <1>6, <1>7, <1>8, <1>9, <1>10, HonestPins, HonestProvenance, LabTrustSignatureAndBan,
       FieldCodesAre
  <1> QED BY <1>11

(* Nothing is left that an honest release could be refused for.            *)
LEMMA HonestValidates ==
    ASSUME NEW dir, NEW r, NEW h, NEW pinned, Honest(dir, r, h, pinned)
    PROVE  Validates(dir)
  <1>1. Readable(dir, h, pinned) /\ ~Raises(dir, LabTrustSpec)
    BY HonestReadable, HonestRaises
  <1>2. DetectProfile(dir) = LabTrust
    <2>1. /\ File(dir, "profile_v0") = NoFile /\ File(dir, "manifest_v0") = NoFile
          /\ "tool_trace" \notin DOMAIN dir /\ "witness" \notin DOMAIN dir
      BY HonestRaises
    <2>2. \A p : At(NoFile, p) = Absent
      BY DEF At, IsDocument
    <2>3. At(File(dir, "manifest"), "workflow_profile_id") = Absent
      <3>1. "workflow_profile_id" \notin DOMAIN dir["manifest"]
        BY DEF Honest, IsManifest, PinKeys
      <3> QED BY <1>1, <3>1, AtMeans DEF Readable, Manifest
    <2>4. "trace" \in DOMAIN dir
      BY <1>1 DEF Readable, LabTrustSpec
    <2>5. \A value : OrElse(Absent, value) = value
      BY DEF OrElse
    <2> QED BY <2>1, <2>2, <2>3, <2>4, <2>5 DEF DetectProfile
  <1>3. /\ AlignmentCodes(LabTrustSpec.id, dir) = {} /\ DomainCodes(LabTrustSpec.id, dir) = {}
    <2>1. LabTrustSpec.id = LabTrust /\ LabTrustAlignment(dir) = {}
      BY SpecIds, HonestAligned
    <2> QED BY <2>1, IdsDiffer DEF AlignmentCodes, DomainCodes
  <1>4. ProfileCodes(dir, LabTrustSpec) = {}
    <2>1. Manifest(dir) # NoFile /\ Manifest(dir) # Garbled /\ Listed(dir) # Absent
      BY <1>1 DEF Readable, IsDocument
    <2>2. ProfileCodes(dir, LabTrustSpec) =
            UNION {ManifestCodes(dir, LabTrustSpec), PresenceCodes(dir, LabTrustSpec),
                   DigestCodes(dir, LabTrustSpec), ScanCodes(dir, LabTrustSpec),
                   AlignmentCodes(LabTrustSpec.id, dir), ValidateFileCodes(dir, LabTrustSpec),
                   HandoffCodes(dir, LabTrustSpec), FieldCodes(dir, LabTrustSpec),
                   DomainCodes(LabTrustSpec.id, dir)}
      BY <1>1, <2>1 DEF ProfileCodes
    <2>3. HandoffCodes(dir, LabTrustSpec) = {}
      BY HonestRaises
    <2> QED BY <1>3, <2>2, <2>3, HonestManifest, HonestScan, HonestFiles, HonestFields
  <1>5. LabTrust # Absent /\ LabTrust \in {s.id : s \in Specs} /\ SpecOf(LabTrust) = LabTrustSpec
    BY SentinelAssumption, SpecIdsAre, SpecIds
  <1> QED BY <1>2, <1>4, <1>5 DEF Validates, ValidateRelease

(* A complete run directory of one run, verified and signed at one commit, *)
(* is never refused: whatever a repository's move or the order of build    *)
(* and chain put into it.                                                  *)
THEOREM HonestRunsValidate == Spec => []HonestRunValidates
  <1>1. RunsInv => HonestRunValidates
    <2> SUFFICES ASSUME RunsInv, "manifest" \in DOMAIN run, OneRun(run, Judged(LabTrust)),
                        run["verification"]["source_commit"] = run["signed"]["source_commit"]
                 PROVE  Validates(run)
      BY LabTrustFiles DEF HonestRunValidates
    <2>1. RunInv /\ Complete(run) /\ DOMAIN run \subseteq LabTrustSpec.artifacts \cup {"manifest"}
      BY DEF RunsInv, RunInv
    <2>2. phase = "chain"
      BY <2>1 DEF RunsInv, TypeOK, RunInv
    <2>3. PICK h \in Heads, signer \in HeadCommits : ChainIs(h, signer)
      BY <2>2 DEF RunsInv, ChainInv
    <2>4. Judged(LabTrust) \subseteq DOMAIN run
      BY <2>1, LabTrustFiles DEF Complete
    <2>5. PICK r \in Runs, g \in Heads, s \in HeadCommits :
            \A f \in Judged(LabTrust) : run[f] = LabTrustDocuments(r, g, s)[f]
      BY <2>3, <2>4, OneChain
    <2>6. PICK pinned : Honest(run, r, g, pinned)
      BY <2>1, <2>5, HonestRun
    <2> QED BY <2>6, HonestValidates
  <1> QED BY <1>1, RunsFollowed, PTL
=============================================================================
