--------------------------- MODULE ReleaseProfile ---------------------------
(***************************************************************************)
(* The declarative release-profile engine (release_profile_engine.py): the *)
(* set of issue codes that validating a directory against a profile gives, *)
(* one operator per stage of run_structural_release_profile_validation.    *)
(* An exception of the validator is the outcome Raised: no list of issues. *)
(***************************************************************************)
EXTENDS ReleaseSpecs

Raised == {"exception"}

Manifest(dir) == File(dir, "manifest")
Listed(dir)   == At(Manifest(dir), "artifacts")
Pinned(dir, key) == At(Manifest(dir), key)

-----------------------------------------------------------------------------
\* The manifest: its profile, its commits, the set and digests of its files.

ManifestCodes(dir, spec) ==
  Issue(spec.named /\ At(Manifest(dir), "workflow_profile_id") # spec.id,
        "schema_validation_failed")
    \cup Issue(\E key \in spec.pinned : Pinned(dir, key) = Absent,
               "schema_validation_failed")
    \cup Issue(\E key \in spec.pinned : Placeholder(Pinned(dir, key)),
               "placeholder_commit_detected")

PresenceCodes(dir, spec) ==
  Issue(DOMAIN Listed(dir) # spec.artifacts, "schema_validation_failed")
    \cup Issue(~(spec.artifacts \subseteq DOMAIN dir), "artifact_missing")

\* A digest is taken of the bytes, whatever they are; a key the manifest lacks
\* has no digest to agree with.
DigestCodes(dir, spec) ==
  LET Agrees(f) == f \in DOMAIN Listed(dir) /\ Listed(dir)[f] = Digest(dir[f])
  IN  Issue(\E f \in spec.artifacts \cap DOMAIN dir : ~Agrees(f), "manifest_hash_mismatch")

ScanCodes(dir, spec) ==
  LET present == spec.artifacts \cap DOMAIN dir
      loaded  == {f \in present : IsDocument(dir[f])}
  IN  Issue(loaded # present, "schema_validation_failed")
        \cup UNION {SemanticCodes(spec.id, f, dir[f]) \cup ForbiddenCodes(dir[f]) :
                      f \in loaded}

ValidateFileCodes(dir, spec) ==
  Issue(\E f \in spec.pcs \cap DOMAIN dir : ~Conforms(f, dir[f]), "schema_validation_failed")

\* validate_file of the handoffs that are there, and then
\* validate_workflow_profile_declarations: their kind is one that the schema
\* and the profile's sequence know, in its order.  Bound: of a profile's
\* handoff manifests the one to the verifier is modelled, whose order cannot
\* be off, and of LabTrust's two legacy handoffs the one to pf.
HandoffCodes(dir, spec) ==
  Issue(\E f \in spec.handoffs \cap DOMAIN dir : At(dir[f], "handoff_kind") = "unknown",
        "schema_validation_failed")

-----------------------------------------------------------------------------
\* The requirements on fields.  A document that was not loaded meets every
\* requirement but a proof, and the target of a certificate id.

StatusCodes(dir, spec) ==
  {r.code : r \in {r \in spec.statuses :
     /\ IsDocument(File(dir, r.file))
     /\ At(dir[r.file], r.at) # r.value}}

\* Fault: only the root of a document is looked at.
FaultProvenance(dir, spec) ==
  {r.code : r \in {r \in spec.provenance :
     /\ IsDocument(File(dir, r.file))
     /\ At(dir[r.file], "source_repo") = r.repo
     /\ At(dir[r.file], "source_commit") # Pinned(dir, r.key)}}

PinCodes(dir, spec) ==
  {r.code : r \in {r \in spec.pins :
     /\ Pinned(dir, r.key) # Absent
     /\ IsDocument(File(dir, r.file))
     /\ At(dir[r.file], r.at) # Pinned(dir, r.key)}}

ProvenanceCodes(dir, spec) ==
  {r.code : r \in {r \in spec.provenance :
     /\ Pinned(dir, r.key) # Absent
     /\ IsDocument(File(dir, r.file))
     /\ \E pair \in ProvenancePairs(dir[r.file], r.root) :
          pair[1] = r.repo /\ pair[2] # Pinned(dir, r.key)}}

\* The id is one of a list of references, or the value of a field.
CarriesId(doc, pointer, id) ==
  IF pointer \in {"claim_artifact/certificate_refs", "evidence_bundle/certificate_refs"}
    THEN id \in Items(doc, pointer)
    ELSE At(doc, pointer) = id

CertificateIdCodes(dir, spec) ==
  Issue(\E r \in spec.carried :
          LET id == At(File(dir, r.source), r.id)
          IN  id # Absent /\ ~CarriesId(File(dir, r.carrier), r.at, id),
        "certificate_id_mismatch")

ImportCodes(dir, spec) ==
  {r.code : r \in {r \in spec.imports :
     /\ IsDocument(File(dir, r.file))
     /\ At(dir[r.file], r.at) # r.value}}

ProofCodes(dir, spec) ==
  {p[3] : p \in {p \in spec.proofs : At(File(dir, p[1]), p[2]) = Absent}}

\* A stated hash of the certified bundle is its identity; one that is missing
\* is an issue only where it is required and the object it belongs in is there.
IdentityCodes(dir, spec) ==
  LET identity == BundleIdentity(dir)
  IN  {r.code : r \in {r \in spec.identities :
         LET doc == File(dir, r.file)
             stated == At(doc, r.at)
         IN  /\ identity # Absent
             /\ IsDocument(doc)
             /\ r.parent = "" \/ At(doc, r.parent) = Object
             /\ IF stated = Absent THEN r.required ELSE stated # identity}}

SignatureCodes(dir) ==
  Issue(/\ IsDocument(File(dir, "signed"))
        /\ At(dir["signed"], "signature_or_digest") \in {Absent, ""}, "signature_missing")

BanCodes(dir, spec) ==
  {b[4] : b \in {b \in spec.banned : b[3] \in Items(File(dir, b[1]), b[2])}}

-----------------------------------------------------------------------------
\* Files whose absence raises FileNotFoundError instead of being an issue:
\* what the alignment, the pins, the bindings and the domain checks load.
LoadedFiles(dir, spec) ==
  {r.file : r \in {r \in spec.pins \cup spec.provenance : Pinned(dir, r.key) # Absent}}
    \cup {r.file : r \in spec.imports \cup spec.identities}
    \cup (UNION {{r.source, r.carrier} : r \in spec.carried})
    \cup spec.reads \cup {"signed"} \cup {b[1] : b \in spec.banned}
    \cup (IF spec.id = LabTrust THEN {} ELSE {"manifest_v0"})

\* validate_file, and the reader of the handoffs, do not catch a file that is
\* no JSON.
Raises(dir, spec) ==
  \/ \E f \in LoadedFiles(dir, spec) : File(dir, f) = NoFile
  \/ \E f \in spec.pcs \cup spec.handoffs : File(dir, f) = Garbled
  \/ IdentityUnreadable(dir)

FieldCodes(dir, spec) ==
  UNION {StatusCodes(dir, spec), PinCodes(dir, spec), ProvenanceCodes(dir, spec),
         CertificateIdCodes(dir, spec), ImportCodes(dir, spec), ProofCodes(dir, spec),
         IdentityCodes(dir, spec), SignatureCodes(dir), BanCodes(dir, spec)}

\* run_structural_release_profile_validation.
ProfileCodes(dir, spec) ==
  CASE Manifest(dir) = NoFile  -> {"manifest_missing"}
    [] Manifest(dir) = Garbled -> {"schema_validation_failed"}
    [] OTHER ->
         IF Listed(dir) = Absent
           THEN ManifestCodes(dir, spec) \cup {"schema_validation_failed"}
         ELSE IF Raises(dir, spec) THEN Raised
         ELSE UNION {ManifestCodes(dir, spec), PresenceCodes(dir, spec),
                     DigestCodes(dir, spec), ScanCodes(dir, spec),
                     AlignmentCodes(spec.id, dir), ValidateFileCodes(dir, spec),
                     HandoffCodes(dir, spec), FieldCodes(dir, spec),
                     DomainCodes(spec.id, dir)}

\* validate_release_directory, and with it validate_release_chain: a
\* directory whose profile is not known is refused.
ValidateRelease(dir) ==
  LET id == DetectProfile(dir)
  IN  CASE id = Absent ->
             {IF Manifest(dir) = NoFile THEN "manifest_missing" ELSE "UnknownWorkflowProfile"}
        [] id # Absent /\ id \notin {s.id : s \in Specs} -> {"UnknownWorkflowProfile"}
        [] OTHER -> ProfileCodes(dir, SpecOf(id))
=============================================================================
