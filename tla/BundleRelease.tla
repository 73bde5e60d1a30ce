--------------------------- MODULE BundleRelease ---------------------------
(***************************************************************************)
(* From a checked trace to a published bundle: `pcs pf-core lean-check`    *)
(* leaves a certificate, `bundle-release` copies what it rests on into a   *)
(* directory, `attest-bundle` has the external checker look at it,         *)
(* `verify-bundle` says whether it may be relied on, and                   *)
(* `verify-proof-binding` judges the certificate where it was made.        *)
(* Translated from python/pcs_core/pf_core_bundle.py,                      *)
(* pf_core_proof_binding.py, pf_core_theorem_manifest.py and, for what     *)
(* they read, lean_check.py.                                               *)
(*                                                                         *)
(* The bundler copies file by file from a workspace others are changing,   *)
(* into a directory it does not clean, and may die at any point.  One      *)
(* lean-check runs at a time: several are the subject of LeanCheck.        *)
(*                                                                         *)
(* Hashes do not collide.  The text of a proof and its theorem manifest    *)
(* are the projection they were generated from; a semantic projection file *)
(* is the hash it declares, all that is ever looked at.  A trace is known  *)
(* by the hash it declares, which nobody recomputes.  `kernel` is the      *)
(* sources of PFCore with the lake project and the toolchain.              *)
(***************************************************************************)
EXTENDS ResolvedEvidence, Contracts, ExternalAttestation

CONSTANTS
    Traces, Hashes,     \* traces [hash, events, selection]; the hashes they declare
    Directories,        \* what may lie beside a trace
    Kernels, Mixed,     \* kernel sources; those of two kernels side by side
    Starts,             \* <<trace, directory, kernel>> to start from
    Mode,               \* the certificate mode of every check
    NoClaim,
    Environments, Refs, \* where attest-bundle runs; references the checker prints
    Damageable, Spoilt, \* bundle files that may be damaged; what becomes of them
    Site,               \* pin, provision environment and registered key of the verifier
    MaxChecks, MaxBundles, MaxEdits     \* bounds of the exploration

IsSequence(s) == s \in Seq(ToSet(s))
IsSelection(sel) ==
    \A kind \in {"handoffs", "contracts"} : Selects(sel, kind) => IsSequence(sel[kind])

ASSUME BundleReleaseAssumption ==
    /\ \A t \in Traces : t.hash \in Hashes
    /\ \A t \in Traces : IsSequence(t.events) /\ IsSelection(t.selection)
    /\ \A t \in Traces : \A i \in DOMAIN t.events : t.events[i].sequence \in Int
    /\ \A d \in Directories : \A part \in {"files", "nested", "toolUse"} : IsSequence(d[part])
    /\ \A d \in Directories : \A f, g \in FilesNear(d) :
          f.name # Embedded /\ (f.name = g.name => f = g)
    /\ PolicyId # Embedded
    /\ \A d \in Directories : \A f \in ToSet(d.files) \cup ToSet(d.nested) : f.name # PolicyId
    /\ \A d \in Directories : IsSelection(d.policy)
    /\ IsSequence(IdOrder)
    /\ Damageable \subseteq {"trace", "certificate", "result", "proof", "projection", "theorems",
                       "listing", "kernel", "manifest", "kernelManifest", "attestation", "notice"}
    /\ Spoilt \subseteq {NoFile, Garbled}
    /\ Starts \subseteq Traces \X Directories \X Kernels /\ Mixed \notin Kernels
    /\ MaxChecks \in Nat /\ MaxBundles \in Nat /\ MaxEdits \in Nat

VARIABLES
    trace, dir, kernel, \* the trace, the files beside it, the installed kernel
    proofs, sidecar,    \* Generated/: proof modules by trace hash, one pair of companions
    out,                \* output directory of lean-check
    lean,               \* the running lean-check: its place and what it proved
    bundler,            \* the running bundle-release: its place and its memory
    bundle,             \* the bundle directory
    issued,             \* claims Lean accepted (auxiliary)
    examined,           \* <<trace, directory>> the deciders let pass on to Lean (auxiliary)
    published,          \* claims verify-bundle let through (auxiliary)
    checkedLive,        \* <<manifest, trace>> a live checker was run on (auxiliary)
    quiet,              \* nothing changed since bundle-release began (auxiliary)
    spent               \* how many checks, bundles, edits and attestations so far (bounds)

inputs == <<trace, dir, kernel>>
workspace == <<inputs, proofs, sidecar, out>>
ghosts == <<issued, examined, published, checkedLive, quiet>>
vars == <<workspace, lean, bundler, bundle, ghosts, spent>>

Idle == [pc |-> "idle"]
Spend(what, max) == spent[what] < max /\ spent' = [spent EXCEPT ![what] = @ + 1]

NoOutput == [projection |-> NoFile, theorems |-> NoFile, certificate |-> NoFile, result |-> NoFile]
NoBundle == [trace |-> NoFile, certificate |-> NoFile, result |-> NoFile, proof |-> NoFile,
             projection |-> NoFile, theorems |-> NoFile, evidence |-> {}, listing |-> NoFile,
             kernel |-> NoFile, manifest |-> NoFile, kernelManifest |-> NoFile,
             attestation |-> NoFile, notice |-> NoFile]

Init ==
    /\ \E s \in Starts : trace = s[1] /\ dir = s[2] /\ kernel = s[3]
    /\ proofs = [h \in Hashes |-> NoFile] /\ sidecar = NoFile /\ out = NoOutput
    /\ lean = Idle /\ bundler = Idle /\ bundle = NoBundle
    /\ issued = {} /\ examined = {} /\ published = {} /\ checkedLive = {} /\ quiet = FALSE
    /\ spent = [checks |-> 0, bundles |-> 0, edits |-> 0]

Unreadable(f) == f \in {NoFile, Garbled}
BothSay(x, y) == x # NoFile /\ y # NoFile

(***************************************************************************)
(* The workspace changes, under a running bundler too.  A kernel is        *)
(* installed while no check runs.                                          *)
(***************************************************************************)
WorkspaceChanges == quiet' = (quiet /\ bundler = Idle)

EditInputs ==
    /\ Spend("edits", MaxEdits) /\ WorkspaceChanges
    /\ \/ \E t \in Traces \ {trace} : trace' = t /\ UNCHANGED <<dir, kernel>>
       \/ \E d \in Directories \ {dir} : dir' = d /\ UNCHANGED <<trace, kernel>>
       \/ \E k \in Kernels \ {kernel} : lean = Idle /\ kernel' = k /\ UNCHANGED <<trace, dir>>
    /\ UNCHANGED <<proofs, sidecar, out, lean, bundler, bundle>>
    /\ UNCHANGED <<issued, examined, published, checkedLive>>

(***************************************************************************)
(* lean-check: the proof module and its companions in Generated/, Lean,    *)
(* then the output directory file by file.                                 *)
(***************************************************************************)
Sources(t, d) == SelectSeq(EvidenceFiles(t, d), LAMBDA f : f.kind \in {"handoff", "contract"})

KernelChecked(t, d, k) ==
    LET p == ProjectionOf(t, d, Mode)
    IN  [class |-> "LeanKernelChecked", trace |-> t.hash, proof |-> p, projection |-> p,
         theorems |-> p, kernel |-> k, sources |-> Sources(t, d)]

\* Without a proof: --skip-lean-proof, or a build that is skipped.
RuntimeChecked(t) ==
    [class |-> "RuntimeChecked", trace |-> t.hash, proof |-> NoFile, projection |-> NoFile,
     theorems |-> NoFile, kernel |-> NoFile, sources |-> <<>>]

ClaimOf(cert) == [projection |-> cert.projection, kernel |-> cert.kernel]

\* The deciders look at the trace; here, only at what its contracts ask.
Acceptable(t, d) ==
    EvidenceErrors(t, d, Mode) = {} /\ TraceContractIssues(t, Resolved(t, d).contracts) = {}

(* What the files can hold, if anything that can be read.                    *)
Acceptables == {q \in Traces \X Directories : Acceptable(q[1], q[2])}
Resolvables == {q \in Traces \X Directories : ResolutionErrors(q[1], q[2], Mode) = {}}

Projections == {ProjectionOf(q[1], q[2], Mode) : q \in Acceptables}
LeanCertificates == {KernelChecked(q[1], q[2], k) : q \in Acceptables, k \in Kernels}
RuntimeCertificates == {RuntimeChecked(t) : t \in Traces}
Certificates == LeanCertificates \cup RuntimeCertificates

ItemLists == {Items(q[1], q[2]) : q \in Resolvables} \cup {<<>>}
Copyings ==
    {p \in (UNION {ToSet(items) : items \in ItemLists}) \X Directories : ~Gone(p[1], p[2])}
Listings == Seq({Copied(p[1], p[2]) : p \in Copyings})

ManifestOf(kernels) ==
    [trace: Hashes, class: {"LeanKernelChecked", "RuntimeChecked"},
     proofHash: Projections \cup {NoFile}, proof: Projections \cup {NoFile},
     result: Certificates \cup {NoFile}, projection: Projections \cup {NoFile},
     theorems: Projections \cup {NoFile}, listing: Listings \cup {NoFile}, kernel: kernels]

\* Nothing that can be read is taken for a missing or a garbled file.
ASSUME SentinelAssumption ==
    /\ \A sentinel \in {NoFile, Garbled} :
          /\ sentinel \notin Traces /\ sentinel \notin Kernels \cup {Mixed}
          /\ sentinel \notin Projections /\ sentinel \notin Certificates
          /\ sentinel \notin Listings /\ sentinel \notin ManifestOf(Kernels)
    /\ \A q \in Resolvables : \A d \in {q[2], Staged(EvidenceFiles(q[1], q[2]))} :
          Selects(Selection(q[1], d), "frame") => Resolved(q[1], d).frame # NoFrame
    /\ NoFile \notin {"live", "stub"} /\ NoRef \notin {"mock", "stub", "live"}
    /\ NoClass \notin {"mock", "stub", "live"}

CheckWithLean ==
    /\ lean = Idle /\ Acceptable(trace, dir) /\ Spend("checks", MaxChecks)
    /\ lean' = [pc |-> "projection", certificate |-> KernelChecked(trace, dir, kernel)]
    /\ proofs' = [proofs EXCEPT ![trace.hash] = lean'.certificate.proof]
    /\ sidecar' = lean'.certificate.projection
    /\ examined' = examined \cup {<<trace, dir>>}
    /\ WorkspaceChanges
    /\ UNCHANGED <<inputs, out, bundler, bundle, issued, published, checkedLive>>

CheckAtRuntime ==
    /\ lean = Idle /\ ResolutionErrors(trace, dir, Mode) = {} /\ Spend("checks", MaxChecks)
    /\ TraceContractIssues(trace, Resolved(trace, dir).contracts) = {}
    /\ out' = [out EXCEPT !.certificate = RuntimeChecked(trace), !.result = RuntimeChecked(trace)]
    /\ WorkspaceChanges
    /\ UNCHANGED <<inputs, proofs, sidecar, lean, bundler, bundle>>
    /\ UNCHANGED <<issued, examined, published, checkedLive>>

AfterSaving == [projection |-> "theorems", theorems |-> "certificate", certificate |-> "result"]

\* The companions, the certificate, the result.
Save ==
    /\ lean # Idle
    /\ out' = [out EXCEPT ![lean.pc] = IF lean.pc \in {"certificate", "result"}
                                       THEN lean.certificate ELSE lean.certificate.projection]
    /\ lean' = IF lean.pc = "result" THEN Idle ELSE [lean EXCEPT !.pc = AfterSaving[lean.pc]]
    /\ issued' = IF lean.pc = "certificate" THEN issued \cup {ClaimOf(lean.certificate)} ELSE issued
    /\ WorkspaceChanges
    /\ UNCHANGED <<inputs, proofs, sidecar, bundler, bundle>>
    /\ UNCHANGED <<examined, published, checkedLive, spent>>

LeanFailsOrDies ==
    /\ lean # Idle /\ lean' = Idle
    /\ UNCHANGED <<workspace, bundler, bundle, ghosts, spent>>

(***************************************************************************)
(* bundle-release.  The trace and the certificate are read first; what is  *)
(* copied is what lies there when its turn comes.  `draft` is the manifest *)
(* being put together: of the copies, and of the certificate as read.      *)
(***************************************************************************)
BundlerOnly == UNCHANGED <<workspace, lean, issued, examined, published, checkedLive, spent>>

(* Files that share a handoff id must agree: of two, the text of the first   *)
(* is checked and the last one copied (_index_handoff_candidates).           *)
AgreesOnIds(d) ==
    \A f, g \in {x \in ToSet(d.files) : x.kind = "handoff"} : f.id = g.id => f.body = g.body

Settled ==
    /\ lean = Idle /\ AgreesOnIds(dir) /\ EvidenceErrors(trace, dir, Mode) = {}
    /\ out.certificate = KernelChecked(trace, dir, kernel) /\ out.result = out.certificate
    /\ out.projection = out.certificate.projection /\ out.theorems = out.certificate.projection
    /\ proofs[trace.hash] = out.certificate.proof

Load ==
    /\ bundler = Idle /\ ~Unreadable(out.certificate) /\ Spend("bundles", MaxBundles)
    /\ bundler' = [pc |-> "trace", trace |-> trace, certificate |-> out.certificate,
                   kernel |-> NoFile, items |-> <<>>, taken |-> 0, copied |-> {},
                   draft |-> [trace |-> out.certificate.trace, class |-> out.certificate.class,
                              proofHash |-> out.certificate.proof, proof |-> NoFile,
                              result |-> NoFile, projection |-> NoFile, theorems |-> NoFile,
                              listing |-> NoFile, kernel |-> NoFile]]
    /\ quiet' = Settled
    /\ UNCHANGED <<workspace, lean, bundle, issued, examined, published, checkedLive>>

At(place) == bundler.pc = place
Then(place) == bundler' = [bundler EXCEPT !.pc = place]
Abort == bundler' = Idle /\ quiet' = FALSE /\ UNCHANGED bundle

CopyTrace ==
    /\ At("trace") /\ Then("certificate") /\ bundle' = [bundle EXCEPT !.trace = trace]
    /\ UNCHANGED quiet /\ BundlerOnly

CopyCertificate ==
    /\ At("certificate") /\ Then("result")
    /\ bundle' = [bundle EXCEPT !.certificate = out.certificate]
    /\ UNCHANGED quiet /\ BundlerOnly

\* A copy whose hash goes into the draft; what is missing leaves the old copy.
CopyHashed(place, next, source) ==
    /\ At(place)
    /\ IF source = NoFile THEN Then(next) /\ UNCHANGED bundle
       ELSE /\ bundle' = [bundle EXCEPT ![place] = source]
            /\ bundler' = [bundler EXCEPT !.pc = next, !.draft[place] = source]
    /\ UNCHANGED quiet /\ BundlerOnly

CopyResult == CopyHashed("result", "proof", out.result)

\* The proof the certificate in memory names; it must be there.
CopyProof ==
    LET named == bundler.certificate.proof # NoFile
        found == proofs[bundler.certificate.trace]
    IN  IF At("proof") /\ named /\ found = NoFile THEN Abort /\ BundlerOnly
        ELSE CopyHashed("proof", "projection", IF named THEN found ELSE NoFile)

\* In the output directory, else beside the proof.  The paths that a result
\* of lean-check names are those of the output directory.
Companion(saved) ==
    IF saved # NoFile THEN saved
    ELSE IF bundler.draft.proof # NoFile THEN sidecar ELSE NoFile

CopyProjection == CopyHashed("projection", "theorems", Companion(out.projection))
CopyTheorems == CopyHashed("theorems", "evidence", Companion(out.theorems))

\* Evidence that cannot be resolved is no evidence: the list is empty.
ResolveEvidence ==
    /\ At("evidence")
    /\ bundler' = [bundler EXCEPT !.pc = "listing", !.draft.listing = <<>>,
                                  !.items = IF ResolutionErrors(bundler.trace, dir, Mode) = {}
                                            THEN Items(bundler.trace, dir) ELSE <<>>]
    /\ UNCHANGED <<bundle, quiet>> /\ BundlerOnly

\* Fault: a file that is there is not written again.
FaultOverlaid(old, file) == IF \E f \in old : f.name = file.name THEN old ELSE old \cup {file}

\* A copy replaces an older one of its name.
Overlaid(old, file) == {f \in old : f.name # file.name} \cup {file}

\* The next item, from the directory as it is now; without its file it is
\* left out.
CopyEvidence ==
    /\ At("listing") /\ bundler.taken < Len(bundler.items)
    /\ LET item == bundler.items[bundler.taken + 1]
           taken == [bundler EXCEPT !.taken = @ + 1]
       IN  IF Gone(item, dir) THEN bundler' = taken /\ UNCHANGED bundle
           ELSE /\ bundle' = [bundle EXCEPT !.evidence = Overlaid(@, Copied(item, dir))]
                /\ bundler' = [taken EXCEPT !.draft.listing = Append(@, Copied(item, dir))]
    /\ UNCHANGED quiet /\ BundlerOnly

\* The list, and in memory the manifest of the kernel as installed.
WriteListing ==
    /\ At("listing") /\ bundler.taken = Len(bundler.items)
    /\ bundler' = [bundler EXCEPT !.pc = "kernel", !.kernel = kernel]
    /\ bundle' = [bundle EXCEPT !.listing = bundler.draft.listing]
    /\ UNCHANGED quiet /\ BundlerOnly

\* Some files of the kernel, and then the rest, of the kernel as it is then.
CopySomeOfKernel ==
    /\ At("kernel") /\ kernel \notin bundler.copied
    /\ bundler' = [bundler EXCEPT !.copied = @ \cup {kernel}]
    /\ bundle' = [bundle EXCEPT !.kernel = IF @ = kernel THEN kernel ELSE Mixed]
    /\ UNCHANGED quiet /\ BundlerOnly

CopyRestOfKernel ==
    /\ At("kernel") /\ Then("manifest")
    /\ bundle' = [bundle EXCEPT
                     !.kernel = IF bundler.copied \subseteq {kernel} THEN kernel ELSE Mixed]
    /\ UNCHANGED quiet /\ BundlerOnly

\* build_release_manifest: the copied kernel must be the listed one, and a
\* claim of Lean's needs every part; otherwise an older manifest stays.
Closed(draft) ==
    draft.class = "LeanKernelChecked" =>
        NoFile \notin {draft[f] : f \in {"proof", "proofHash", "result", "projection",
                                         "theorems", "listing"}}

Manifest(draft, k) == [draft EXCEPT !.kernel = k]

WriteManifest ==
    /\ At("manifest")
    /\ IF bundle.kernel = bundler.kernel /\ Closed(bundler.draft)
       THEN /\ Then("finish") /\ UNCHANGED quiet
            /\ bundle' = [bundle EXCEPT !.manifest = Manifest(bundler.draft, bundle.kernel)]
       ELSE Abort
    /\ BundlerOnly

WriteKernelManifest ==
    /\ At("finish") /\ bundler' = Idle
    /\ bundle' = [bundle EXCEPT !.kernelManifest = bundler.kernel]
    /\ UNCHANGED quiet /\ BundlerOnly

BundlerDies == bundler # Idle /\ Abort /\ BundlerOnly

BundlerStep ==
    \/ CopyTrace \/ CopyCertificate \/ CopyResult \/ CopyProof \/ CopyProjection \/ CopyTheorems
    \/ ResolveEvidence \/ CopyEvidence \/ WriteListing \/ CopySomeOfKernel \/ CopyRestOfKernel
    \/ WriteManifest \/ WriteKernelManifest

(***************************************************************************)
(* Things that happen to a bundle that is there.                           *)
(***************************************************************************)
\* A file is lost, spoilt, or replaced by another version of it.
Versions(f) ==
    CASE f = "trace" -> Traces
      [] f \in {"proof", "projection", "theorems"} -> {out.projection}
      [] f = "certificate" -> {out.certificate}
      [] f = "kernel" -> Kernels
      [] OTHER -> {}

Damage(f) ==
    /\ bundler = Idle /\ bundle.manifest # NoFile /\ Spend("edits", MaxEdits)
    /\ \E v \in Spoilt \cup Versions(f) :
          bundle[f] # v /\ bundle' = [bundle EXCEPT ![f] = v]
    /\ quiet' = FALSE
    /\ UNCHANGED <<workspace, lean, bundler, issued, examined, published, checkedLive>>

\* A file of the evidence is lost.
LoseEvidence ==
    /\ bundler = Idle /\ bundle.manifest # NoFile /\ Spend("edits", MaxEdits)
    /\ \E e \in bundle.evidence : bundle' = [bundle EXCEPT !.evidence = @ \ {e}]
    /\ quiet' = FALSE
    /\ UNCHANGED <<workspace, lean, bundler, issued, examined, published, checkedLive>>

\* attest-bundle: an attestation replaces the notice; a failure leaves what
\* is there, or with --allow-absence adds a notice.
Attest(env, requireLive, allowAbsence, answer) ==
    /\ bundler = Idle /\ ~Unreadable(bundle.manifest) /\ ~Unreadable(bundle.trace)
    /\ Spend("edits", MaxEdits)
    /\ LET att == Attested(bundle.manifest, bundle.trace, env, requireLive, answer, Site)
       IN  bundle' = IF att # NoFile THEN [bundle EXCEPT !.attestation = att, !.notice = NoFile]
                     ELSE IF allowAbsence /\ ~requireLive
                     THEN [bundle EXCEPT !.notice = bundle.manifest] ELSE bundle
    /\ checkedLive' = IF ReallyChecked(env, answer)
                      THEN checkedLive \cup {<<bundle.manifest, bundle.trace>>} ELSE checkedLive
    /\ UNCHANGED <<workspace, lean, bundler, issued, examined, published, quiet>>

(***************************************************************************)
(* verify-bundle.  validate-bundle comes first and, failing, ends it.  The *)
(* compilation of the bundled proof may be skipped, and is here.           *)
(***************************************************************************)
LiveRequired(mode) == mode = "release"

KernelErrors(b, m) ==
    {e \in {"KernelManifestInvalid", "PfcoreKernelHashMismatch"} :
        \/ /\ e = "KernelManifestInvalid"
           /\ Unreadable(b.kernelManifest) \/ b.kernelManifest # b.kernel
        \/ e = "PfcoreKernelHashMismatch" /\ b.kernel # m.kernel}

\* _validate_hashed_json_artifact: what the manifest has no file for is not
\* looked at.
Differs(file, listed, hash) == listed # NoFile /\ file # hash

HashErrors(b, m) ==
    {f \in {"proof", "result", "projection", "theorems", "listing"} :
        Differs(b[f], m[f], IF f = "proof" /\ m.proofHash # NoFile THEN m.proofHash ELSE m[f])}

CertificateErrors(b, m) ==
    {e \in {"CertificateUnreadable", "CertificateTraceHashMismatch", "ProofTermHashMismatch"} :
        \/ e = "CertificateUnreadable" /\ Unreadable(b.certificate)
        \/ /\ e = "CertificateTraceHashMismatch" /\ ~Unreadable(b.certificate)
           /\ b.certificate.trace # m.trace
        \/ /\ e = "ProofTermHashMismatch" /\ ~Unreadable(b.certificate)
           /\ BothSay(b.certificate.proof, m.proofHash) /\ b.certificate.proof # m.proofHash}

TraceErrors(b, m) ==
    {e \in {"TraceMissing", "TraceHashMismatch"} :
        \/ e = "TraceMissing" /\ Unreadable(b.trace)
        \/ e = "TraceHashMismatch" /\ ~Unreadable(b.trace) /\ b.trace.hash # m.trace}

EvidenceFileErrors(b, m) ==
    {e \in {"EvidenceFileHashMismatch"} :
        ~Unreadable(b.listing) /\ m.listing # NoFile /\ ~(ToSet(b.listing) \subseteq b.evidence)}

AttestationSidecarErrors(b, mode) ==
    IF b.attestation = NoFile /\ b.notice = NoFile /\ ~LiveRequired(mode) THEN {}
    ELSE SidecarErrors(b.attestation, b.notice, b.manifest, b.trace, LiveRequired(mode),
                       ~LiveRequired(mode), Site)

\* validate-bundle asks for no attestation, but judges one that is there.
PresentSidecarErrors(b, mode) ==
    IF <<b.attestation, b.notice>> = <<NoFile, NoFile>> THEN {}
    ELSE AttestationSidecarErrors(b, mode)

StructuralErrors(b, mode) ==
    IF Unreadable(b.manifest) THEN {"ManifestUnreadable"}
    ELSE LET m == b.manifest
             own == TraceErrors(b, m) \cup CertificateErrors(b, m) \cup HashErrors(b, m)
                    \cup EvidenceFileErrors(b, m) \cup KernelErrors(b, m)
         IN  IF own # {} THEN own ELSE PresentSidecarErrors(b, mode)

\* Fault: the certificate is not held against the manifest again.
FaultManifestErrors(b) == {}

ManifestErrors(b) ==
    {f \in {"trace", "kernel", "projection", "theorems"} :
        BothSay(b.certificate[f], b.manifest[f]) /\ b.certificate[f] # b.manifest[f]}

\* Fault: a bundled projection is believed.
FaultReplayErrors(b) == {}

ReplayErrors(b) ==
    LET staged == Staged(IF b.manifest.listing = NoFile THEN <<>> ELSE b.listing)
    IN  {e \in {"ProjectionReplay"} :
            /\ b.manifest.projection # NoFile
            /\ \/ EvidenceErrors(b.trace, staged, Mode) # {}
               \/ ProjectionOf(b.trace, staged, Mode) # b.projection}

TheoremErrors(b) ==
    {e \in {"TheoremMetadata"} :
        BothSay(b.manifest.theorems, b.manifest.proof) /\ b.theorems # b.proof}

\* compile_bundled_proof, in an environment made of the bundle: Lean accepts
\* what it accepted before; of nothing else does the model know that it does.
CompileErrors(b) ==
    {e \in {"BundledProofCompileFailed"} :
        /\ b.manifest.proof # NoFile
        /\ [projection |-> b.proof, kernel |-> b.kernel] \notin issued}

VerifyErrors(b, mode) ==
    IF StructuralErrors(b, mode) # {} THEN StructuralErrors(b, mode)
    ELSE ManifestErrors(b) \cup ReplayErrors(b) \cup TheoremErrors(b)
         \cup AttestationSidecarErrors(b, mode)

\* What the files of a bundle claim, taken at their word.
BundleClaim(b) ==
    LET staged == Staged(b.listing)
    IN  IF \/ Unreadable(b.manifest) \/ Unreadable(b.certificate) \/ Unreadable(b.trace)
           \/ Unreadable(b.listing)
        THEN NoClaim
        ELSE IF \/ b.manifest.class # "LeanKernelChecked"
                \/ b.certificate.class # "LeanKernelChecked"
                \/ EvidenceErrors(b.trace, staged, Mode) # {}
        THEN NoClaim
        ELSE [projection |-> ProjectionOf(b.trace, staged, Mode), kernel |-> b.kernel]

\* verify-bundle, the compilation skipped: the claim goes out.
Verify ==
    /\ bundler = Idle /\ BundleClaim(bundle) # NoClaim /\ VerifyErrors(bundle, "preview") = {}
    /\ published' = published \cup {BundleClaim(bundle)}
    /\ UNCHANGED <<workspace, lean, bundler, bundle, issued, examined, checkedLive, quiet, spent>>

(***************************************************************************)
(* verify-proof-binding: a certificate in its own workspace.  Companions   *)
(* are looked for beside the proof first.                                  *)
(***************************************************************************)
BindingDigestErrors(cert, withTrace) ==
    LET near(saved) == IF proofs[cert.trace] # NoFile THEN sidecar ELSE saved
    IN  {e \in {"TraceHash", "ProofTermHash", "Kernel", "TheoremManifest", "Projection"} :
            \/ e = "TraceHash" /\ withTrace /\ trace.hash # cert.trace
            \/ e = "ProofTermHash" /\ proofs[cert.trace] # cert.proof
            \/ e = "Kernel" /\ kernel # cert.kernel
            \/ e = "TheoremManifest" /\ near(out.theorems) # cert.theorems
            \/ e = "Projection" /\ near(out.projection) # cert.projection}

\* Fault: the stored projection is compared, and not made again.
FaultSourceErrors(cert) ==
    {e \in {"SourceEvidence"} :
        ResolutionErrors(trace, dir, Mode) = {} /\ Sources(trace, dir) # cert.sources}

SourceErrors(cert) ==
    {e \in {"ProjectionReplay", "SourceEvidence"} :
        \/ /\ e = "ProjectionReplay"
           /\ \/ EvidenceErrors(trace, dir, Mode) # {}
              \/ ProjectionOf(trace, dir, Mode) # cert.projection
        \/ /\ e = "SourceEvidence" /\ ResolutionErrors(trace, dir, Mode) = {}
           /\ Sources(trace, dir) # cert.sources}

\* Without --trace nothing is said of the trace and its evidence.
ProofBindingErrors(cert, withTrace) ==
    IF Unreadable(cert) THEN {"CertificateUnreadable"}
    ELSE IF cert.class # "LeanKernelChecked" THEN {"ClaimClassMismatch"}
    ELSE BindingDigestErrors(cert, withTrace) \cup (IF withTrace THEN SourceErrors(cert) ELSE {})

Next ==
    \/ EditInputs \/ CheckWithLean \/ CheckAtRuntime \/ Save \/ LeanFailsOrDies
    \/ Load \/ (bundler # Idle /\ BundlerStep) \/ BundlerDies
    \/ \E f \in Damageable : Damage(f)
    \/ LoseEvidence \/ Verify
    \/ \E env \in Environments, live, absence \in BOOLEAN : \E answer \in AnswersOf(env, Refs) :
          Attest(env, live, absence, answer)

Spec == Init /\ [][Next]_vars
(***************************************************************************)
(* Properties.                                                             *)
(***************************************************************************)
Places == {"idle", "trace", "certificate", "result", "proof", "projection", "theorems", "evidence",
           "listing", "kernel", "manifest", "finish"}

\* The shape of the state.
TypeOK ==
    /\ trace \in Traces /\ dir \in Directories /\ kernel \in Kernels
    /\ DOMAIN proofs = Hashes
    /\ lean.pc \in {"idle"} \cup DOMAIN AfterSaving \cup {"result"} /\ bundler.pc \in Places
    /\ DOMAIN out = DOMAIN NoOutput /\ DOMAIN bundle = DOMAIN NoBundle
    /\ bundle.kernel \in Kernels \cup {Mixed, NoFile, Garbled}
    /\ published \subseteq issued /\ (quiet => spent.bundles > 0)
    /\ spent.checks <= MaxChecks /\ spent.bundles <= MaxBundles

(* A bundle that verify-bundle lets through claims only what Lean accepted:   *)
(* this projection, under this kernel; also when it was put together while   *)
(* checks ran and files changed, over an older bundle, by bundlers that died *)
(* half way, or was damaged since.  The steps of the detailed specification  *)
(* are steps of ReleasePromise.                                              *)
Promise == INSTANCE ReleasePromise WITH offered <- BundleClaim(bundle)
PromiseKept == Promise!Spec

(* A bundle of a settled workspace that nobody disturbed verifies, its proof *)
(* compiled again too, whatever the directory held before.  One thing may    *)
(* stand in the way: an attestation or a notice that was left there for      *)
(* another bundle, or for another trace in this one.                         *)
OlderSidecar ==
    \/ /\ ~Unreadable(bundle.attestation)
       /\ \/ bundle.attestation.bundle # bundle.manifest
          \/ bundle.attestation.trace # bundle.trace.hash
    \/ bundle.notice \notin {NoFile, bundle.manifest}

HonestBundleVerifies ==
    quiet /\ bundler = Idle /\ ~OlderSidecar /\ bundle.attestation # Garbled
        => VerifyErrors(bundle, "preview") \cup CompileErrors(bundle) = {}

(* What is verified as a release had a live checker run on it: on this very  *)
(* manifest, and on a trace of this hash.  On this very text only if it was  *)
(* there then: attest-bundle does not verify the bundle it attests, and      *)
(* nobody recomputes the hash a trace declares.                              *)
AttestedAsReleased ==
    BundleClaim(bundle) # NoClaim /\ VerifyErrors(bundle, "release") = {}
        => \E t \in Traces : t.hash = bundle.trace.hash /\ <<bundle.manifest, t>> \in checkedLive

(* A certificate that binds in its workspace says that Lean accepted its     *)
(* projection under the kernel that is installed now and, judged with its    *)
(* trace, that this is the trace and the evidence that lie there now, in all *)
(* that a projection shows of them (verify_proof_binding).                   *)
BindingIsCurrent ==
    \A withTrace \in BOOLEAN :
        LET said == IF withTrace THEN ProjectionOf(trace, dir, Mode) ELSE out.certificate.projection
        IN  ProofBindingErrors(out.certificate, withTrace) = {} =>
               [projection |-> said, kernel |-> kernel] \in issued

(* What is published was looked at.  Every event in it that names a bundled  *)
(* contract meets all of that contract that is in scope, though Lean is given *)
(* a part of it only; all but the evidence an event must refer to, which no  *)
(* projection shows and verify-bundle does not look for.  That was met too   *)
(* by the trace the published projection was made from, if not by the trace  *)
(* that lies in the bundle now.                                              *)
InScope(contract) == {r \in contract.body : r.layer # "out_of_scope"}
MeetsAll(event, contract, kinds) ==
    contract.id \in event.refs => \A r \in InScope(contract) : r.kind \in kinds => Meets(event, r)

PublishedMeetsContracts ==
    \A claim \in published :
        LET contracts == ToSet(claim.projection.contracts)
        IN  /\ \A e \in ToSet(claim.projection.events), contract \in contracts :
                   MeetsAll(e, contract, RequirementKinds \ {"evidence"})
            /\ \E q \in examined :
                  /\ ProjectionOf(q[1], q[2], Mode) = claim.projection
                  /\ \A e \in EventsIn(q[1]), contract \in contracts :
                        MeetsAll(e, contract, RequirementKinds)
=============================================================================
