----------------------------- MODULE LeanCheck -----------------------------
(***************************************************************************)
(* `pcs pf-core lean-check`: commands that judge a trace with the Python   *)
(* deciders, generate a Lean proof module, have Lean check it, and leave a *)
(* certificate.  Translated from run_pfcore_lean_check and the functions   *)
(* it calls (python/pcs_core/lean_check.py, pf_core_lean_codegen.py,       *)
(* pf_core_certificate_mode_status.py).                                    *)
(*                                                                         *)
(* Each command line is a process that may run again and again, may die,   *)
(* and runs beside the others.  All of them share one directory,           *)
(* lean/PFCore/Generated/, whose module name is the trace's hash alone;    *)
(* they may share output directories too.  `lake` may fail or hang.        *)
(*                                                                         *)
(* A generated text is its trace and certificate mode: the code generator  *)
(* is a function of these (and of the evidence beside the trace, which     *)
(* stays the same here).  Hashes do not collide, so a hash is the text.    *)
(***************************************************************************)
EXTENDS FiniteSets

CONSTANTS
    Checks,             \* command lines
    Request,            \* [Checks -> the options of the command line]
    Traces, Dirs,       \* trace hashes; output directories
    Modes,              \* certificate modes
    NoMode,             \* no --certificate-mode, no mode in the trace
    BaseMode, ToolMode, \* TraceSafeCertificate, TraceSafeRCertificate
    DeclaredMode,       \* [Traces -> mode required by the trace or its workflow, or NoMode]
    ToolUse,            \* traces of a tool-use workflow
    BesideToolTrace,    \* those with tool_use_trace.json in their directory
    ModeStatus,         \* [Modes -> status in the mode status table]
    AllowedIssuance,    \* modes with allowed_issuance
    Admissible,         \* <<trace, mode>>: deciders, evidence and contracts raise no issue
    Generable,          \* <<trace, mode>>: code generation finds its evidence
    Provable,           \* <<trace, mode>>: Lean accepts the generated module
    Certifiable,        \* <<trace, mode>>: the certificate passes its own validation
    RequiredTheorems,   \* [Modes -> names a mode must discharge]
    GeneratedTheorems,  \* [Modes -> names its module holds]
    ReleaseTheorems,    \* names demanded of release-grade tool-use checks
    ForbiddenWord,      \* traces with sorry, admit, axiom or unsafe in a string
    LakeTimeout,        \* PCS_LAKE_TIMEOUT_SECONDS is a positive number
    Absent              \* no file, no text, no certificate

Options == [trace: Traces, mode: Modes \cup {NoMode}, releaseGrade: BOOLEAN,
            nonPublic: BOOLEAN, skipBuild: BOOLEAN, skipProof: BOOLEAN,
            dir: Dirs, hasOut: BOOLEAN]

Text == [trace: Traces, mode: Modes]
Content == Text \cup {Absent}

Claims == {"LeanKernelChecked", "RuntimeChecked"}
Statuses == {"LeanProofChecked", "DecidersPassed", "Rejected"}

(* The last three fields say who built it, what Lean had read by then, and  *)
(* whether the file had changed meanwhile; they are auxiliary.              *)
CertificateType ==
    [trace: Traces, claim: Claims, mode: Modes, text: Content, hash: Content,
     by: Checks, compiled: Content, disturbed: BOOLEAN]

ASSUME LeanCheckAssumption ==
    /\ Request \in [Checks -> Options]
    /\ NoMode \notin Modes
    /\ BaseMode \in Modes /\ ToolMode \in Modes
    /\ DeclaredMode \in [Traces -> Modes \cup {NoMode}]
    /\ BesideToolTrace \subseteq ToolUse
    /\ LakeTimeout \in BOOLEAN
    /\ Absent \notin Text /\ Absent \notin CertificateType

-----------------------------------------------------------------------------
(* What a command decides before it runs anything. *)

(* The option, else the trace or its workflow, else the default. *)
ResolvedMode(r) ==
    IF r.mode # NoMode THEN r.mode
    ELSE IF DeclaredMode[r.trace] # NoMode THEN DeclaredMode[r.trace]
    ELSE IF ~r.releaseGrade /\ r.trace \in BesideToolTrace THEN ToolMode
    ELSE BaseMode

PublicStatuses == {"release_candidate", "legacy", "experimental"}
ReleaseStatuses == {"release_candidate", "legacy"}

Issuable(mode, releaseGrade, nonPublic) ==
    nonPublic \/ /\ mode \in AllowedIssuance
                 /\ ModeStatus[mode] \in PublicStatuses
                 /\ releaseGrade => ModeStatus[mode] \in ReleaseStatuses

ToolUsePolicy(r) ==
    ~(r.releaseGrade /\ r.trace \in ToolUse /\ ResolvedMode(r) = BaseMode)

(* No issue was found by the deciders, the issuance table or the policy. *)
Accepted(r) ==
    /\ <<r.trace, ResolvedMode(r)>> \in Admissible
    /\ Issuable(ResolvedMode(r), r.releaseGrade, r.nonPublic)
    /\ ToolUsePolicy(r)

(* The code generator resolves again, and overrides for release-grade tool use. *)
GeneratedText(r) ==
    [trace |-> r.trace,
     mode |-> IF r.releaseGrade /\ r.trace \in ToolUse THEN ToolMode ELSE ResolvedMode(r)]

-----------------------------------------------------------------------------
VARIABLES
    generated,   \* [Traces -> content of Generated/Trace_<hash>.lean]
    sidecars,    \* text of the manifest and projection kept beside those files
    pc,          \* where each command is
    refused,     \* issues or audit errors so far
    built,       \* the library build succeeded (or was skipped)
    own,         \* the text this run generated
    hash,        \* proof_term_hash: the content that was hashed
    proved,      \* Lean accepted the file
    compiled,    \* auxiliary: the content Lean read
    disturbed,   \* auxiliary: the file changed between this run's write and its last read
    projection, manifest, certificate, result,  \* per output directory
    torn         \* auxiliary: the last save there was cut short or mixed with another

shared == <<generated, sidecars>>
local == <<refused, built, own, hash, proved, compiled>>
saved == <<projection, manifest, certificate, result, torn>>
vars == <<generated, sidecars, pc, refused, built, own, hash, proved, compiled,
          disturbed, projection, manifest, certificate, result, torn>>

Saving == {"saveProjection", "saveManifest", "saveCertificate", "saveResult"}
(* The run has written its proof file and will still read it. *)
Exposed == {"sidecars", "hash", "prebuild", "compile", "readback"}
Places == {"idle", "audit", "build", "generate", "decide"} \cup Exposed \cup Saving

Trace(c) == Request[c].trace
Dir(c) == Request[c].dir

Init ==
    /\ generated = [t \in Traces |-> Absent]
    /\ sidecars = Absent
    /\ pc = [c \in Checks |-> "idle"]
    /\ refused = [c \in Checks |-> FALSE]
    /\ built = [c \in Checks |-> FALSE]
    /\ own = [c \in Checks |-> Absent]
    /\ hash = [c \in Checks |-> Absent]
    /\ proved = [c \in Checks |-> FALSE]
    /\ compiled = [c \in Checks |-> Absent]
    /\ disturbed = [c \in Checks |-> FALSE]
    /\ projection = [d \in Dirs |-> Absent]
    /\ manifest = [d \in Dirs |-> Absent]
    /\ certificate = [d \in Dirs |-> Absent]
    /\ result = [d \in Dirs |-> Absent]
    /\ torn = [d \in Dirs |-> FALSE]

Goto(c, place) == pc' = [pc EXCEPT ![c] = place]

(* The trace file is about to change: whoever still relies on it is disturbed. *)
Disturb(t, others) ==
    disturbed' = [o \in Checks |-> disturbed[o] \/ (o \in others /\ Trace(o) = t /\ pc[o] \in Exposed)]

-----------------------------------------------------------------------------
(* The command starts: trace, deciders, issuance, policy, evidence, contracts. *)
Start(c) ==
    /\ pc[c] = "idle"
    /\ Goto(c, "audit")
    /\ refused' = [refused EXCEPT ![c] = ~Accepted(Request[c])]
    /\ UNCHANGED <<shared, saved, built, own, hash, proved, compiled, disturbed>>

(* The process ends, and its memory with it. *)
Exit(c) ==
    /\ Goto(c, "idle")
    /\ refused' = [refused EXCEPT ![c] = FALSE]
    /\ built' = [built EXCEPT ![c] = FALSE]
    /\ own' = [own EXCEPT ![c] = Absent]
    /\ hash' = [hash EXCEPT ![c] = Absent]
    /\ proved' = [proved EXCEPT ![c] = FALSE]
    /\ compiled' = [compiled EXCEPT ![c] = Absent]
    /\ disturbed' = [disturbed EXCEPT ![c] = FALSE]

(* Forbidden words in any Lean file, the generated ones included. *)
AuditClean == \A t \in Traces : generated[t] # Absent => t \notin ForbiddenWord

Audit(c) ==
    /\ pc[c] = "audit"
    /\ refused' = [refused EXCEPT ![c] = @ \/ ~AuditClean]
    /\ Goto(c, "build")
    /\ UNCHANGED <<shared, saved, built, own, hash, proved, compiled, disturbed>>

AfterBuild(c) == IF refused[c] \/ Request[c].skipProof THEN "decide" ELSE "generate"

(* `lake build PFCore` ends by itself, or is skipped. *)
Build(c) ==
    /\ pc[c] = "build"
    /\ \E ok \in BOOLEAN :
          /\ Request[c].skipBuild => ok
          /\ built' = [built EXCEPT ![c] = ok]
    /\ Goto(c, AfterBuild(c))
    /\ UNCHANGED <<shared, saved, refused, own, hash, proved, compiled, disturbed>>

(* Fault: a module that is already there is taken as it is. *)
GenerateOnce(c) ==
    /\ pc[c] = "generate"
    /\ own' = [own EXCEPT ![c] = GeneratedText(Request[c])]
    /\ generated' = [generated EXCEPT ![Trace(c)] = IF @ = Absent THEN GeneratedText(Request[c]) ELSE @]
    /\ Goto(c, "sidecars")
    /\ UNCHANGED <<sidecars, saved, refused, built, hash, proved, compiled, disturbed>>

(* The proof module is written under the trace's name, whoever wrote it last. *)
Generate(c) ==
    /\ pc[c] = "generate"
    /\ LET text == GeneratedText(Request[c]) IN
       IF <<text.trace, text.mode>> \in Generable
       THEN /\ own' = [own EXCEPT ![c] = text]
            /\ generated' = [generated EXCEPT ![Trace(c)] = text]
            /\ Disturb(Trace(c), Checks \ {c})
            /\ Goto(c, "sidecars")
            /\ UNCHANGED refused
       ELSE /\ refused' = [refused EXCEPT ![c] = TRUE]
            /\ Goto(c, "decide")
            /\ UNCHANGED <<own, generated, disturbed>>
    /\ UNCHANGED <<sidecars, saved, built, hash, proved, compiled>>

(* The manifest and the projection beside it, one pair for all traces; then *)
(* the required names are looked up in the inventory.                       *)
WriteSidecars(c) ==
    /\ pc[c] = "sidecars"
    /\ sidecars' = own[c]
    /\ IF RequiredTheorems[own[c].mode] \subseteq GeneratedTheorems[own[c].mode]
       THEN Goto(c, "hash") /\ UNCHANGED refused
       ELSE Goto(c, "decide") /\ refused' = [refused EXCEPT ![c] = TRUE]
    /\ UNCHANGED <<generated, saved, built, own, hash, proved, compiled, disturbed>>

(* proof_term_hash is read from the file, before Lean is. *)
HashFile(c) ==
    /\ pc[c] = "hash"
    /\ IF generated[Trace(c)] = Absent
       THEN /\ refused' = [refused EXCEPT ![c] = TRUE]
            /\ Goto(c, "decide")
            /\ UNCHANGED hash
       ELSE /\ hash' = [hash EXCEPT ![c] = generated[Trace(c)]]
            /\ Goto(c, IF Request[c].skipBuild THEN "decide" ELSE "prebuild")
            /\ UNCHANGED refused
    /\ UNCHANGED <<shared, saved, built, own, proved, compiled, disturbed>>

(* The file must exist and the library must build once more. *)
Prebuild(c) ==
    /\ pc[c] = "prebuild"
    /\ \/ generated[Trace(c)] # Absent /\ Goto(c, "compile")
       \/ Goto(c, "decide")
    /\ UNCHANGED <<shared, saved, local, disturbed>>

(* Fault: a missing file is nothing to prove. *)
CompileMissing(c) ==
    /\ pc[c] = "compile"
    /\ proved' = [proved EXCEPT ![c] = TRUE]
    /\ compiled' = [compiled EXCEPT ![c] = generated[Trace(c)]]
    /\ Goto(c, "readback")
    /\ UNCHANGED <<shared, saved, refused, built, own, hash, disturbed>>

(* `lake env lean` on whatever the file holds now. *)
Compile(c) ==
    /\ pc[c] = "compile"
    /\ LET text == generated[Trace(c)] IN
       IF text # Absent /\ <<text.trace, text.mode>> \in Provable
       THEN /\ proved' = [proved EXCEPT ![c] = TRUE]
            /\ compiled' = [compiled EXCEPT ![c] = text]
            /\ Goto(c, "readback")
       ELSE Goto(c, "decide") /\ UNCHANGED <<proved, compiled>>
    /\ UNCHANGED <<shared, saved, refused, built, own, hash, disturbed>>

(* Fault: only the library build has a timeout. *)
BuildTimesOut(c) ==
    /\ LakeTimeout
    /\ pc[c] = "build" /\ ~Request[c].skipBuild
    /\ Goto(c, AfterBuild(c))
    /\ UNCHANGED <<shared, saved, local, disturbed>>

(* A `lake` that does not answer is given up after the timeout: rc 124. *)
LakeTimesOut(c) ==
    /\ LakeTimeout
    /\ \/ pc[c] = "build" /\ ~Request[c].skipBuild /\ Goto(c, AfterBuild(c))
       \/ pc[c] \in {"prebuild", "compile"} /\ Goto(c, "decide")
    /\ UNCHANGED <<shared, saved, local, disturbed>>

(* The required names must stand in the file, read once more. *)
ReadBack(c) ==
    /\ pc[c] = "readback"
    /\ LET text == generated[Trace(c)] IN
       refused' = [refused EXCEPT ![c] =
          text = Absent \/ ~(RequiredTheorems[own[c].mode] \subseteq GeneratedTheorems[text.mode])]
    /\ Goto(c, "decide")
    /\ UNCHANGED <<shared, saved, built, own, hash, proved, compiled, disturbed>>

-----------------------------------------------------------------------------
(* The verdict. *)

LeanPromised(c) == ~Request[c].skipBuild /\ ~Request[c].skipProof

(* The certificate a run builds. *)
Certificate(c) ==
    [trace |-> Trace(c),
     claim |-> IF LeanPromised(c) /\ proved[c] THEN "LeanKernelChecked" ELSE "RuntimeChecked",
     mode |-> IF own[c] = Absent THEN ResolvedMode(Request[c]) ELSE own[c].mode,
     text |-> own[c], hash |-> hash[c],
     by |-> c, compiled |-> compiled[c], disturbed |-> disturbed[c]]

Rejected(c) ==
    \/ refused[c]
    \/ ~built[c] /\ ~Request[c].skipBuild
    \/ LeanPromised(c) /\ ~proved[c]
    \/ /\ proved[c] /\ Request[c].releaseGrade /\ Trace(c) \in ToolUse
       /\ ~(ReleaseTheorems \subseteq GeneratedTheorems[own[c].mode])
    \/ <<Trace(c), Certificate(c).mode>> \notin Certifiable

(* A rejected run reports, and leaves what earlier runs saved. *)
Reject(c) ==
    /\ pc[c] = "decide"
    /\ Rejected(c)
    /\ result' = IF Request[c].hasOut THEN [result EXCEPT ![Dir(c)] = "Rejected"] ELSE result
    /\ Exit(c)
    /\ UNCHANGED <<shared, projection, manifest, certificate, torn>>

Issue(c) ==
    /\ pc[c] = "decide"
    /\ ~Rejected(c)
    /\ Goto(c, IF own[c] = Absent THEN "saveCertificate" ELSE "saveProjection")
    /\ UNCHANGED <<shared, saved, local, disturbed>>

(* Another run is between the first and the last write to the same directory. *)
Contended(c) == \E o \in Checks \ {c} : Dir(o) = Dir(c) /\ pc[o] \in Saving \ {"saveProjection"}

SaveProjection(c) ==
    /\ pc[c] = "saveProjection"
    /\ projection' = [projection EXCEPT ![Dir(c)] = own[c]]
    /\ torn' = [torn EXCEPT ![Dir(c)] = Contended(c) \/ ~Request[c].hasOut]
    /\ Goto(c, "saveManifest")
    /\ UNCHANGED <<shared, local, disturbed, manifest, certificate, result>>

(* Fault: the manifest is copied from beside the generated files. *)
SaveSharedManifest(c) ==
    /\ pc[c] = "saveManifest"
    /\ manifest' = [manifest EXCEPT ![Dir(c)] = sidecars]
    /\ Goto(c, "saveCertificate")
    /\ UNCHANGED <<shared, local, disturbed, projection, certificate, result, torn>>

SaveManifest(c) ==
    /\ pc[c] = "saveManifest"
    /\ manifest' = [manifest EXCEPT ![Dir(c)] = own[c]]
    /\ Goto(c, "saveCertificate")
    /\ UNCHANGED <<shared, local, disturbed, projection, certificate, result, torn>>

SaveCertificate(c) ==
    /\ pc[c] = "saveCertificate" /\ Request[c].hasOut
    /\ certificate' = [certificate EXCEPT ![Dir(c)] = Certificate(c)]
    /\ Goto(c, "saveResult")
    /\ UNCHANGED <<shared, local, disturbed, projection, manifest, result, torn>>

(* Fault: the claim class is written where the status belongs. *)
SaveResultClaim(c) ==
    /\ pc[c] = "saveResult"
    /\ result' = [result EXCEPT ![Dir(c)] = Certificate(c).claim]
    /\ Exit(c)
    /\ UNCHANGED <<shared, projection, manifest, certificate, torn>>

SaveResult(c) ==
    /\ pc[c] = "saveResult"
    /\ result' = [result EXCEPT ![Dir(c)] =
          IF LeanPromised(c) /\ proved[c] THEN "LeanProofChecked" ELSE "DecidersPassed"]
    /\ Exit(c)
    /\ UNCHANGED <<shared, projection, manifest, certificate, torn>>

(* Without --out nothing more is written, though the companions were. *)
SaveNothing(c) ==
    /\ pc[c] = "saveCertificate" /\ ~Request[c].hasOut
    /\ Exit(c)
    /\ UNCHANGED <<shared, saved>>

(* The companions of a certificate are being replaced, the certificate not yet. *)
HalfSaved(c) == pc[c] \in {"saveManifest", "saveCertificate"} /\ own[c] # Absent

(* The process is killed; its files stay as they are. *)
Crash(c) ==
    /\ pc[c] # "idle"
    /\ Exit(c)
    /\ torn' = [torn EXCEPT ![Dir(c)] = @ \/ HalfSaved(c)]
    /\ UNCHANGED <<shared, projection, manifest, certificate, result>>

(* The operator deletes a generated proof, as docs/pf-core/windows-lean.md says. *)
Clean(t) ==
    /\ generated[t] # Absent
    /\ generated' = [generated EXCEPT ![t] = Absent]
    /\ Disturb(t, Checks)
    /\ UNCHANGED <<sidecars, pc, local, saved>>

(* What a live interpreter does without waiting for anyone. *)
Proceed(c) ==
    \/ Audit(c) \/ Generate(c) \/ WriteSidecars(c) \/ HashFile(c) \/ ReadBack(c)
    \/ Reject(c) \/ Issue(c)
    \/ SaveProjection(c) \/ SaveManifest(c) \/ SaveCertificate(c) \/ SaveResult(c)
    \/ SaveNothing(c)
    \/ Request[c].skipBuild /\ Build(c)
    \/ LakeTimesOut(c)

LakeAnswers(c) == Build(c) \/ Prebuild(c) \/ Compile(c)

Next ==
    \/ \E c \in Checks : Start(c) \/ Proceed(c) \/ LakeAnswers(c) \/ Crash(c)
    \/ \E t \in Traces : Clean(t)

Spec == Init /\ [][Next]_vars

(* The interpreter and its timer run; `lake` owes no answer, and nobody has *)
(* to start, kill or clean anything.                                        *)
FairSpec == Spec /\ \A c \in Checks : WF_vars(Proceed(c))

-----------------------------------------------------------------------------
(* Properties. *)

(* Shapes of the files and of the local state of run_pfcore_lean_check. *)
TypeOK ==
    /\ generated \in [Traces -> Content]
    /\ sidecars \in Content
    /\ pc \in [Checks -> Places]
    /\ refused \in [Checks -> BOOLEAN] /\ built \in [Checks -> BOOLEAN]
    /\ own \in [Checks -> Content] /\ hash \in [Checks -> Content]
    /\ proved \in [Checks -> BOOLEAN]
    /\ compiled \in [Checks -> Content]
    /\ disturbed \in [Checks -> BOOLEAN]
    /\ projection \in [Dirs -> Content] /\ manifest \in [Dirs -> Content]
    /\ certificate \in [Dirs -> CertificateType \cup {Absent}]
    /\ result \in [Dirs -> Statuses \cup {Absent}]
    /\ torn \in [Dirs -> BOOLEAN]

Issued == {certificate[d] : d \in Dirs} \ {Absent}
KernelChecked == {k \in Issued : k.claim = "LeanKernelChecked"}

(* Every command on the trace generates the same text. *)
OneText(t) ==
    \A c, o \in Checks : Trace(c) = t /\ Trace(o) = t =>
        GeneratedText(Request[c]) = GeneratedText(Request[o])

(* proof_term_hash is the hash of what Lean checked, and that is the text   *)
(* the run generated, when nothing touched the file between the write and   *)
(* the last read, and also, however the runs interleave, when all commands  *)
(* on the trace ask for one certificate mode.                               *)
HashBindsCompiled ==
    \A k \in KernelChecked :
        ~k.disturbed \/ OneText(k.trace) => k.hash = k.compiled /\ k.compiled = k.text

(* LeanKernelChecked has been earned, however runs interleave, crash or     *)
(* overwrite each other: the deciders accepted the trace, the mode table    *)
(* and the tool-use policy allowed the mode, and Lean accepted a module of  *)
(* that very trace, of whatever mode.                                       *)
KernelCheckedIsEarned ==
    \A k \in KernelChecked :
        /\ Accepted(Request[k.by])
        /\ k.compiled # Absent /\ k.compiled.trace = k.trace
        /\ <<k.compiled.trace, k.compiled.mode>> \in Provable
        /\ Request[k.by].releaseGrade =>
               /\ Request[k.by].nonPublic \/ ModeStatus[ResolvedMode(Request[k.by])] \in ReleaseStatuses
               /\ k.trace \in ToolUse => k.mode = ToolMode

(* A kernel-checked certificate lies beside the projection and the manifest *)
(* of its own text, unless the last run that saved there was killed between *)
(* its writes, ran without --out, or saved at the same time as another.     *)
CompanionsMatch ==
    \A d \in Dirs :
        /\ certificate[d] \in KernelChecked
        /\ ~torn[d]
        /\ \A c \in Checks : Dir(c) = d => ~HalfSaved(c)
        => projection[d] = certificate[d].text /\ manifest[d] = certificate[d].text

(* Every command ends, whatever `lake` does. *)
EveryCheckEnds == \A c \in Checks : pc[c] # "idle" ~> pc[c] = "idle"

(* docs/pf-core/trusted-boundary.md, row "PF-Core concrete trace Lean       *)
(* proofs": `lake env lean` on generated proof; certificate binds           *)
(* proof_term_hash.  Without the conditions of HashBindsCompiled.           *)
HashIsOfCompiledProof == \A k \in KernelChecked : k.hash = k.compiled

(* docs/pf-core/trusted-boundary.md: no PF-Core trusted Lean file may       *)
(* contain sorry, admit, axiom or unsafe, concrete trace proofs being among *)
(* the files of that page.                                                  *)
CompiledProofIsAudited == \A k \in KernelChecked : k.compiled.trace \notin ForbiddenWord

=============================================================================
