# A TLA+ development for pcs-core

This directory specifies, model-checks and proves parts of pcs-core: the
PF-Core kernel, the compilers and validators of traces, the pipeline that gives
a trace a Lean-checked certificate, the bundle that publishes it, the gates of
a release, and the release directories whose chains, obligations and verdicts
the rest of the tool looks after. Specifications are translated from the code
(Lean under `lean/`, Python under `python/`, a few scripts), and every
definition that stands for code names its lines in `PROJECT.json` (`map`).

## 1. The system

pcs-core turns what an agent runtime did into artifacts that others can check.
It is a command-line tool and a library; nothing in it is a server, and nearly
all of its state is files.

| Component | State it keeps | Operations | What is hard about it | What makes it correct |
|---|---|---|---|---|
| PF-Core Lean kernel (`lean/PFCore`) | tenant, active principal, resource and capability frames | `stepState`, `applyEvent`, `HandoffApplies`; deciders of actions, events, traces | a state judged along a whole trace against deciders that look at one event; handoffs between steps | frame validity, no authority without a source, the fold and the deciders agree |
| Observation compiler (`pf_core_runtime.py`) | none; a function of its batch | sort, decide, seal, check denials | observations late, twice, lost, interleaved from several runtimes | what is accepted is a stretch of what was observed; denials survive |
| Tool-use compiler (`pf_core_runtime.py`) | none; a function of its source | calls, then handoffs, into one chain | numbering, tenants, roles that expand to capabilities | safe events only, accepted by its own validator |
| Validation and replay (`validate_pf_core.py`, `pf_core_replay.py`) | a trace file | hash chain, sequence, action semantics; recompute and compare | two ways to check one chain | they agree on every file |
| Lean-check (`lean_check.py`, `pf_core_lean_codegen.py`) | `lean/PFCore/Generated/`, output directories | audit, build, generate, hash, compile, read back, certify, save | several commands over shared files; `lake` may fail or hang; kills between writes | `LeanKernelChecked` is earned; `proof_term_hash` is of what Lean read |
| Certificate modes (`pf_core_certificate_mode_status.py`, `pf_core_lean_codegen.py`) | a table | who may issue what; which theorems a mode asks for | rules overridden in three places; every decider exists in Python and in Lean | no release claim in a mode that is not released; what Python accepts, Lean proves |
| Evidence, contracts, projection, manifest, binding | files beside a trace | select, digest, project, bind | the same file read by several steps | one text behind certificate, projection, manifest |
| Release bundle (`pf_core_bundle.py`), attestation (`external_attestation.py`) | a directory | build, verify, attest | copies of files that change; a directory that is not cleaned; kills between copies | what verifies is a claim that Lean accepted |
| Integrity, gates (`artifact_integrity.py`, `release_gates.py`, `certifyedge_pin.py`) | key registry, envelopes, pin, provision file, provenance | sign, verify, revoke, pin, install, gate | clocks, revocation after signing, envelopes gone stale or moved | no release of a file that was not signed as it is; a passing release keeps passing until there is a cause |
| Release chains (`release_fixtures.py`, `release_profile_engine.py`, three hand-written chains) | work directory, release run, release directory | produce, build, promote, maintain, validate, report | a shared work directory; a dozen documents that repeat each other; two validators | what validates is one run; the validators agree; the verdict says what was found |
| PCS envelope (`lean_trust.py`, `pcs_projection.py`, `pcs_lean_codegen.py`) | obligations and check result in a release | extract, evaluate, prove, replay | extracted once, used after edits | obligations that hold are provable and of one run; a replay notices every edit |
| Verifier assurance, schemas, benchmarks, conformance, command line, Rust and TypeScript ports, status policy | reports | judge, drive or repeat the above | parity | same verdicts |

How they interact: a runtime writes observations or a tool-use trace; a compiler
makes a `PFCoreTrace.v0` of them; validation and replay judge that file;
lean-check reads it, generates a Lean module into a directory shared by all
checks, has `lake` compile it and writes projection, manifest, certificate and
result; a bundle copies these together with their evidence, and an external
checker attests it; gates and signatures close a release. Beside it, release
directories of three profiles (LabTrust, tool use, computation) are filled by
other repositories, copied, promoted, validated and reduced to obligations.
Every arrow is a file, so a reader may find a file
of another writer, of an earlier run, or half of a set.

The hazards this gives rise to are listed at their lines in `PROJECT.json`
(`hazards`), with the properties that watch each of them, or why none does.

## 2. Modules

| Module | Models | State, actions |
|---|---|---|
| `PFDeciders` | records and deciders of the Lean kernel and their Python mirror | operators only |
| `PFKernel` | `State`, `stepState`, `applyEvent`, `HandoffApplies`, `simulate_frame_preserved_transitions` | `tenant`, `activePrincipal`, `resourceFrame`, `capabilityFrame`, the events so far, the handoffs so far, whether the fold has refused; `StepAllow`, `StepNone`, `StepDeny`, `ApplyHandoff` |
| `LeanCheck` | `run_pfcore_lean_check` and what it calls, as concurrent processes | generated files and output files shared, local variables of each run; one action for each point where another process can see or change a file (`Start` … `SaveResult`), plus `Crash` and `Clean` |
| `ResourcePattern` | the fuelled glob matcher, with what a match is | operators only |
| `TraceFile` | the trace file: sealing, validation, replay | operators only |
| `Contracts` | selection, coverage and layers of contracts | operators only |
| `TraceObligations` | the Python deciders lean-check evaluates on a trace | operators only |
| `TraceTheorems` | prerequisites, generated theorems and required names of the seven certificate modes; when Lean can prove them | operators only |
| `ObservationBatch` | runtimes, delivery, the batch compiler, the way of its file | `observed`, `batch`, `outcome`, `file`; `Observe`, `Deliver`, `RefuseMixed`, `RefuseInvalid`, `RefuseDropped`, `Compile`, and the edits |
| `ToolUseCompile` | `compile_tool_use_trace_to_pfcore_trace` | the source, the events so far, the outcome; `CompileCall`, `RefuseCall`, `CompileHandoff`, `RefuseHandoff`, `Finish` |
| `ArtifactIntegrity`, `CertifyEdge` | envelopes, signatures, registry and verification of a root; pin, installation, grades and the call of the external checker | operators only |
| `ReleaseGates` | an operator preparing a release, and the seven gates | clock, registry, files, envelopes, pin, provision file, provenance; one action for each command or script |
| `ResolvedEvidence`, `ExternalAttestation` | evidence found near a trace; making and judging an attestation | operators only |
| `BundleRelease` | lean-check, bundle-release, attest-bundle, verify-bundle, verify-proof-binding, step by step | workspace, `lean`, `bundler`, `bundle`; one action for each file copied |
| `ReleasePromise` | what a verified bundle may claim: the specification `BundleRelease` implements | `issued`, `offered`, `published` |
| `ReleaseDocuments`, `ReleaseFixtures` | the documents of the three profiles, as records of the pointers the validators read; what honest producers write | operators only |
| `ReleaseSpecs`, `ReleaseProfile`, `LegacyChains` | profile specifications with their hooks; the declarative engine; the hand-written validators | operators only |
| `ReleaseEnvelope`, `EnvelopeProof`, `ReleaseReport` | obligations, projection, replay; the Lean module for the obligations; verdict and materialization | operators only |
| `ReleaseChain` | producers, build, promotion, maintenance, edits and audits of a release directory | `heads`, `stage`, `work`, `corpus`, `run`, `step`, `target` |
| `StableOrder` | what Python's `sorted` promises: in order, and equal keys in the order they came | operators only |
| `*Proofs` | theorems about `PFKernel`, `LeanCheck`, `ToolUseCompile`, `ObservationBatch`, `StableOrder`, `ReleaseGates`, `BundleRelease`, `ReleaseChain` | |
| `MC*` | instances for TLC | |

`PFKernel` and `TraceFile` extend `PFDeciders`; the compilers extend
`TraceFile`, so that what they produce is judged by the validator, by the
kernel's deciders and, through `TraceTheorems`, by the Lean module that would
be generated for it. `ReleaseGates` composes `ArtifactIntegrity` and
`CertifyEdge`; `BundleRelease` composes evidence, contracts and attestation;
`ReleaseChain` stands on the release modules listed before it. A proof module
extends the module it is about and nothing else of the project, but for
`BundleReleaseProofs` and `ObservationBatchProofs`, which also cite
`StableOrderProofs`.

Conventions. Lists that the code only searches are sets. Hashes do not collide
and are modelled by what they are computed from; a generated Lean text is its
trace and certificate mode. Principals are taken after `_validate_principal`,
which writes the expansion of roles into `capabilities`. Operators marked
"Fault" are deliberate errors that no specification uses: each one, put in the
place of the definition that follows it, must break a property (`mutants`).

### The trace file

An event hash covers the event's content and its predecessor's hash, so it is
modelled as the sequence of contents it seals. `HashesValid` follows stored
hashes as `validate_pfcore_trace_hash_chain` does; `ReplayMatches` computes
them anew as `replay_trace` does. `signature_or_digest` of an event is not part
of its hash and is looked at by replay only. Schema validity is assumed:
the models' records are the schema-valid ones.

### The lean-check pipeline

The unit of interleaving is one access to a shared file. `disturbed` and
`compiled` are auxiliary: they record what the program cannot know, whether its
proof file changed between its write and its last read and what Lean read.
Evidence beside a trace and the options of a command do not change. File writes
are atomic (the code's `write_text` is not: a reader of half a file is not
modelled). `Admissible`, `Generable`, `Provable` and `Certifiable` stand for
the deciders with evidence and contracts, for code generation, for Lean and for
the validation of the finished certificate; the first three are what
`TraceObligations` and `TraceTheorems` spell out.

### Theorems of a trace

A generated module is a set of theorems, each a name and whether its statement
is true; a statement that is true closes (`decide`), and a name that is stated
twice does not compile. Statements are those of `lean/PFCore`, with the catalog
in place of the pattern an event carries, and over identifiers, which may merge
names that differ: an event, a handoff and the trace must not share one, nor
two contracts. `AcceptedIsProvable` gives the exact distance between the
two languages: of a file without an issue in Python, Lean refuses the module
for one of four reasons and no other (`Unforeseen`).

### The bundle

A projection holds of an event what `_project_event` writes: its decision,
principal, action and contract references, and not the evidence it refers to.
A contract that requires such a reference is checked when lean-check looks at
the trace, and never again: a bundled trace in which only `evidence_refs` were
changed still replays to the published projection and verifies.
`PublishedMeetsContracts` therefore says two things. Every published event meets
the bundled contracts it names in all that a projection shows; and there was a
trace lean-check looked at, with the published projection, that met the required
evidence as well. `examined` is auxiliary and remembers those traces.

Evidence is resolved once, into a list of items, and then copied file by file
from a directory that may have changed since; a file that is gone is left out,
and a copy is named for its item. The kernel is copied in two parts, so that a
bundle may hold a mixture. The bundler's memory (the certificate it read first) is kept apart from the
files it copies later. Anybody may edit the workspace or run another check
between two copies; a bundler may die and another begin over the same
directory. `issued`, `published`, `checkedLive` and `quiet` are auxiliary. The
refinement maps a bundle to the claim in it when the files agree on one, and
verify-bundle to `Publish`: a bundle that verifies without a claim Lean
accepted would be a step `ReleasePromise` does not have. `BindingIsCurrent`
judges a certificate in its workspace with and without `--trace`: without it
nothing is said of the trace or the evidence. The other half is
`HonestBundleVerifies`: a bundle made while nothing changed verifies, also with
the recompilation of its bundled proof, unless an attestation or a notice that
was made for another manifest or another trace still lies in the directory
(`OlderSidecar`): bundle-release does not clean it.

### The gates

Files, envelopes and registry are changed by separate commands in any order.
Time moves on its own; a signer's clock may be ahead. `made` remembers all
signatures ever made, so that `ReleasedIsAuthentic` can ask whether what goes
out was signed, as it is, by a key that was good. The gates are functions of
the state and are asked in every state, with and without a release root and a
provenance directory: the two gates that read these are content when they are
not given, and `Passes` is what an operator hears who names both. An envelope
may lie in each of the four places `discover_integrity_envelope` looks in;
verify-proof-binding has an order of its own, leaves out the file's own sidecar
and takes the first file there is, readable or not.

### The release directory

A document is a record of the JSON pointers that some rule reads; `run` says
which run it is of and no rule reads it. A digest is the document. Two runs
exist: the pinned release candidate and its successor. In the first phase the
producers of the second run write into the work directory while
`release_fixtures.py` copies it; a promotion may stop anywhere. In the second a
directory of any profile, promoted or put together from the files of both runs,
is edited once, maintained once, extracted from, checked and reported on.

## 3. Runs

| Run | Question | Bounds, and why they are enough |
|---|---|---|
| `kernel` | do frame, authority and refusal survive any order of events and handoffs? | two tenants, a capability of each kind, three principals, the recorded traces and handoff chains of the cfg: long enough for a foreign handoff, a return and a later event |
| `leancheck_race` | what do overlapping checks leave, is a claim licensed, and does every command end? | two commands with different modes, one trace, one output directory, each run again and again, killed at any step; two writers are enough for every write-write and write-read conflict. That a mode no release may issue is refused is proved for all constants |
| `leancheck_hash`, `leancheck_audit` | findings 1 and 2 | the commands of the race; one command with a forbidden word |
| `observation_batch` | what does an accepted trace still say, and does Lean prove what Python accepts? | three observations, two deliveries, two edits: a gap, a repetition, a swap, and a change whose seal is repaired elsewhere; eight kinds of event, six sets of evidence, seven modes; a handoff, a trace and a contract each with the identifier of another id. What is accepted is bounded from both sides: `AcceptedIsStretch` and `DenialsSurvive` say what acceptance implies, `WholeIsAccepted` when it may not be refused. The matcher is compared with its definition on all patterns of up to three characters |
| `tooluse_compile` | is what is compiled safe, and when accepted? | at most two calls of six kinds and three handoffs of four kinds; all sources |
| `tooluse_handoffs` | finding 3 | as above |
| `release_gates` | does only what was signed go out, and does it keep passing? | two signers, two keys, three instants, one signature and one edit, two pins: an expiry, a revocation in the past, a second revocation, an envelope that is stale, moved or in front of another, a pin that changes after an installation. One file, whose certificate-named sidecar and stem sidecar are one place; the bodies it may have are symmetric, as no definition tells one from another |
| `release_binding` | finding 4 | as above |
| `bundle_release` | does a verified bundle hold a claim Lean accepted? | two checks, two bundles, one edit of trace, evidence or kernel, one damaged or missing file: a check or a change between any two copies, a bundle over an older one, a kernel half of which was replaced. Traces that differ in their evidence references only are among those put in place. The checker is a live one, none at all (a mock), or the stub where it is allowed |
| `release_chain` | is what validates one run? do honest runs pass, do the two validators agree, does a replay notice edits, does Lean prove what Python admits? | two runs, every mixture of their files in each profile, one edit out of some forty, one for each rule of the validators and several that remove a field, or the loss of a file, one move of a repository, every point at which a copy or a promotion stops, every answer of lake in a directory nobody has touched. Rules that only the engine has where no importer is pinned need two edits to show, so that only the proof reaches them |
| `release_verdict` | finding 5 | as above |

Deadlock is checked in the lean-check runs. The other behaviours end or are
bounded: a compiler answers once, a trace has a last event, an operator's
edits are counted.

Fairness. Only `leancheck_race` needs it, for `EveryCheckEnds`. `FairSpec` asks
weak fairness of `Proceed(c)` for each command: what the interpreter does
without waiting, and the timeout of `subprocess.run`, which is positive unless
`PCS_LAKE_TIMEOUT_SECONDS` turns it off. `lake` owes no answer; nobody has to
start, kill or clean anything. Elsewhere no liveness is claimed: commands are
run by people, and nothing in the repository makes them.

### Findings

1. `leancheck_hash`: `proof_term_hash` is computed from the generated file
   before Lean reads it, and the file is named by the trace alone. Another
   check of the trace in another mode may replace it in between. What still
   holds is `HashBindsCompiled`.
2. `leancheck_audit`: the audit for `sorry`, `admit`, `axiom`, `unsafe` runs
   before the module is generated. A trace whose strings hold such a word is
   certified, and from then on every check in that checkout is refused until
   the file is deleted.
3. `tooluse_handoffs`: from the second handoff on, the numbers of handoff
   events have gaps, which the repository's own validation refuses.
4. `release_binding`: the gates and verify-proof-binding hash one certificate
   in two ways, so that an envelope the first accepts is refused by the second.
5. `release_verdict`: a failure code that belongs to no check of the catalogue
   leaves the verdict `ProofChecked`, beside its non-empty `failure_codes`.

Smaller observations, met while modelling and kept as they are in the models:

* Traces. The scope check of Python trusts the `resource_pattern` an event
  carries (`pf_core_runtime.py:424`), Lean uses the catalog's. A contract is
  asked by Lean of every event (`pf_core_lean_codegen.py:724`), by Python of
  those that name it (`pf_core_contract.py:352`). Identifiers that differ in
  punctuation merge. Unsafe handoffs fail only in Lean. The deny-closed and
  observed-effect validators (`pf_core_runtime.py:585`, `:644`) are called by
  no command. `docs/pf-core/contract-semantics.md` says that validate-trace
  evaluates event safety, which `cli.py:460` does not do.
* Evidence and bundle. The evidence references of a bundled trace are compared
  with nothing: projections leave them out (`pf_core_semantic_projection.py:103`),
  a trace hash is taken as declared, and verify-bundle does not validate
  contracts again. Of two handoffs with one id the first found is used: the
  check for duplicates (`pf_core_lean_codegen.py:830`) comes after they were
  removed. Claim class and mode in the bundle manifest are compared with
  nothing (`pf_core_bundle.py:1351`); `trace_hash` and the projection's hash
  are taken as declared; attest-bundle does not verify first; a malformed
  digest in a manifest raises.
* Integrity and gates. The search for envelopes does not see inline signatures,
  and an embedded one cannot match its own digest. Absent root artifact types
  are computed and dropped (`artifact_integrity.py:670`). A registry whose only
  key has expired passes the registry gate; malformed registry JSON raises.
  `signed_at` is not part of the signed message. `provision.env` gives its
  grade whatever executable is there. A release seal in the environment seals
  attestations of others (`external_attestation.py:98`).
  `finalize-provenance-attestation.sh:57` rewrites binding and status one after
  the other.
* Release chains. Promotion is described as atomic and is not
  (`release_fixtures.py:478`). The pending bundle and the import report are tied
  to the rest by commits only. A promoted run other than the pinned one fails
  its own validation, since release manifest and handoffs state the pinned
  bundle. The maintenance script makes a mixed directory consistent by writing
  one identity into all of it (`release_fixtures.py:173`), which is why
  `ValidatedIsOneRun` leaves out directories it touched. A validation without
  issues takes over the checks of an earlier verdict
  (`release_chain_report.py:114`), and formal checks come from a result on disk
  that nothing ties to the directory (`:173`). A manifest that names another
  profile is read as LabTrust's (`lean_trust.py:765`). The declarative engine
  finds more than the hand-written chains (`EngineAlone`; the parity harness
  compares them only on its fixtures): only the engine asks for a signature,
  asks for the import rules where no importer is pinned, asks that the importer
  states its own pin, wants the bundle and the result embedded in the signed
  bundle, and reads the LabTrust handoffs. The proof of `LegacyAgrees` brought most
  of these to light: a run of one edit on honest files had not shown them.
* Envelope. Lean's theorems for a computation do not mention the status of the
  witness, a string there; Python's evaluation does, and comes first.

## 4. Proofs

`PROJECT.json` lists the theorems; 39 of the 40 properties of the passing runs
are stated by one. They hold for every value of the constants that satisfies
the named assumptions of the modules, which TLC evaluates on the runs:

* what the constants are: `DeciderAssumption`, `KernelAssumption`,
  `ScopeAssumption`, `ExpandedAssumption` (expansion of roles keeps identity and
  tenant), `TheoremAssumption`, `BatchAssumption`, `ToolUseAssumption`,
  `LeanCheckAssumption`, `ReleaseGatesAssumption`, `BundleReleaseAssumption`;
* what the program ships or writes: `ModeTableAssumption` (the table of
  `pf_core_certificate_mode_status.py`), `KeyAssumption` (a key is published
  without a revocation), `PinAssumption` (a complete pin of a signed binary
  names its digest);
* that the marks for "no file", "not readable" and "no such field" are no
  content, no document the producers or the build write and no value of one
  (`SentinelAssumption`, `IdleAssumption`): in the runs they are model values;
* that nobody writes obligations by hand, nor the tag that tells of which run
  a document is, which is none of its fields (`EditsAssumption`); anything else
  in a release directory may be edited to anything.

The argument of each module:

* `PFKernelProofs`. `IInv` is the type invariant, `FrameValid` and the state
  the first event opened: a handoff keeps the tenant of the state, so frame
  validity needs only the shapes of records; refusal, footprint and authority
  are then shown inductive on top of it. That the resource frame
  is the union of the applied footprints (`FootprintExact`) is proved here and no
  longer asked of a run. The isolation decider
  `non_interference_d` is shown to be true of every trace, so that it says
  nothing about a trace beyond its tenants being two.
* `LeanCheckProofs`. `IInv` ties each place of a command to what it has read:
  an undisturbed command's file is its own text from the write to the last
  read; when all commands on a trace have one text, so is everybody's. A
  certificate inherits these facts when it is saved. `CompanionsMatch` is
  silent while a command saves, and so not inductive: `DirectoryInv` adds that
  in a directory whose save was not torn the saving command is alone, and that
  what it has written so far is its own text.
* `ToolUseCompileProofs`. `IInv` says of the events so far what
  `CompiledIsSafe` says of the end, and that the end comes after the last
  handoff. `EventsInv` gives the number of each event in closed form
  (`NumberAt`: calls count by one, handoffs by two from the second on); sealing
  always yields a valid chain, so that numbers alone decide and
  `AcceptedExactly` follows.
* `ObservationBatchProofs`. The invariant is small: a runtime numbers from
  zero, what is in the batch was observed, an untouched file is the compiled
  batch. The work lies in the operators. The compiler's order is the stable
  sort of `StableOrder`, shown by `StableOrderProofs` to arrange all of its
  input and nothing else. That numbers which follow each other make a stretch,
  and that a chain of stored hashes that is valid is the chain replay computes,
  are statements about every position, proved from the least element of a set
  of positions (`LeastElement`, `IntervalInduction`) rather than by the
  library's induction, which takes an operator. `WholeIsAlwaysAccepted` goes the
  other way: a sorted batch is in order at every position, not at neighbours
  only (`SortedInOrder`), so that the numbers of a stretch run on; a denied
  attempt whose id is its own is still denied where the compiler looks it up;
  and the batch of an answered caller is the one the answer was about.
  `NothingFoundIsProvable` holds of every
  trace, reachable or not: it goes through the seven modes, the names each
  needs and the theorems generated for it, and gives the four reasons for which
  Lean may still refuse.
* `ReleaseGatesProofs`. Files, envelopes and the provision file are tied to the
  signatures ever made: a readable envelope carries one of them, with the
  digest it was made over (`SidesInv`); a provision file has a grade its
  installer gives (`ProvisionInv`). A gate that passes then leads from the
  judged file to its signature, and from it to a key entry in force
  (`ReleasedIsAuthentic`); conversely the documented steps leave nothing that a
  gate objects to. `KeptUntilCause` and `RevocationStands` go through the
  actions: validity is judged as of the signing time, which no later step
  changes. `StableIsPreview`, that no gate is weaker for a release than for a
  preview, holds in every state and is therefore no longer a property of a run.
* `BundleReleaseProofs`. `BaseInv` says that every certificate anywhere was
  made from an accepted claim, whatever else lies beside it; together with the
  agreement of files that verify-bundle asks for, a verified claim was issued.
  That is the refinement: `PromiseIsKept` maps every step to a step of
  `ReleasePromise` or a stutter. `AttestationInv` says that a live word in an
  attestation was earned; that a stub cannot earn one rests on the references
  `certifyedge-stub.py` writes. For `HonestBundleVerifies`, `HonestInv` follows
  an undisturbed bundler: what it remembers and what it has copied are those of
  a settled workspace. The verifier then resolves evidence from the bundle's
  own files, and finds what the bundler found (`FilesByKind`, `ResolvedAgain`,
  `ProjectedAgain`, `GenuineVerifies`). The proof did not go through as long as
  only an attestation of another manifest was left out; one of another trace
  hash makes an honest bundle fail too. An undisturbed list of evidence is the
  copies of one directory, item by item; what an interrupted bundler left there is
  replaced by a copy of its name or is on no list. `PublishedAlwaysMeetsContracts`
  starts from the refinement: what is published was issued, what was issued is
  the projection of a pair in `examined`, and the deciders let that pair pass.
  Meeting a contract then carries over to the projected events for every
  requirement but the evidence, which they no longer have.
* `ReleaseChainProofs`. `AdmittedIsProvable` and `LegacyAgrees` are facts about
  any directory: obligations that hold are shown to be what the generated
  module states, and the two validators are compared rule by rule for the three
  profiles. `ReplayIsCurrent` needs history: `ReplayInv` says that obligations
  on disk are those of some extraction; digests are injective, and the bytes of
  a payload are fixed by the digest in its result, so that a replay that matches
  pins every field the obligations compare.

  `ValidatedIsOneRun`, `AdmittedIsOneRun` and `HonestRunValidates` need to know
  which document is where. `RunsInv` follows them: in the chain, what the
  producers' stage has redone is of the second run, all else of the first, and
  a copy in the run directory may be older than its original but is one of the
  two (`ChainInv`); a run directory with a manifest is a finished build, of the
  artifacts, a report made stable and the digests of both (`RunInv`); a target
  holds genuine documents of some run, or, once edited, of the first run but for
  the edited file (`TargetInv`: `Sound`, `FirstOrGarbled`). The commits are
  existential in these invariants: a repository may move between any two
  stages, and the stages done before keep the commit they had.
  For the first two properties, a directory without issue codes states one
  trace hash, or the hashes its witness is about, and one identity of the
  bundle; that the documents of two runs state different ones, field by field
  (`LabTrustStates`, `ToolUseStates`, `ComputationStates`), leaves one run. For
  the third, the argument runs the other way: a complete directory of one run is
  shown to give no issue in any stage of the engine (`HonestValidates`).

Only model-checked, being out of the prover's reach: liveness
(`EveryCheckEnds`), and what a fold computes for every input where no argument
about a least element helps.

## 5. Not modelled, and the plan

No module of the project declares a RECURSIVE operator, so that theorems can
be stated about each. Of the safety and action properties of the runs none is
left to prove. What could follow: a release of more than two runs and more than
one edit in a behaviour, for which `Sound` and `FirstOrGarbled` would have to
be one invariant; and the maintenance script, which `ValidatedIsOneRun` leaves
out because it makes documents of two runs look alike.

Abstractions within what is modelled, each named where it is made:

* Fields nothing in a model tells apart: the `release_id` and `obligation_id` of
  an obligations document, which replay compares as well, so that an edit of
  them is outside `ReplayIsCurrent`; the digest's shape and the policy digest of
  a CertifyEdge attestation; the position of an element in a list that LabTrust's
  alignment goes through.
* One handoff manifest and one older LabTrust handoff stand for all, so that
  their order cannot be wrong.
* Identifiers that end in the suffix of a definition generated for another one.
* A result on disk that a report reuses lists at least one check, as its schema
  demands.
* Paths a lean-check result names for its companions are those of the output
  directory, where the bundler has looked already (`lean_check.py:833`).

Not modelled, and why:

* Verifier assurance, schemas, artifact detection: functions of one document to
  a list of errors, without state or order; inputs of the models satisfy them.
* Status policy: a table that answers a question on the command line and that
  nothing asks before it writes a status.
* Replay certificates: written by `pf-core replay` and read by no command;
  after a mismatch the certificate of an earlier run stays
  (`pf_core_replay.py:384`).
* Canonical JSON and numbers, safe paths, asset resolution: data, or a search
  of the file system before a command starts. Hashes do not collide.
* Installing a Lean toolchain (`pf_core_bundle.py:1236`), which has no timeout.
* Paired execution and composition theorems of the Lean library, which no
  command evaluates.
* Producers of releases other than LabTrust's, which are not in this
  repository: their documents are modelled as honest ones of two runs.
* Benchmarks, conformance, wording, file formats, exit codes; the Rust and
  TypeScript ports, which keep no state and are compared over fixtures.
