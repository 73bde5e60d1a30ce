---------------------------- MODULE ReleaseGates ----------------------------
(***************************************************************************)
(* Preparing a release and judging it: an operator publishes and revokes   *)
(* keys, pins and installs the external checker, assembles files, signs    *)
(* them, finalizes provenance; `pcs release check-gates` says whether the  *)
(* result may go out.  Translated from python/pcs_core/release_gates.py,   *)
(* artifact_integrity.py and certifyedge_pin.py, and the scripts that      *)
(* write what they read.                                                   *)
(*                                                                         *)
(* The gates only read, so their report is a function of the state and may *)
(* be asked in every state.  Files are changed by people and tools in any  *)
(* order, one file at a time; finalizing provenance may stop half way.     *)
(***************************************************************************)
EXTENDS ArtifactIntegrity, CertifyEdge

CONSTANTS
    Files, TypeOf,      \* files of the release root and their artifact types
    Versioned,          \* types whose artifacts carry canonicalization_version
    Bodies,             \* what an artifact may say
    Shared, Named,      \* the places found for every file: ArtifactIntegrity.v1.json and
                        \* PFCoreCertificate.v0.integrity.json
    Stem,               \* [file -> place of <stem>.integrity.json]
    KeyOffers,          \* registry entries the operator may publish
    Holders,            \* <<seed, key id>>: who signs, and under which id
    Pins, Fetched, Fixture,  \* pin files; bytes an installation may fetch
    ModeTable,          \* [mode -> status and allowed_issuance]
    NoStatus,           \* no provenance file, or one without a status
    SeenFlaws, Ahead, RevokeTimes,  \* malformations, signers' clock errors, times declared
    MaxTime, MaxKeys, MaxMade, MaxEdits     \* bounds of the exploration

ASSUME ReleaseGatesAssumption ==
    /\ Files # {} /\ {Shared, Named} \cap Files = {} /\ DOMAIN Stem = Files
    /\ TypeOf \in [Files -> StableTypes \cup {"Other"}] /\ Versioned \subseteq StableTypes
    /\ MaxAge \in Nat /\ Skew \in Nat
    /\ {MaxTime, MaxKeys, MaxMade, MaxEdits} \subseteq Nat
    /\ SeenFlaws \subseteq Flaws \ {"none"} /\ Ahead \subseteq Nat /\ RevokeTimes \subseteq Nat
    /\ NoTime \notin Nat /\ NoStatus \notin {"pending", "signed", "gated"}

\* Entries of a registry as build_trusted_key_registry writes them.
ASSUME KeyAssumption ==
    \A k \in KeyOffers :
        /\ k = [id |-> k.id, public |-> k.public, from |-> k.from, until |-> k.until,
                revoked |-> NoTime, purposes |-> k.purposes]
        /\ k.from \in Nat /\ k.until \in Nat \cup {NoTime}

\* A complete pin of a signed binary names its digest.
ASSUME PinAssumption ==
    \A q \in Pins \ {NoPin} :
        q.complete /\ q.strategy = "signed_binary" => q.binary # NoFile

VARIABLES
    now,
    registry,           \* the sequence of keys, or NoRegistry
    root,               \* [Files -> artifact]
    side,               \* [places -> envelope]
    made,               \* signatures ever made: who, when, about what (auxiliary)
    edits,              \* how often a file was damaged or rewritten by hand (a bound)
    pin, provision,     \* pins/certifyedge.json and provision.env
    provenance          \* attestation status of the package; the notice that it is gated

integrityVars == <<now, registry, root, side, made, edits>>
orgVars == <<pin, provision, provenance>>
vars == <<integrityVars, orgVars>>

Times == 0..MaxTime
Places == Files \cup {Shared, Named} \cup {Stem[f] : f \in Files}
\* discover_integrity_envelope searches a file's own sidecar first.
PlacesOf == [f \in Files |-> <<f, Shared, Stem[f], Named>>]
\* verify_proof_binding does not look at the file's own sidecar.
BindingPlacesOf == [f \in Files |-> <<Named, Shared, Stem[f]>>]
Artifact(f, b) == [type |-> TypeOf[f], body |-> b, versioned |-> TypeOf[f] \in Versioned]

Artifacts == {Artifact(f, b) : f \in Files, b \in Bodies}
Envelopes ==
    LET digests == {[type |-> EnvelopeType, body |-> ReleaseDigest(a), versioned |-> TRUE] : a \in Artifacts}
    IN  [type : {EnvelopeType}, target : {ReleaseDigest(a) : a \in Artifacts}, digest : digests,
         flaw : Flaws,
         sig : [seed : {h[1] : h \in Holders}, id : {h[2] : h \in Holders}, at : Nat,
                message : {Message(EnvelopeType, d) : d \in digests}]]
Keys == {[k EXCEPT !.revoked = t] : k \in KeyOffers, t \in RevokeTimes \cup {NoTime}}

\* What stands for no file, no registry and no digest is none of them.
ASSUME SentinelAssumption ==
    /\ NoEnvelope # Garbled
    /\ {NoEnvelope, Garbled} \cap Artifacts = {}
    /\ NoEnvelope \notin Envelopes /\ Garbled \notin Envelopes
    /\ NoRegistry \notin Seq(Keys)
    /\ \A a \in Artifacts : ReleaseDigest(a) # NoTarget

Init ==
    /\ now = 0 /\ registry = NoRegistry /\ made = {} /\ edits = 0
    /\ root = [f \in Files |-> NoEnvelope] /\ side = [p \in Places |-> NoEnvelope]
    /\ pin \in Pins /\ provision = NoProvision
    /\ provenance = [status |-> NoStatus, notice |-> FALSE]

(***************************************************************************)
(* The keys.                                                               *)
(***************************************************************************)
\* Fault: an id published again replaces its entry, revocation included.
FaultPublish(k) ==
    /\ registry' = IF registry = NoRegistry THEN <<k>>
                   ELSE IF KeysWithId(registry, k.id) = {} THEN Append(registry, k)
                   ELSE [i \in DOMAIN registry |-> IF registry[i].id = k.id THEN k ELSE registry[i]]
    /\ Len(registry') <= MaxKeys
    /\ UNCHANGED <<now, root, side, made, edits, orgVars>>

\* build_trusted_key_registry does not look for an id already there.
Publish(k) ==
    /\ registry' = IF registry = NoRegistry THEN <<k>> ELSE Append(registry, k)
    /\ Len(registry') <= MaxKeys
    /\ UNCHANGED <<now, root, side, made, edits, orgVars>>

Revoke(id, when) ==
    /\ registry # NoRegistry /\ KeysWithId(registry, id) # {}
    /\ registry' = Revoked(registry, id, when)
    /\ UNCHANGED <<now, root, side, made, edits, orgVars>>

Tick == now < MaxTime /\ now' = now + 1 /\ UNCHANGED <<registry, root, side, made, edits, orgVars>>

(***************************************************************************)
(* The files.                                                              *)
(***************************************************************************)
\* The release is assembled again, or a file of it rewritten; envelopes stay.
WriteArtifact(f, b) ==
    /\ root[f] # Artifact(f, b) /\ (root[f] # NoEnvelope => edits < MaxEdits)
    /\ root' = [root EXCEPT ![f] = Artifact(f, b)]
    /\ edits' = IF root[f] = NoEnvelope THEN edits ELSE edits + 1
    /\ UNCHANGED <<now, registry, side, made, orgVars>>

\* A signer's clock may be ahead of the verifier's.
Sign(f, holder, place, at) ==
    /\ Readable(root[f]) /\ Cardinality(made) < MaxMade
    /\ side' = [side EXCEPT ![place] = Sidecar(root[f], holder[1], holder[2], at)]
    /\ made' = made \cup {[seed |-> holder[1], id |-> holder[2], at |-> at,
                           target |-> ReleaseDigest(root[f])]}
    /\ UNCHANGED <<now, registry, root, edits, orgVars>>

\* An envelope is lost, cut short, malformed, or made to name the file as it is now.
Disturb(p, env) ==
    /\ edits < MaxEdits /\ edits' = edits + 1
    /\ side[p] # env /\ side' = [side EXCEPT ![p] = env]
    /\ UNCHANGED <<now, registry, root, made, orgVars>>

Retargeted(env, f) == [env EXCEPT !.target = ReleaseDigest(root[f])]

Damaged(p) ==
    {NoEnvelope, Garbled}
    \cup IF ~Readable(side[p]) THEN {}
         ELSE {[side[p] EXCEPT !.flaw = w] : w \in SeenFlaws}
              \cup {Retargeted(side[p], f) : f \in {g \in Files : Readable(root[g])}}

GarbleArtifact(f) ==
    /\ Readable(root[f]) /\ edits < MaxEdits /\ edits' = edits + 1
    /\ root' = [root EXCEPT ![f] = Garbled]
    /\ UNCHANGED <<now, registry, side, made, orgVars>>

(***************************************************************************)
(* The organisation: pin, installed checker, provenance.                   *)
(***************************************************************************)
Repin(q) == pin # q /\ pin' = q /\ UNCHANGED <<integrityVars, provision, provenance>>

Install(mode, bytes) ==
    /\ Installable(pin, mode, Fixture) /\ FetchAccepted(pin, bytes, Fixture)
    /\ provision' = InstalledProvision(pin, bytes)
    /\ UNCHANGED <<integrityVars, pin, provenance>>

\* The same through build_provision_environment.
InstallFromPython(bytes) ==
    /\ pin # NoPin /\ pin.strategy # "none" /\ bytes # NoFile
    /\ provision' = BuiltProvision(pin, bytes)
    /\ UNCHANGED <<integrityVars, pin, provenance>>

BuildProvenance ==
    /\ provenance.status = NoStatus
    /\ provenance' = [provenance EXCEPT !.status = "pending"]
    /\ UNCHANGED <<integrityVars, pin, provision>>

(* finalize-provenance-attestation.sh writes the binding, then the notice; a  *)
(* package is built and finalized once.  attestation-status.json repeats the *)
(* binding's status and counts only where the binding has none.             *)
FinalizeBinding(status) ==
    /\ provenance.status = "pending"
    /\ provenance' = [provenance EXCEPT !.status = status]
    /\ UNCHANGED <<integrityVars, pin, provision>>
FinalizeNotice ==
    /\ provenance.status = "gated" /\ ~provenance.notice
    /\ provenance' = [provenance EXCEPT !.notice = TRUE]
    /\ UNCHANGED <<integrityVars, pin, provision>>

Next ==
    \/ \E k \in KeyOffers : Publish(k)
    \/ \E id \in {k.id : k \in KeyOffers}, when \in RevokeTimes : Revoke(id, when)
    \/ Tick
    \/ \E f \in Files : \/ \E b \in Bodies : WriteArtifact(f, b)
                        \/ GarbleArtifact(f)
                        \/ \E h \in Holders, p \in {f, Shared, Stem[f], Named}, a \in Ahead : Sign(f, h, p, now + a)
    \/ \E p \in Places : \E env \in Damaged(p) : Disturb(p, env)
    \/ \E q \in Pins : Repin(q)
    \/ \E bytes \in Fetched : InstallFromPython(bytes) \/ \E m \in {"release", "preview"} : Install(m, bytes)
    \/ BuildProvenance \/ FinalizeNotice
    \/ \E status \in {"signed", "gated"} : FinalizeBinding(status)

Spec == Init /\ [][Next]_vars

(***************************************************************************)
(* The gates, by mode: the names of those that fail hard.                  *)
(***************************************************************************)
PinGateFails(mode) == pin = NoPin \/ (mode = "release" /\ ~ProductionReady(pin))

TrustGateFails(mode) ==
    /\ mode = "release"
    /\ IF provision = NoProvision THEN pin # NoPin /\ ProductionReady(pin)
       ELSE provision.grade # "pinned"

\* A key that is to be revoked later counts as revoked; one that expired does not.
HasReleaseKey ==
    \E i \in DOMAIN registry :
        ServesPurpose(registry[i], "release_signing") /\ registry[i].revoked = NoTime

RegistryGateFails(mode) ==
    mode = "release" /\ (registry = NoRegistry \/ ~Loadable(registry) \/ ~HasReleaseKey)

(* Asked without --release-root the gate is content.  Outside a release, a   *)
(* missing signature is a notice; a wrong one is not.                       *)
SignatureGateFails(mode, rootGiven) ==
    /\ rootGiven
    /\ IF registry = NoRegistry THEN mode = "release"
       ELSE \/ ~Loadable(registry)
            \/ \E e \in RootErrors(root, side, PlacesOf, registry, now) :
                  mode = "release" \/ e[2] # "MissingAuthenticatedIntegrity"

\* Content, too, without --provenance-dir.
ProvenanceGateFails(mode, packageGiven, allowGated) ==
    /\ packageGiven
    /\ CASE provenance.status = NoStatus -> mode = "release"
         [] provenance.status = "signed" -> FALSE
         [] provenance.status = "gated"  -> ~provenance.notice \/ (mode = "release" /\ ~allowGated)
         [] OTHER -> TRUE

SpecializedModes == {"HandoffSafeCertificate", "ContractCheckedCertificate",
                     "EffectFrameCertificate", "FramePreservedCertificate"}

\* The table the program ships (pf_core.certificate_mode_status.json).
ASSUME ModeTableAssumption ==
    /\ ModeTable["TraceSafeRCertificate"].status = "release_candidate"
    /\ \A m \in SpecializedModes \cap DOMAIN ModeTable : ModeTable[m].issued = FALSE
    /\ ModeTable["CompositionalExtensionCertificate"].status # "release_candidate"

ModePolicyGateFails ==
    \/ ModeTable["TraceSafeRCertificate"].status # "release_candidate"
    \/ \E m \in SpecializedModes \cap DOMAIN ModeTable : ModeTable[m].issued
    \/ ModeTable["CompositionalExtensionCertificate"].status = "release_candidate"

OciGateFails(mode, requirePublish, digestSet) == requirePublish /\ mode = "release" /\ ~digestSet

\* `given` names the directories the command is asked about.
HardFailures(mode, given, allowGated, requirePublish, digestSet) ==
    {g \in {"pin", "trust", "registry", "signatures", "provenance", "modes", "oci"} :
        \/ g = "pin"        /\ PinGateFails(mode)
        \/ g = "trust"      /\ TrustGateFails(mode)
        \/ g = "registry"   /\ RegistryGateFails(mode)
        \/ g = "signatures" /\ SignatureGateFails(mode, "release root" \in given)
        \/ g = "provenance" /\ ProvenanceGateFails(mode, "provenance" \in given, allowGated)
        \/ g = "modes"      /\ ModePolicyGateFails
        \/ g = "oci"        /\ OciGateFails(mode, requirePublish, digestSet)}

\* What an operator who names both directories, and waives nothing, is told.
Passes(mode) == HardFailures(mode, {"release root", "provenance"}, FALSE, FALSE, FALSE) = {}

(***************************************************************************)
(* Properties.                                                             *)
(***************************************************************************)
SignatureRecords == [seed : {h[1] : h \in Holders}, id : {h[2] : h \in Holders},
                     at : {t + a : t \in Times, a \in Ahead}, target : {ReleaseDigest(a) : a \in Artifacts}]

\* The shape of the state.
TypeOK ==
    /\ now \in Times /\ edits \in 0..MaxEdits
    /\ registry = NoRegistry \/ (Len(registry) \in 1..MaxKeys
          /\ \A i \in DOMAIN registry : registry[i].revoked \in RevokeTimes \cup {NoTime})
    /\ \A f \in Files : Readable(root[f]) => root[f] \in Artifacts
    /\ \A p \in Places : Readable(side[p]) => side[p].type = EnvelopeType /\ side[p].flaw \in Flaws
    /\ made \subseteq SignatureRecords /\ Cardinality(made) <= MaxMade
    /\ pin \in Pins /\ (provision # NoProvision => provision.grade \in Grades)
    /\ provenance.status \in {NoStatus, "pending", "signed", "gated"}

(* What a stable release lets out was signed as it is now: for every file    *)
(* that counts, somebody holding a listed release key made a signature about *)
(* this very content, while that key was valid and not revoked, and not      *)
(* longer ago than a signature may be (verify_release_root_signatures).      *)
ReleasedIsAuthentic ==
    Passes("release") =>
        \A f \in Judged(root) : \E m \in made, i \in DOMAIN registry :
            /\ m.target = ReleaseDigest(root[f])
            /\ registry[i].id = m.id /\ registry[i].public = m.seed
            /\ ServesPurpose(registry[i], "release_signing") /\ IsValidAt(registry[i], m.at)
            /\ now - MaxAge <= m.at /\ m.at <= now + Skew

(* A release prepared by the book passes: each file signed beside itself     *)
(* with a listed key in its interval, recently, the key never revoked, the   *)
(* checker installed from a ready pin, provenance signed.                    *)
SignedByTheBook(f) ==
    \E m \in made, i \in DOMAIN registry :
        /\ side[f] = Sidecar(root[f], m.seed, m.id, m.at)
        /\ registry[i].id = m.id /\ registry[i].public = m.seed /\ registry[i].revoked = NoTime
        /\ ServesPurpose(registry[i], "release_signing") /\ IsValidAt(registry[i], m.at)
        /\ m.at \in (now - MaxAge)..(now + Skew)

PreparedByTheBook ==
    /\ registry # NoRegistry /\ Loadable(registry)
    /\ \A f \in Files : Readable(root[f]) /\ SignedByTheBook(f)
    /\ pin # NoPin /\ ProductionReady(pin) /\ provision # NoProvision /\ provision.grade = "pinned"
    /\ provenance.status = "signed"

HonestReleasePasses == PreparedByTheBook => Passes("release")

(* What may go out as a stable release may go out as a preview: no gate is   *)
(* weaker for a release (evaluate_release_gates).                            *)
StableImpliesPreview == Passes("release") => Passes("preview")

(* A release goes out only with a checker that is the pinned one, byte for   *)
(* byte, where the pin names bytes; provided provision.env was written from  *)
(* the present pin, which the gates do not compare.                          *)
AcceptedCheckerIsPinned ==
    Passes("release") /\ provision # NoProvision /\ provision.identity = pin
        /\ pin.strategy = "signed_binary"
        => provision.digest = pin.binary

(* A release that passes keeps passing while keys are rotated: it stops only *)
(* when a file, an envelope or the organisation's state changes, when the    *)
(* registry repeats an id or has no key left, when a signature outgrows its  *)
(* age, or when its key is declared revoked as of the signing or before.     *)
CauseOfLoss ==
    \/ root' # root \/ side' # side \/ orgVars' # orgVars
    \/ ~Loadable(registry') \/ ~HasReleaseKey'
    \/ \E f \in Judged(root) :
          LET sig == Discovered(side, PlacesOf[f]).sig
          IN  \/ sig.at < now' - MaxAge
              \/ \E k \in KeysWithId(registry', sig.id) : IsRevokedAt(k, sig.at)

KeptUntilCause == [][Passes("release") /\ ~CauseOfLoss => Passes("release")']_vars

(* A signature refused because its key was revoked stays refused, whatever   *)
(* is published or signed, unless a later revocation time is declared for    *)
(* the key: the code takes the last one declared (revoke_key_in_registry).   *)
RefusedAsRevoked(f) ==
    /\ registry # NoRegistry /\ f \in Judged(root)
    /\ "KeyRevokedAtSignatureTime" \in FileErrors(root, side, PlacesOf, f, registry, now)

RevokedLater ==
    \E i \in DOMAIN registry \cap DOMAIN registry' :
        /\ registry[i].revoked # NoTime /\ registry'[i].revoked \in RevokeTimes
        /\ registry'[i].revoked > registry[i].revoked

RevocationStands ==
    [][\A f \in Files :
         RefusedAsRevoked(f) /\ UNCHANGED <<root, side>> /\ ~RevokedLater => RefusedAsRevoked(f)']_vars

(* What the code means to hold, and does not: a certificate whose envelope   *)
(* the gates accept has that envelope accepted by verify-proof-binding too   *)
(* ("authenticated certificate integrity when available").                   *)
SignedCertificateBinds ==
    \A f \in Judged(root) :
        /\ TypeOf[f] = "PFCoreCertificate.v0" /\ registry # NoRegistry /\ Loadable(registry)
        /\ FileErrors(root, side, PlacesOf, f, registry, now) = {}
        => BindingErrors(root[f], Presented(side, BindingPlacesOf[f]), registry, now) = {}
=============================================================================
