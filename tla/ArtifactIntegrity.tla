------------------------- MODULE ArtifactIntegrity -------------------------
(***************************************************************************)
(* Ed25519 signatures over artifacts: the registry of trusted keys, the    *)
(* envelope that carries a signature beside an artifact, and the verdict   *)
(* on it.  Translated from python/pcs_core/artifact_integrity.py and       *)
(* hash.py.  Everything here is a function of the files it reads; the      *)
(* processes that write those files are in ReleaseGates.                   *)
(*                                                                         *)
(* Hashes do not collide: the digest of an artifact is the record of what  *)
(* is hashed.  A signature is the seed it was made with and its message.   *)
(***************************************************************************)
EXTENDS Integers, Sequences, FiniteSets

CONSTANTS
    MaxAge, Skew,       \* TimestampPolicy, in units of the model's clock
    NoTime,             \* no valid_until, no revoked_at
    NoTarget,           \* no digest expected, no digest recorded
    NoEnvelope,         \* no file
    Garbled,            \* a file that cannot be parsed
    NoRegistry          \* no registry configured

StableTypes == {"ReleaseManifest.v0", "PFCoreReleaseBundleManifest.v0", "PFCoreCertificate.v0",
                "LeanCheckResult.v0", "ExternalAttestation.v0", "PublicationBundle.v0"}
EnvelopeType == "ArtifactIntegrity.v1"

(***************************************************************************)
(* Digests.  The release digest defaults canonicalization_version to "v1"  *)
(* before hashing; the plain hash takes the artifact as it is.             *)
(***************************************************************************)
ReleaseDigest(a) == [type |-> a.type, body |-> a.body, versioned |-> TRUE]
PlainDigest(a)   == [type |-> a.type, body |-> a.body, versioned |-> a.versioned]

\* The domain-separated message names the type beside the digest.
Message(type, digest) == [type |-> type, digest |-> digest]

(***************************************************************************)
(* The registry: a list of keys, refused as a whole if an id is repeated.  *)
(***************************************************************************)
Loadable(registry) ==
    \A i, j \in DOMAIN registry : registry[i].id = registry[j].id => i = j

KeysWithId(registry, id) == {k \in {registry[i] : i \in DOMAIN registry} : k.id = id}

IsRevokedAt(key, t) == key.revoked # NoTime /\ t >= key.revoked
IsValidAt(key, t) ==
    /\ t >= key.from
    /\ key.until # NoTime => t <= key.until
    /\ ~IsRevokedAt(key, t)

\* A purpose is asked of the keys that name purposes at all.
ServesPurpose(key, purpose) == key.purposes = {} \/ purpose \in key.purposes

\* revoke_key_in_registry: the time given replaces the one recorded before.
Revoked(registry, id, when) ==
    [i \in DOMAIN registry |->
        IF registry[i].id = id THEN [registry[i] EXCEPT !.revoked = when] ELSE registry[i]]

TimestampErrors(signedAt, key, now) ==
    {e \in {"KeyRevokedAtSignatureTime", "KeyOutsideValidityInterval",
            "SignatureTimestampInFuture", "SignatureTimestampTooOld"} :
        \/ e = "KeyRevokedAtSignatureTime"  /\ IsRevokedAt(key, signedAt)
        \/ /\ e = "KeyOutsideValidityInterval"
           /\ ~IsValidAt(key, signedAt) /\ ~IsRevokedAt(key, signedAt)
        \/ e = "SignatureTimestampInFuture" /\ signedAt > now + Skew
        \/ e = "SignatureTimestampTooOld"   /\ signedAt < now - MaxAge}

(***************************************************************************)
(* Envelopes.  `flaw` is what is malformed about one: files that were      *)
(* edited, cut short or written by another tool.                           *)
(***************************************************************************)
Flaws == {"none", "legacy field", "no digest", "no signature", "algorithm", "incomplete",
          "bad time"}

\* sign_artifact: the digest is attached first, then the signature over it.
SignArtifact(envelope, seed, id, at) ==
    LET digest == [type |-> envelope.type, body |-> envelope.target, versioned |-> TRUE]
    IN  [type |-> envelope.type, target |-> envelope.target, digest |-> digest, flaw |-> "none",
         sig |-> [seed |-> seed, id |-> id, at |-> at, message |-> Message(envelope.type, digest)]]

\* Fault: what is signed is the digest of the artifact, not of the envelope.
FaultSidecar(artifact, seed, id, at) ==
    [type |-> EnvelopeType, target |-> ReleaseDigest(artifact), digest |-> ReleaseDigest(artifact),
     flaw |-> "none",
     sig |-> [seed |-> seed, id |-> id, at |-> at,
              message |-> Message(EnvelopeType, ReleaseDigest(artifact))]]

\* build_integrity_sidecar: an envelope about an artifact, signed as itself.
Sidecar(artifact, seed, id, at) ==
    SignArtifact([type |-> EnvelopeType, target |-> ReleaseDigest(artifact)], seed, id, at)

EnvelopeDigest(env) == [type |-> env.type, body |-> env.target, versioned |-> TRUE]

\* verify_ed25519, from how it is used: the key that made it, on this message.
SignatureHolds(sig, public, message) == sig.seed = public /\ sig.message = message

\* Fault: the target an envelope names is not compared.
FaultDigestErrors(env, expected) == IF env.digest = EnvelopeDigest(env) THEN {} ELSE {"DigestMismatch"}

(* verify_artifact_signature.  Errors add up; what comes after a missing     *)
(* part is not looked at.                                                    *)
DigestErrors(env, expected) ==
    {e \in {"DigestMismatch", "TargetDigestMismatch"} :
        \/ e = "DigestMismatch" /\ env.digest # EnvelopeDigest(env)
        \/ /\ e = "TargetDigestMismatch" /\ expected # NoTarget
           /\ expected \notin {env.digest, EnvelopeDigest(env), env.target}}

\* Fault: the key is judged as of the verification, not of the signing.
FaultKeyErrors(env, key, now, purpose) ==
    (IF ServesPurpose(key, purpose) THEN {} ELSE {"KeyPurposeMismatch"})
    \cup TimestampErrors(now, key, now)
    \cup (IF SignatureHolds(env.sig, key.public, Message(env.type, env.digest)) THEN {}
          ELSE {"SignatureVerificationFailed"})

KeyErrors(env, key, now, purpose) ==
    (IF ServesPurpose(key, purpose) THEN {} ELSE {"KeyPurposeMismatch"})
    \cup IF env.flaw = "bad time" THEN {"InvalidSignatureTimestamp"}
         ELSE TimestampErrors(env.sig.at, key, now)
              \cup (IF SignatureHolds(env.sig, key.public, Message(env.type, env.digest)) THEN {}
                    ELSE {"SignatureVerificationFailed"})

SignatureErrors(env, registry, now, purpose, expected) ==
    CASE env.flaw = "no digest" -> {"DigestMissing"}
      [] env.flaw \in {"no signature", "algorithm", "incomplete"} ->
            DigestErrors(env, expected) \cup {env.flaw}
      [] OTHER ->
            (IF env.flaw = "legacy field" THEN {"LegacyField"} ELSE {})
            \cup DigestErrors(env, expected)
            \cup IF KeysWithId(registry, env.sig.id) = {} THEN {"UnknownKeyId"}
                 ELSE UNION {KeyErrors(env, k, now, purpose) : k \in KeysWithId(registry, env.sig.id)}

(***************************************************************************)
(* A release root: files of known types, each with the places where its    *)
(* envelope may lie, in the order of the search.  A garbled file is        *)
(* skipped, an artifact as much as an envelope.                            *)
(***************************************************************************)
Readable(x) == x \notin {NoEnvelope, Garbled}

Discovered(side, places) ==
    LET found == {i \in DOMAIN places : Readable(side[places[i]])}
    IN  IF found = {} THEN NoEnvelope
        ELSE side[places[CHOOSE i \in found : \A j \in found : i <= j]]

Judged(root) == {f \in DOMAIN root : Readable(root[f]) /\ root[f].type \in StableTypes}

FileErrors(root, side, places, f, registry, now) ==
    LET env == Discovered(side, places[f])
    IN  IF env = NoEnvelope THEN {"MissingAuthenticatedIntegrity"}
        ELSE SignatureErrors(env, registry, now, "release_signing", ReleaseDigest(root[f]))

\* verify_release_root_signatures: errors by file.
RootErrors(root, side, places, registry, now) ==
    UNION {{<<f, e>> : e \in FileErrors(root, side, places, f, registry, now)} : f \in Judged(root)}

(***************************************************************************)
(* Step 2 of verify_proof_binding: the envelope of a certificate, asked    *)
(* about the plain hash of the certificate.  The first file there is taken,*)
(* readable or not; one that breaks the schema is not looked into.  With   *)
(* no registry configured only the digests are compared.                   *)
(***************************************************************************)
Presented(side, places) ==
    LET found == {i \in DOMAIN places : side[places[i]] # NoEnvelope}
    IN  IF found = {} THEN NoEnvelope
        ELSE side[places[CHOOSE i \in found : \A j \in found : i <= j]]

BindingErrors(cert, env, registry, now) ==
    IF env = NoEnvelope THEN {}
    ELSE IF env = Garbled THEN {"ArtifactIntegrityUnreadable"}
    ELSE IF env.flaw # "none" THEN {"ArtifactIntegritySchemaInvalid"}
    ELSE LET actual == PlainDigest(cert)
         IN  (IF actual \in {env.digest, env.target} THEN {}
              ELSE {"ArtifactIntegrityDigestMismatch"})
             \cup IF registry = NoRegistry THEN {}
                  ELSE SignatureErrors(env, registry, now, "release_signing", actual)
=============================================================================
