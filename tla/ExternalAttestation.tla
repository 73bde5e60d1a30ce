------------------------ MODULE ExternalAttestation ------------------------
(***************************************************************************)
(* An external checker's word on one release bundle: how the attestation   *)
(* is made from a call of CertifyEdge, how it is sealed, and what a        *)
(* verifier asks of the attestation, or of the notice that stands in for   *)
(* it in a preview.  Translated from python/pcs_core/                      *)
(* external_attestation.py and cmd_pf_core_attest_bundle of cli.py.        *)
(*                                                                         *)
(* The digest of a bundle is its manifest; an attestation nobody altered   *)
(* has the digest it records, an altered one does not.  The policy digest, *)
(* the times and the wording are left out.                                 *)
(***************************************************************************)
EXTENDS CertifyEdge

CONSTANTS Garbled       \* a file that cannot be parsed, or whose own digest is wrong

Missing(f) == f \in {NoFile, Garbled}

(* The class of the result; "live" is kept for checks that succeeded, unless *)
(* the reference itself claims it.                                           *)
AttestationClass(check) ==
    LET byRef(default) == IF RefClass(check.ref) # NoClass THEN RefClass(check.ref) ELSE default
        class == IF check.class # NoClass THEN check.class
                 ELSE byRef(IF check.ok THEN "live" ELSE "mock")
    IN  IF ~check.ok /\ class = "live" THEN byRef("mock") ELSE class

(* Whose word it is: an installed checker's, the executable's on the path,  *)
(* or, with a stub or nothing, that of the empty file.                      *)
Issuer(env, provision) ==
    CASE provision # NoProvision /\ provision.exe # NoFile ->
            [digest |-> provision.digest, issuer |-> provision.identity]
      [] OTHER -> IF env.live # NoFile THEN [digest |-> env.live, issuer |-> env.live]
                  ELSE [digest |-> NoFile, issuer |-> NoPin]

(* With a signing seed in the environment the mode becomes ed25519_signed   *)
(* after the content was hashed under the mode asked for.                   *)
Sealed(att, seed) ==
    [att EXCEPT !.auth = IF seed THEN "ed25519_signed" ELSE "digest_bound",
                !.over = att.auth]

BuiltAttestation(manifest, trace, check, env, provision) ==
    LET issuer == Issuer(env, provision)
    IN  Sealed([bundle |-> manifest, trace |-> trace.hash,
                class |-> AttestationClass(check), ref |-> check.ref, result |-> check.status,
                digest |-> issuer.digest, issuer |-> issuer.issuer, version |-> env.version,
                auth |-> "digest_bound", over |-> "digest_bound"], env.seed)

\* build_external_attestation raises on these.
BuildErrors(att) ==
    {e \in {"LiveNotChecked", "LiveWithOtherRef"} :
        \/ e = "LiveNotChecked" /\ att.class = "live" /\ att.result # "CertificateChecked"
        \/ e = "LiveWithOtherRef" /\ att.class = "live" /\ RefClass(att.ref) \in {"mock", "stub"}}

(***************************************************************************)
(* validate_external_attestation, without require_pinned_checker, which no *)
(* caller sets.                                                            *)
(***************************************************************************)
\* Fault: the bundle digest is recorded and never compared.
FaultBoundErrors(att, manifest, trace) ==
    {e \in {"TraceMismatch"} : att.trace # trace.hash}

BoundErrors(att, manifest, trace) ==
    {e \in {"BundleMismatch", "TraceMismatch"} :
        \/ e = "BundleMismatch" /\ att.bundle # manifest
        \/ e = "TraceMismatch"  /\ att.trace # trace.hash}

LiveErrors(att) ==
    {e \in {"NotLive", "RefRejected", "ResultRejected"} :
        \/ e = "NotLive" /\ att.class # "live"
        \/ e = "RefRejected" /\ RefClass(att.ref) \in {"mock", "stub"}
        \/ e = "ResultRejected" /\ att.result # "CertificateChecked"}

SealErrors(att, registered) ==
    {e \in {"SignatureInvalid"} : att.auth = "ed25519_signed" /\ ~(registered /\ att.over = att.auth)}

AttestationErrors(att, manifest, trace, requireLive, site) ==
    IF att = Garbled THEN {"DigestMismatch"}
    ELSE BoundErrors(att, manifest, trace)
         \cup (IF requireLive THEN LiveErrors(att) ELSE {})
         \cup SealErrors(att, site.registered)
         \cup AttestationPinErrors(att, site.pin, site.provision, FALSE)

(***************************************************************************)
(* attest_release_bundle: the attestation it writes, or NoFile if it       *)
(* raises.  `site` holds the pin, the provision environment and whether    *)
(* the signing key is registered.                                          *)
(***************************************************************************)
Attested(manifest, trace, env, requireLive, answer, site) ==
    LET check == RunCertifyEdgeCheck(env, NoRef, requireLive, answer)
        att   == BuiltAttestation(manifest, trace, check, env, site.provision)
        refused == \/ requireLive /\ ~(check.ok /\ att.class = "live")
                   \/ requireLive
                      /\ CheckerTrust(env.live, site.pin, site.provision) = "untrusted_development"
                   \/ BuildErrors(att) # {}
                   \/ AttestationErrors(att, manifest, trace, requireLive, site) # {}
    IN  IF refused THEN NoFile ELSE att

(* A live binary was really run on the trace, and answered.                 *)
ReallyChecked(env, answer) ==
    ChosenChecker(env) \notin {"stub", NoFile} /\ env.mode # "mock" /\ answer.exit = "zero"

(***************************************************************************)
(* validate_bundle_external_attestation: the attestation if there is one;  *)
(* else nothing short of it will do for a release, and a preview needs the *)
(* notice.                                                                 *)
(***************************************************************************)
SidecarErrors(att, notice, manifest, trace, requireLive, allowNotice, site) ==
    CASE att # NoFile -> AttestationErrors(att, manifest, trace, requireLive, site)
      [] att = NoFile /\ (requireLive \/ ~allowNotice) -> {"AttestationMissing"}
      [] OTHER -> IF Missing(notice) THEN {"AttestationOrNoticeMissing"}
                  ELSE IF notice # manifest THEN {"NoticeMismatch"} ELSE {}
=============================================================================
