---------------------------- MODULE CertifyEdge ----------------------------
(***************************************************************************)
(* The external checker CertifyEdge as the program sees it: the pin that   *)
(* says which binary is meant, the provision environment written when one  *)
(* is installed, how a checker is graded, and what a call of it returns.   *)
(* Translated from python/pcs_core/certifyedge_pin.py,                     *)
(* pf_core_certifyedge.py and scripts/provision-certifyedge.sh.            *)
(*                                                                         *)
(* A digest is the binary itself: hashes do not collide.  An identity      *)
(* string that names the fields of the pin is the pin.                     *)
(***************************************************************************)
EXTENDS FiniteSets

CONSTANTS
    NoFile,         \* no executable, no digest
    NoPin,          \* the pin file cannot be read
    NoProvision,    \* no provision.env
    NoRef,          \* no attestation reference
    NoClass         \* not classified

(* `complete`: the fields the strategy needs are there, well formed, and no *)
(* placeholders.  `binary` is what the pinned digest is a digest of.        *)
Strategies == {"none", "dev_fixture", "oci_digest", "signed_binary",
               "source_commit_build", "unknown"}
ProductionStrategies == {"oci_digest", "signed_binary", "source_commit_build"}
Grades == {"pinned", "untrusted_development", "unpinned"}

\* The checks of pin_is_production_ready; a pin is ready when none fails.
PinErrors(pin) ==
    {e \in {"status", "strategy", "fields"} :
        \/ e = "status"   /\ pin.status # "pinned"
        \/ e = "strategy" /\ pin.strategy \notin ProductionStrategies
        \/ e = "fields"   /\ pin.strategy \in ProductionStrategies /\ ~pin.complete}

ProductionReady(pin) == PinErrors(pin) = {}

\* Only these strategies name the bytes of an executable.
ExpectedBinary(pin) ==
    IF pin.complete /\ pin.strategy \in {"signed_binary", "dev_fixture", "oci_digest"}
    THEN pin.binary ELSE NoFile

DevFixtureAllowed(pin, fixture) ==
    /\ pin.strategy = "dev_fixture"
    /\ pin.status \in {"pinned", "dev_fixture"}
    /\ pin.binary \in {NoFile, fixture}

\* verify-certifyedge-pin.py: preview and dev take an unpinned file as it is.
PinAcceptable(pin, mode, fixture) ==
    /\ pin # NoPin
    /\ \/ ProductionReady(pin)
       \/ (mode # "release" /\ (pin.strategy = "dev_fixture" => DevFixtureAllowed(pin, fixture)))

(* Installing: the script runs the pin check, refuses what it cannot        *)
(* install, and writes provision.env for the bytes it fetched.  It reports  *)
(* "pinned" for every production strategy, the pin's status not considered. *)
Installable(pin, mode, fixture) ==
    /\ PinAcceptable(pin, mode, fixture)
    /\ pin.status \in {"pinned", "dev_fixture"}
    /\ pin.strategy \in ProductionStrategies \cup (IF mode = "release" THEN {} ELSE {"dev_fixture"})

KnownVersion(pin) == IF pin.version = "" THEN "unknown" ELSE pin.version

InstalledProvision(pin, fetched) ==
    [exe |-> fetched, digest |-> fetched, version |-> KnownVersion(pin), identity |-> pin,
     strategy |-> pin.strategy,
     grade |-> IF pin.strategy = "dev_fixture" THEN "untrusted_development" ELSE "pinned"]

\* Fault: the download is not compared with its checksum.
FaultFetchAccepted(pin, fetched, fixture) == fetched # NoFile

\* A checksum is compared for a signed binary and for the fixture only.
FetchAccepted(pin, fetched, fixture) ==
    CASE pin.strategy = "signed_binary" -> fetched = pin.binary
      [] pin.strategy = "dev_fixture"   -> fetched = fixture
      [] OTHER                          -> fetched # NoFile

\* Fault: the strategy is recorded as the grade.
FaultBuiltProvision(pin, exe) ==
    [exe |-> exe, digest |-> exe, version |-> KnownVersion(pin), identity |-> pin,
     strategy |-> pin.strategy, grade |-> pin.strategy]

\* build_provision_environment: the same from Python, the grade judged by the pin.
BuiltProvision(pin, exe) ==
    LET expected == ExpectedBinary(pin)
        matches == exe = expected
        pinned == \/ ProductionReady(pin) /\ (expected = NoFile \/ matches)
                  \/ pin.strategy # "dev_fixture" /\ expected # NoFile /\ matches
    IN  [exe |-> exe, digest |-> exe, version |-> KnownVersion(pin), identity |-> pin,
         strategy |-> pin.strategy,
         grade |-> IF pinned THEN "pinned" ELSE "untrusted_development"]

\* provision.env is believed; without it the executable is compared with the pin.
CheckerTrust(exe, pin, provision) ==
    CASE provision # NoProvision -> provision.grade
      [] provision = NoProvision /\ (pin = NoPin \/ pin.status # "pinned") -> "unpinned"
      [] OTHER ->
            CASE pin.strategy = "dev_fixture" -> "untrusted_development"
              [] pin.strategy # "dev_fixture" /\ (~ProductionReady(pin) \/ exe = NoFile) -> "unpinned"
              [] OTHER -> IF ExpectedBinary(pin) \in {NoFile, exe} THEN "pinned"
                          ELSE "untrusted_development"

(***************************************************************************)
(* A call of the checker.  `env` is the environment: mode (the resolved    *)
(* PF_CORE_CERTIFYEDGE_MODE), requireLive, allowStub, live (the binary on  *)
(* the path or NoFile), stub (an explicit format stub is configured).      *)
(* `answer` is what the process does: it cannot be started, exits nonzero, *)
(* or exits 0 having printed a reference or none.                          *)
(***************************************************************************)
RefClass(ref) == IF ref = NoRef THEN NoClass ELSE ref

Answers(refs) == [exit : {"oserror", "nonzero", "zero"}, ref : refs]

\* _reject_release_attestation: classes a release does not take.
Disallowed(class, requireLive, allowStub) ==
    requireLive /\ (class = "mock" \/ (class = "stub" /\ ~allowStub))

Refused(class, ref) ==
    [ok |-> FALSE, class |-> class, ref |-> ref, status |-> "Rejected"]
Checked(class, ref) ==
    [ok |-> TRUE, class |-> class, ref |-> ref, status |-> "CertificateChecked"]

\* An explicit stub is preferred to a live binary.
ChosenChecker(env) == IF env.stub THEN "stub" ELSE IF env.live # NoFile THEN "live" ELSE NoFile

\* certifyedge-stub.py names itself in the reference it prints.
AnswersOf(env, refs) == Answers(IF ChosenChecker(env) = "stub" THEN {"stub"} ELSE refs)

RunCertifyEdgeCheck(env, askedRef, asksLive, answer) ==
    LET requireLive == asksLive \/ env.requireLive
        usingStub == ChosenChecker(env) = "stub"
        ref == IF askedRef # NoRef THEN askedRef ELSE answer.ref
        class == CASE ref # NoRef -> RefClass(ref) [] ref = NoRef /\ usingStub -> "stub"
                   [] OTHER -> "live"
    IN  CASE requireLive /\ (RefClass(askedRef) = "mock" \/ env.mode = "mock") ->
                Refused("mock", NoRef)
          [] ~requireLive /\ env.mode = "mock" ->
                Checked("mock", IF askedRef = NoRef THEN "mock" ELSE askedRef)
          [] OTHER ->
                CASE usingStub /\ requireLive /\ ~env.allowStub -> Refused("stub", NoRef)
                  [] ChosenChecker(env) = NoFile -> Refused(NoClass, NoRef)
                  [] OTHER ->
                        IF answer.exit # "zero" THEN Refused(NoClass, NoRef)
                        ELSE IF Disallowed(class, requireLive, env.allowStub)
                        THEN Refused(class, ref)
                        ELSE Checked(class, ref)

\* write_certifyedge_certificate repeats the class check on the result.
CertificateWritten(env, askedRef, asksLive, answer) ==
    LET r == RunCertifyEdgeCheck(env, askedRef, asksLive, answer)
    IN  r.ok /\ ~Disallowed(IF r.class # NoClass THEN r.class ELSE RefClass(r.ref),
                            asksLive, env.allowStub)

(***************************************************************************)
(* validate_attestation_against_pin: an attestation beside the pin and the *)
(* provision environment of whoever verifies it.  The digest of an         *)
(* attestation made without a binary is that of the empty file: NoFile.    *)
(* The form of the digests and the policy digest are left out: both are    *)
(* put right when an attestation is built, and one altered since is refused*)
(* for its own digest.                                                     *)
(***************************************************************************)
AttestationPinErrors(att, pin, provision, requirePinned) ==
    LET expected == IF provision # NoProvision THEN provision.digest ELSE ExpectedBinary(pin)
        version  == IF provision # NoProvision THEN provision.version ELSE pin.version
    IN  CASE pin = NoPin -> IF requirePinned THEN {"CertifyEdgePinUnreadable"} ELSE {}
          [] pin # NoPin /\ requirePinned /\ ~ProductionReady(pin) ->
                {"CertifyEdgePinNotProductionReady"}
          [] OTHER ->
             {e \in {"CertifyEdgeVersionMismatch", "CertifyEdgeIssuerMismatch",
                     "CertifyEdgeUntrustedDevelopment", "CertifyEdgeBinaryDigestMismatch",
                     "CertifyEdgeTrustGradeNotPinned"} :
                \/ e = "CertifyEdgeVersionMismatch" /\ version # "" /\ att.version \notin {"", version}
                \/ /\ e = "CertifyEdgeIssuerMismatch" /\ provision # NoProvision
                   /\ att.issuer # provision.identity /\ att.digest # provision.digest
                \/ /\ e = "CertifyEdgeUntrustedDevelopment" /\ requirePinned
                   /\ provision # NoProvision /\ provision.grade = "untrusted_development"
                \/ /\ e = "CertifyEdgeBinaryDigestMismatch"
                   /\ expected # NoFile /\ att.digest # expected
                \/ /\ e = "CertifyEdgeTrustGradeNotPinned" /\ requirePinned
                   /\ CheckerTrust(NoFile, pin, provision) # "pinned"}
=============================================================================
