--------------------------- MODULE MCReleaseGates ---------------------------
(***************************************************************************)
(* An instance of ReleaseGates: a certificate that may be rewritten once,  *)
(* its own envelope and the shared one, two keys of which the first        *)
(* expires, two signers, an unset pin and a pinned binary.                 *)
(***************************************************************************)
EXTENDS ReleaseGates, TLC
CONSTANTS cert, s1, s2, k1, k2, good, bad, b1, b2

MCFiles == {cert}
MCStem == [f \in MCFiles |-> Named]      \* the certificate is PFCoreCertificate.v0.json
MCTypeOf == [f \in MCFiles |-> "PFCoreCertificate.v0"]
MCVersioned == {"PFCoreReleaseBundleManifest.v0"}
MCBodies == {b1, b2}
\* No definition tells one body from another.
MCSymmetry == Permutations(MCBodies)

Key(id, seed, from, until, purposes) ==
    [id |-> id, public |-> seed, from |-> from, until |-> until, revoked |-> NoTime,
     purposes |-> purposes]
MCKeyOffers == {Key(k1, s1, 0, 1, {"release_signing"}), Key(k2, s2, 0, NoTime, {})}
MCHolders == {<<s1, k1>>, <<s2, k2>>}

Pin(status, strategy, complete, binary) ==
    [status |-> status, strategy |-> strategy, complete |-> complete, binary |-> binary,
     version |-> "1.2.3"]
MCPins == {Pin("unpinned", "none", FALSE, NoFile), Pin("pinned", "signed_binary", TRUE, good)}

MCModeTable ==
    [m \in {"TraceSafeRCertificate", "CompositionalExtensionCertificate"} \cup SpecializedModes |->
        CASE m = "TraceSafeRCertificate" -> [status |-> "release_candidate", issued |-> TRUE]
          [] m = "CompositionalExtensionCertificate" -> [status |-> "experimental", issued |-> TRUE]
          [] OTHER -> [status |-> "disabled", issued |-> FALSE]]
=============================================================================
